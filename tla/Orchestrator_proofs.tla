------------------------ MODULE Orchestrator_proofs ------------------------
(***************************************************************************)
(* Theorems about Orchestrator, for any tasks, runs, repositories and      *)
(* limits.  Each rests on an invariant of its own, every step of which is  *)
(* proved to keep it:                                                      *)
(*   Inv          what a start, a session or the pump refers to was really *)
(*                created (Named), and two members of the custom queue     *)
(*                never share a place (Places): the types, and the order   *)
(*                in which the scheduler takes tasks;                      *)
(*   SlotInv      what the pass has counted and not yet started still has  *)
(*                room: the scheduler stays within Cap;                    *)
(*   CalmInv      all that is in flight of a task belongs to the one turn  *)
(*                its status tells of (with Patient): no task is stranded, *)
(*                no agent strays, and Turns is implemented;               *)
(*   CheckoutInv  no claimed start or turn shares its checkout with        *)
(*                another one.                                             *)
(***************************************************************************)
EXTENDS Orchestrator, FiniteSetTheorems, TLAPS

Named ==
    /\ \A r \in Run : sess[r] # "none" \/ r \in stops => runTask[r] \in Task
    /\ \A s \in Starter : start[s].pc # "off" => start[s].task \in Task
    /\ \A s \in Starter : start[s].pc \in {"kill", "row"} => start[s].run \in Run
    /\ \A s \in Starter : start[s].pc = "row" => runTask[start[s].run] \in Task
    /\ sched.pc = "handoff" => sched.head \in Task

\* No two members share a place, and the next stamp is behind all of them.
Places ==
    /\ \A t \in Task : row[t].mark <= Cardinality(Task) + acts
    /\ \A t, u \in Task : row[t].mark = row[u].mark /\ row[t].mark > 0 => t = u

Inv == TypeOK /\ Named /\ Places

\* What every step but an addition to the queue does to the marks.
MarksKept(old, new) == \A t \in Task : new[t].mark \in {old[t].mark, 0}

---------------------------------------------------------------------------
(* Operators of TaskStore *)

\* A moved row (transitionTask) is a row.
LEMMA MovedType ==
    ASSUME NEW r \in Row, NEW to \in Status
    PROVE  /\ Moved(r, to) \in Row
           /\ Moved(r, to).mark \in {r.mark, 0}
BY DEF Moved, Row

\* A transition leaves a table of rows, and no mark but its own or 0.
LEMMA TransitionType ==
    ASSUME NEW table \in [Task -> Row], NEW t, NEW from, NEW to \in Status
    PROVE  /\ Transition(table, t, from, to) \in [Task -> Row]
           /\ MarksKept(table, Transition(table, t, from, to))
<1>1. CASE t \in Task
  BY <1>1, MovedType DEF Transition, MarksKept
<1>2. CASE t \notin Task
  <2>1. Transition(table, t, from, to) = table
    BY <1>2 DEF Transition
  <2> QED BY <2>1 DEF MarksKept
<1> QED BY <1>1, <1>2

\* The same of a transition that patches the verify round.
LEMMA TransitionVerifyType ==
    ASSUME NEW table \in [Task -> Row], NEW t, NEW from, NEW to \in Status,
           NEW verify \in BOOLEAN
    PROVE  /\ TransitionVerify(table, t, from, to, verify) \in [Task -> Row]
           /\ MarksKept(table, TransitionVerify(table, t, from, to, verify))
<1>1. CASE t \in Task
  <2> DEFINE m == [Moved(table[t], to) EXCEPT !.verify = verify]
  <2>1. m \in Row /\ m.mark \in {table[t].mark, 0}
    BY <1>1, MovedType DEF Row
  <2>2. TransitionVerify(table, t, from, to, verify) \in {table, [table EXCEPT ![t] = m]}
    BY DEF TransitionVerify
  <2> QED BY <1>1, <2>1, <2>2 DEF MarksKept
<1>2. CASE t \notin Task
  <2>1. TransitionVerify(table, t, from, to, verify) = table
    BY <1>2 DEF TransitionVerify
  <2> QED BY <2>1 DEF MarksKept
<1> QED BY <1>1, <1>2

\* A claim leaves a table of rows.
LEMMA ClaimedType ==
    ASSUME NEW table \in [Task -> Row], NEW t \in Task
    PROVE  /\ Claimed(table, t) \in [Task -> Row]
           /\ MarksKept(table, Claimed(table, t))
BY DEF Claimed, MarksKept, Row, Status

\* Two steps that keep or drop marks do so together.
LEMMA KeptTwice ==
    ASSUME NEW x \in [Task -> Row], NEW y \in [Task -> Row], NEW z \in [Task -> Row],
           MarksKept(x, y), MarksKept(y, z)
    PROVE  MarksKept(x, z)
BY DEF MarksKept

\* Marks that are kept or dropped leave the places as they were.
LEMMA PlacesKept ==
    ASSUME Inv, TypeOK', MarksKept(row, row'), acts' >= acts
    PROVE  Places'
<1>1. Cardinality(Task) \in Nat
  BY TaskAssumption, FS_CardinalityType
<1>2. /\ acts \in Nat /\ acts' \in Nat
      /\ row \in [Task -> Row] /\ row' \in [Task -> Row]
  BY LimitsAssumption DEF Inv, TypeOK
<1>3. \A t \in Task : row[t].mark \in Nat /\ row'[t].mark \in Nat
  BY <1>2 DEF Row
<1> QED BY <1>1, <1>2, <1>3 DEF Inv, Places, MarksKept

---------------------------------------------------------------------------
(* Initial states *)

\* The first state has the invariant: its places are those of InPlace.
LEMMA InitInv == Init => Inv
<1> SUFFICES ASSUME Init PROVE Inv
  OBVIOUS
<1>1. Cardinality(Task) \in Nat
  BY TaskAssumption, FS_CardinalityType
<1>2. \A t \in Task : row[t].mark \in 0 .. Cardinality(Task)
  BY <1>1 DEF Init, NewRow
<1>3. row \in [Task -> Row]
  <2>1. \A n \in Nat : NewRow("queued", n) \in Row /\ NewRow("draft", n) \in Row
    BY DEF NewRow, Row, Status
  <2>2. {NewRow("draft", 0)} \cup {NewRow("queued", n) : n \in 0 .. Cardinality(Task)}
          \subseteq Row
    BY <1>1, <2>1
  <2> QED BY <2>2 DEF Init
<1>4. start \in [Starter -> StartRecord]
  BY DEF Init, StartRecord, NotStarting
<1>5. sched \in SchedRecord
  BY DEF Init, SchedRecord, Asleep, Woken
<1>6. TypeOK
  BY <1>3, <1>4, <1>5, LimitsAssumption DEF Init, TypeOK, Status
<1>7. Named
  BY DEF Init, Named, NotStarting, Asleep, Woken
<1>8. Places
  BY <1>1, <1>2 DEF Init, Places, InPlace
<1> QED BY <1>6, <1>7, <1>8 DEF Inv

---------------------------------------------------------------------------
(* Steps.  StepOK is what every step is shown to do; QueueAdd, which gives a *)
(* mark, is shown apart.                                                    *)

StepOK == TypeOK' /\ Named' /\ MarksKept(row, row') /\ acts' >= acts

\* A step that leaves the rows alone keeps the marks.
LEMMA Unmarked == ASSUME row' = row PROVE MarksKept(row, row')
BY DEF MarksKept

\* A call of maybeSchedule leaves a pass well formed.
LEMMA WokenType ==
    ASSUME sched \in SchedRecord
    PROVE  /\ Woken(sched) \in SchedRecord
           /\ Woken(sched).pc = "handoff" => sched.pc = "handoff"
           /\ Woken(sched).head = sched.head
BY DEF Woken, SchedRecord

\* The two ways a pass goes on after the pump.
LEMMA AfterPumpType ==
    ASSUME NEW on PROVE AfterPump(on) \in {"base", "disabled"}
BY Zenon DEF AfterPump

\* The 10 s tick.
LEMMA TickOK == ASSUME Inv, Tick PROVE StepOK
BY WokenType, Unmarked DEF Inv, StepOK, Tick, Wake, TypeOK, Named, store, sessions, bounds

\* The steps of a pass that start nobody.
LEMMA SchedulerOK ==
    ASSUME Inv, \/ PassBegins \/ PumpLooks \/ PassEnds \/ PassReturns
    PROVE  StepOK
<1>1. CASE PassBegins
  <2>1. LiveHolds \subseteq Task /\ {RepoOf[t] : t \in LiveHolds} \subseteq Repo
    BY RepoOfAssumption DEF LiveHolds, Inv, TypeOK
  <2>2. sched' \in SchedRecord /\ holds' \in SUBSET Task /\ sched'.pc = "custom"
    BY <1>1, <2>1 DEF PassBegins, SchedRecord
  <2>3. UNCHANGED <<store, sessions, start, stops, reviewing, bounds>>
    BY <1>1 DEF PassBegins
  <2> QED BY <2>2, <2>3, Unmarked
          DEF Inv, StepOK, TypeOK, Named, store, sessions, bounds
<1>2. CASE PumpLooks
  <2>1. CustomHead(row, sched.skip) \subseteq Task
    BY DEF CustomHead
  <2>2. sched' \in SchedRecord /\ (sched'.pc = "handoff" => sched'.head \in Task)
    <3>1. sched \in SchedRecord /\ sched.pc = "custom"
      BY <1>2 DEF PumpLooks, Inv, TypeOK
    <3>2. CASE CustomHead(row, sched.skip) # {}
      <4> DEFINE t == CHOOSE t \in CustomHead(row, sched.skip) : TRUE
      <4>1. t \in Task
        BY <2>1, <3>2
      <4>2. RepoOf[t] \in Repo
        BY <4>1, RepoOfAssumption
      <4>3. CASE sched' = [sched EXCEPT !.skip = @ \cup {RepoOf[t]}, !.pc = sched.pc,
                                        !.head = sched.head]
        <5> HIDE DEF t
        <5> QED BY <3>1, <4>2, <4>3 DEF SchedRecord
      <4>4. CASE sched' = [sched EXCEPT !.skip = @ \cup {RepoOf[t]}, !.pc = "handoff",
                                        !.head = t]
        <5> HIDE DEF t
        <5> QED BY <3>1, <4>1, <4>2, <4>4 DEF SchedRecord
      <4>5. CASE \E on \in Switch : sched' = [sched EXCEPT !.pc = AfterPump(on)]
        <5> HIDE DEF t
        <5> QED BY <3>1, <4>5, AfterPumpType DEF SchedRecord
      <4> QED BY <1>2, <3>2, <4>3, <4>4, <4>5, Zenon DEF PumpLooks
    <3>3. CASE CustomHead(row, sched.skip) = {}
      <4>1. \E on \in Switch : sched' = [sched EXCEPT !.pc = AfterPump(on)]
        BY <1>2, <3>3, Zenon DEF PumpLooks
      <4> QED BY <3>1, <4>1, AfterPumpType DEF SchedRecord
    <3> QED BY <3>2, <3>3
  <2>3. UNCHANGED <<store, sessions, start, stops, holds, reviewing, bounds>>
    BY <1>2 DEF PumpLooks
  <2> QED BY <2>2, <2>3, Unmarked
          DEF Inv, StepOK, TypeOK, Named, store, sessions, bounds
<1>3. CASE PassEnds \/ PassReturns
  <2>1. sched \in SchedRecord
    BY DEF Inv, TypeOK
  <2>2. sched' \in SchedRecord /\ sched'.pc # "handoff"
    <3>1. CASE PassEnds
      BY <2>1, <3>1 DEF PassEnds, Asleep, SchedRecord
    <3>2. CASE PassReturns
      BY <2>1, <3>2 DEF PassReturns, Asleep, SchedRecord
    <3> QED BY <1>3, <3>1, <3>2
  <2>3. UNCHANGED <<store, sessions, start, stops, holds, reviewing, bounds>>
    BY <1>3 DEF PassEnds, PassReturns
  <2> QED BY <2>2, <2>3, Unmarked
          DEF Inv, StepOK, TypeOK, Named, store, sessions, bounds
<1> QED BY <1>1, <1>2, <1>3

\* What a step may do with the starts in flight: nothing, end one, abort one,
\* or send one for the task t on its way.
StartsFrom(t) ==
    \A q \in Starter :
        \/ start'[q] = start[q]
        \/ start'[q].pc = "off"
        \/ start'[q].task = t /\ start'[q].pc \in {"gate", "base"}

\* The first stretch of startWorker names the task it starts.
LEMMA EnterStartOK ==
    ASSUME Inv, NEW s \in Starter, NEW t \in Task, NEW resume \in BOOLEAN,
           NEW moved \in [Task -> Row], MarksKept(row, moved),
           EnterStart(s, t, resume, moved)
    PROVE  /\ row' \in [Task -> Row] /\ MarksKept(row, row')
           /\ start' \in [Starter -> StartRecord] /\ StartsFrom(t)
<1>1. row \in [Task -> Row] /\ start \in [Starter -> StartRecord]
  BY DEF Inv, TypeOK
<1>2. CASE HasLive(t)
  <2>1. row' = Transition(moved, t, {"running"}, "review")
    BY <1>2 DEF EnterStart
  <2>2. row' \in [Task -> Row] /\ MarksKept(moved, row')
    BY <2>1, TransitionType DEF Status
  <2>3. MarksKept(row, row')
    BY <1>1, <2>2, KeptTwice
  <2>4. start' = [start EXCEPT ![s] = NotStarting]
    BY <1>2 DEF EnterStart, StartOver
  <2>5. NotStarting \in StartRecord /\ NotStarting.pc = "off"
    BY DEF NotStarting, StartRecord
  <2>6. start' \in [Starter -> StartRecord] /\ StartsFrom(t)
    BY <1>1, <2>4, <2>5 DEF StartsFrom
  <2> QED BY <2>2, <2>3, <2>6
<1>3. CASE ~HasLive(t)
  <2> DEFINE new == [pc |-> IF resume THEN "gate" ELSE "base", task |-> t,
                     run |-> NoRun, resume |-> resume, abort |-> FALSE]
  <2>1. row' = moved /\ start' = [start EXCEPT ![s] = new]
    BY <1>3 DEF EnterStart
  <2>2. new \in StartRecord /\ new.task = t /\ new.pc \in {"gate", "base"}
    BY DEF StartRecord
  <2> HIDE DEF new
  <2> QED BY <1>1, <2>1, <2>2 DEF StartsFrom
<1> QED BY <1>2, <1>3

\* The answer to a start leaves the pass well formed.
LEMMA AnsweredOK ==
    ASSUME Inv, NEW s \in Starter, start[s].task \in Task, NEW ok \in BOOLEAN
    PROVE  /\ Answered(s, ok) \in SchedRecord
           /\ Answered(s, ok).pc = "handoff" => sched = Answered(s, ok)
<1>1. sched \in SchedRecord /\ RepoOf[start[s].task] \in Repo
  BY RepoOfAssumption DEF Inv, TypeOK
<1>2. CASE s # Sched
  <2>1. Answered(s, ok) = sched
    BY <1>2 DEF Answered
  <2> QED BY <1>1, <2>1
<1>3. CASE s = Sched /\ sched.pc = "customStart"
  BY <1>1, <1>3 DEF Answered, SchedRecord
<1>4. CASE s = Sched /\ sched.pc # "customStart"
  BY <1>1, <1>4 DEF Answered, SchedRecord
<1> QED BY <1>2, <1>3, <1>4

\* The status a start leaves is a status.
LEMMA NotedType == ASSUME Inv, NEW t \in Task PROVE NotedBefore(t) \in [Task -> Status]
BY DEF NotedBefore, Inv, TypeOK, Row

\* The starts stay named when nothing but StartsFrom happens to them.
LEMMA StartsNamed ==
    ASSUME Inv, NEW t \in Task, StartsFrom(t), runTask' = runTask
    PROVE  \A s \in Starter :
              /\ start'[s].pc # "off" => start'[s].task \in Task
              /\ start'[s].pc \in {"kill", "row"} => start'[s].run \in Run
              /\ start'[s].pc = "row" => runTask'[start'[s].run] \in Task
BY DEF StartsFrom, Inv, Named

\* The pump claims a head, or finds it gone.
LEMMA PumpClaimsOK == ASSUME Inv, NEW ok \in BOOLEAN, PumpClaims(ok) PROVE StepOK
<1> DEFINE t == sched.head
<1>1. /\ t \in Task /\ sched \in SchedRecord /\ row \in [Task -> Row]
      /\ sched.pc = "handoff"
  BY DEF PumpClaims, Inv, TypeOK, Named
<1>2. UNCHANGED <<sessions, stops, holds, reviewing, bounds>>
  BY DEF PumpClaims
<1>3. sched' \in SchedRecord /\ sched'.pc # "handoff"
  BY <1>1 DEF PumpClaims, SchedRecord
<1>4. CASE ok /\ CanClaimCustom(row, t)
  <2>1. before' = NotedBefore(t) /\ EnterStart(Sched, t, FALSE, Claimed(row, t))
    BY <1>4 DEF PumpClaims
  <2>2. before' \in [Task -> Status]
    BY <1>1, <2>1, NotedType
  <2>3. Claimed(row, t) \in [Task -> Row] /\ MarksKept(row, Claimed(row, t))
    BY <1>1, ClaimedType
  <2> HIDE DEF t
  <2>4. /\ row' \in [Task -> Row] /\ MarksKept(row, row')
        /\ start' \in [Starter -> StartRecord] /\ StartsFrom(t)
    BY <1>1, <2>1, <2>3, EnterStartOK DEF Starter
  <2> QED BY <1>1, <1>2, <1>3, <2>2, <2>4, StartsNamed
          DEF Inv, StepOK, TypeOK, Named, sessions, bounds
<1>5. CASE ~(ok /\ CanClaimCustom(row, t))
  <2>1. UNCHANGED <<store, start>>
    BY <1>5 DEF PumpClaims
  <2> QED BY <1>2, <1>3, <2>1, Unmarked
          DEF Inv, StepOK, TypeOK, Named, store, sessions, bounds
<1> QED BY <1>4, <1>5

\* A claim of the global queue.
LEMMA BaseClaimsOK == ASSUME Inv, BaseClaims PROVE StepOK
<1>1. sched \in SchedRecord /\ row \in [Task -> Row]
  BY DEF Inv, TypeOK
<1>2. UNCHANGED <<sessions, stops, holds, reviewing, bounds>>
  BY DEF BaseClaims
<1>3. CASE ActiveWorkers < Cap /\ BaseHead(row) # {}
  <2> DEFINE t == CHOOSE t \in BaseHead(row) : TRUE
  <2>1. t \in Task
    BY <1>3 DEF BaseHead
  <2>2. before' = NotedBefore(t) /\ EnterStart(Sched, t, FALSE, Claimed(row, t))
    BY <1>3 DEF BaseClaims
  <2>3. sched' = [sched EXCEPT !.pc = IF HasLive(t) THEN "end" ELSE "baseStart"]
    BY <1>3 DEF BaseClaims
  <2> HIDE DEF t
  <2>4. sched' \in SchedRecord /\ sched'.pc # "handoff"
    BY <1>1, <2>3 DEF SchedRecord
  <2>5. before' \in [Task -> Status]
    BY <2>1, <2>2, NotedType
  <2>6. Claimed(row, t) \in [Task -> Row] /\ MarksKept(row, Claimed(row, t))
    BY <1>1, <2>1, ClaimedType
  <2>7. /\ row' \in [Task -> Row] /\ MarksKept(row, row')
        /\ start' \in [Starter -> StartRecord] /\ StartsFrom(t)
    BY <2>1, <2>2, <2>6, EnterStartOK DEF Starter
  <2> QED BY <1>2, <2>1, <2>4, <2>5, <2>7, StartsNamed
          DEF Inv, StepOK, TypeOK, Named, sessions, bounds
<1>4. CASE ~(ActiveWorkers < Cap /\ BaseHead(row) # {})
  <2>1. UNCHANGED <<store, start>> /\ sched' = [sched EXCEPT !.pc = "end"]
    BY <1>4 DEF BaseClaims
  <2>2. sched' \in SchedRecord /\ sched'.pc # "handoff"
    BY <1>1, <2>1 DEF SchedRecord
  <2> QED BY <1>2, <2>1, <2>2, Unmarked
          DEF Inv, StepOK, TypeOK, Named, store, sessions, bounds
<1> QED BY <1>3, <1>4

\* The two ends of the compaction gate.
LEMMA GateOK ==
    ASSUME Inv, NEW s \in Starter, GateAborted(s) \/ GatePassed(s)
    PROVE  StepOK
<1> DEFINE t == start[s].task
<1>1. /\ t \in Task /\ start \in [Starter -> StartRecord]
      /\ row \in [Task -> Row]
  BY DEF GateAborted, GatePassed, Inv, TypeOK, Named
<1>2. NotStarting \in StartRecord /\ NotStarting.pc = "off"
  BY DEF NotStarting, StartRecord
<1>3. start' \in [Starter -> StartRecord] /\ StartsFrom(t)
  <2>1. CASE start' = [start EXCEPT ![s] = NotStarting]
    BY <1>1, <1>2, <2>1 DEF StartsFrom
  <2>2. CASE start' = [start EXCEPT ![s].pc = "base"]
    BY <1>1, <2>2 DEF StartsFrom, StartRecord
  <2> QED BY <2>1, <2>2 DEF GateAborted, GatePassed, StartOver
<1>4. row' \in [Task -> Row] /\ MarksKept(row, row')
  <2>1. CASE row' = Transition(row, t, {"running"}, "review")
    BY <1>1, <2>1, TransitionType DEF Status
  <2>2. CASE row' = row
    BY <1>1, <2>2, Unmarked
  <2> QED BY <2>1, <2>2 DEF GateAborted, GatePassed, store
<1>5. UNCHANGED <<before, sessions, stops, holds, reviewing, sched, bounds>>
  BY DEF GateAborted, GatePassed, store
<1> HIDE DEF t
<1> QED BY <1>1, <1>3, <1>4, <1>5, StartsNamed
        DEF Inv, StepOK, TypeOK, Named, sessions, bounds

\* The run row of a start: from here on the run has its task.
LEMMA CreateRunOK == ASSUME Inv, NEW s \in Starter, CreateRun(s) PROVE StepOK
<1> DEFINE t == start[s].task
<1>1. /\ t \in Task /\ RepoOf[t] \in Repo /\ start \in [Starter -> StartRecord]
      /\ start[s].pc = "base"
  BY RepoOfAssumption DEF CreateRun, Inv, TypeOK, Named
<1>2. PICK r \in Run :
        /\ runTask' = [runTask EXCEPT ![r] = t]
        /\ runStatus' = [runStatus EXCEPT ![r] = "running"]
        /\ latest' = [latest EXCEPT ![t] = r]
        /\ owner' = [owner EXCEPT ![RepoOf[t]] = t]
        /\ auto' = IF s = Sched THEN auto \cup {r} ELSE auto
        /\ start' = [start EXCEPT ![s].pc = "row", ![s].run = r]
  BY DEF CreateRun
<1>3. UNCHANGED <<store, sess, idle, dying, stops, holds, reviewing, sched, bounds>>
  BY DEF CreateRun
<1> HIDE DEF t
<1>4. /\ start' \in [Starter -> StartRecord]
      /\ \A q \in Starter : q # s => start'[q] = start[q]
      /\ start'[s].task = start[s].task /\ start'[s].pc = "row" /\ start'[s].run = r
  BY <1>1, <1>2 DEF StartRecord
<1>5. /\ runTask' \in [Run -> Task \cup {NoTask}]
      /\ \A q \in Run : runTask'[q] = runTask[q] \/ runTask'[q] \in Task
      /\ runTask'[r] \in Task
  BY <1>1, <1>2 DEF Inv, TypeOK
<1>6. TypeOK'
  <2>1. runStatus' \in [Run -> {"unused", "running", "exited", "killed"}]
    BY <1>2 DEF Inv, TypeOK
  <2>2. latest' \in [Task -> Run \cup {NoRun}] /\ owner' \in [Repo -> Task \cup {NoTask}]
    BY <1>1, <1>2 DEF Inv, TypeOK
  <2>3. auto' \in SUBSET Run
    BY <1>2 DEF Inv, TypeOK
  <2> QED BY <1>3, <1>4, <1>5, <2>1, <2>2, <2>3 DEF Inv, TypeOK, store, bounds
<1>7. Named'
  <2>1. \A q \in Starter : start'[q].pc # "off" => start'[q].task \in Task
    BY <1>1, <1>4 DEF Inv, Named, t
  <2>2. \A q \in Starter : start'[q].pc \in {"kill", "row"} => start'[q].run \in Run
    BY <1>4 DEF Inv, Named
  <2>3. \A q \in Starter : start'[q].pc = "row" => runTask'[start'[q].run] \in Task
    BY <1>4, <1>5 DEF Inv, Named
  <2>4. \A q \in Run : sess'[q] # "none" \/ q \in stops' => runTask'[q] \in Task
    BY <1>3, <1>5 DEF Inv, Named
  <2> QED BY <1>3, <2>1, <2>2, <2>3, <2>4 DEF Inv, Named
<1> QED BY <1>3, <1>6, <1>7, Unmarked, LimitsAssumption DEF StepOK, store, bounds, Inv, TypeOK

\* The spawn of a session, admitted or refused.
LEMMA SpawnOK ==
    ASSUME Inv, NEW s \in Starter, Spawn(s) \/ SpawnFails(s)
    PROVE  StepOK
<1> DEFINE t == start[s].task
           r == start[s].run
<1>1. /\ t \in Task /\ r \in Run /\ runTask[r] \in Task
      /\ start \in [Starter -> StartRecord] /\ row \in [Task -> Row]
      /\ sess \in [Run -> {"none", "live", "evicted", "settling", "gone"}]
  BY DEF Spawn, SpawnFails, Inv, TypeOK, Named
<1>2. /\ NotStarting \in StartRecord /\ NotStarting.pc = "off"
      /\ start' = [start EXCEPT ![s] = NotStarting]
  BY DEF NotStarting, StartRecord, Spawn, SpawnFails, StartOver
<1>3. start' \in [Starter -> StartRecord] /\ StartsFrom(t)
  BY <1>1, <1>2 DEF StartsFrom
<1>4. row' \in [Task -> Row] /\ MarksKept(row, row')
  <2>1. row' \in {row, Transition(row, t, {"running"}, "queued"),
                  Transition(row, t, {"running"}, "failed")}
    BY DEF Spawn, SpawnFails
  <2> QED BY <1>1, <2>1, TransitionType, Unmarked DEF Status
<1>5. /\ sess' \in [Run -> {"none", "live", "evicted", "settling", "gone"}]
      /\ \A q \in Run : sess'[q] # "none" => sess[q] # "none" \/ q = r
  <2>1. CASE Spawn(s)
    <3>1. PICK out \in SUBSET {q \in LiveRuns : q \in idle} :
            sess' = [q \in Run |->
                      IF q \in out THEN "evicted"
                      ELSE IF q = r /\ ~(Cardinality({p \in Run : AtWork(p)}) >= MaxLive)
                      THEN "live" ELSE sess[q]]
      BY <2>1 DEF Spawn
    <3>2. \A q \in out : q \in Run /\ sess[q] # "none"
      BY <3>1 DEF LiveRuns, Live
    <3> HIDE DEF r
    <3> QED BY <1>1, <3>1, <3>2
  <2>2. CASE SpawnFails(s)
    BY <1>1, <2>2 DEF SpawnFails
  <2> QED BY <2>1, <2>2
<1>6. runStatus' \in [Run -> {"unused", "running", "exited", "killed"}]
  <2>1. runStatus' \in {runStatus, [runStatus EXCEPT ![r] = "exited"]}
    BY DEF Spawn, SpawnFails
  <2> QED BY <1>1, <2>1 DEF Inv, TypeOK
<1>7. sched' \in SchedRecord /\ (sched'.pc = "handoff" => sched' = sched)
  <2>1. PICK ok \in BOOLEAN : sched' = Answered(s, ok)
    BY DEF Spawn, SpawnFails
  <2> QED BY <1>1, <2>1, AnsweredOK
<1>8. UNCHANGED <<before, runTask, latest, owner, idle, dying, auto, stops, holds,
                  reviewing, bounds>>
  BY DEF Spawn, SpawnFails
<1> HIDE DEF t, r
<1>9. Named'
  <2>1. \A q \in Run : sess'[q] # "none" \/ q \in stops' => runTask'[q] \in Task
    BY <1>1, <1>5, <1>8 DEF Inv, Named
  <2> QED BY <1>1, <1>3, <1>7, <1>8, <2>1, StartsNamed DEF Inv, Named
<1> QED BY <1>3, <1>4, <1>5, <1>6, <1>7, <1>8, <1>9
        DEF Inv, StepOK, TypeOK, bounds

\* A session, or a run whose Stop is settled, belongs to a task.
LEMMA RunHasTask ==
    ASSUME Inv, NEW r \in Run, sess[r] # "none" \/ r \in stops
    PROVE  runTask[r] \in Task
BY DEF Inv, Named

\* The Stop hook arrives, is ignored, or parks the turn.
LEMMA StopOK ==
    ASSUME Inv, NEW r \in Run,
           StopArrives(r) \/ StopIgnored(r) \/ StopParks(r)
    PROVE  StepOK
<1>1. row \in [Task -> Row] /\ stops \in SUBSET Run
  BY DEF Inv, TypeOK
<1>2. row' \in [Task -> Row] /\ MarksKept(row, row')
  <2> DEFINE moved == TransitionVerify(row, runTask[r], {"running", "waiting"},
                                       "waiting", FALSE)
  <2>1. row' = row \/ row' = moved
    BY DEF StopArrives, StopIgnored, StopParks, store
  <2>2. moved \in [Task -> Row] /\ MarksKept(row, moved)
    BY <1>1, TransitionVerifyType, "waiting" \in Status, FALSE \in BOOLEAN, Zenon DEF Status
  <2> HIDE DEF moved
  <2> QED BY <1>1, <2>1, <2>2, Unmarked
<1>3. /\ stops' \in SUBSET Run
      /\ \A q \in Run : q \in stops' => q \in stops \/ (q = r /\ sess[r] # "none")
  BY <1>1 DEF StopArrives, StopIgnored, StopParks, AtWork, Live
<1>4. UNCHANGED <<before, sessions, start, holds, reviewing, sched, bounds>>
  BY DEF StopArrives, StopIgnored, StopParks, store
<1> QED BY <1>2, <1>3, <1>4 DEF Inv, StepOK, TypeOK, Named, sessions, bounds

\* The Stop hook lands the turn in review.
LEMMA StopLandsOK ==
    ASSUME Inv, NEW r \in Run, NEW due \in BOOLEAN, StopLands(r, due)
    PROVE  StepOK
<1> DEFINE t == runTask[r]
<1>1. /\ t \in Task /\ row \in [Task -> Row] /\ sched \in SchedRecord
      /\ stops \in SUBSET Run /\ holds \in SUBSET Task
      /\ reviewing \in SUBSET Task /\ idle \in SUBSET Run
  BY RunHasTask DEF StopLands, Inv, TypeOK
<1>2. row' \in [Task -> Row] /\ MarksKept(row, row')
  <2>1. row' = TransitionVerify(row, t, {"running", "waiting"}, "review", due)
    BY DEF StopLands
  <2> QED BY <1>1, <2>1, TransitionVerifyType DEF Status
<1>3. sched' = Woken(sched)
  BY DEF StopLands, Wake
<1>4. /\ stops' = stops \ {r}
      /\ holds' = holds \cup {t} \/ holds' = holds \ {t}
      /\ reviewing' = reviewing \cup {t} \/ reviewing' = reviewing
      /\ idle' = idle \cup {r} \/ idle' = idle
  BY DEF StopLands
<1>5. UNCHANGED <<before, runTask, runStatus, latest, owner, sess, dying, auto, start,
                  bounds>>
  BY DEF StopLands
<1> HIDE DEF t
<1>6. /\ stops' \in SUBSET Run /\ holds' \in SUBSET Task
      /\ reviewing' \in SUBSET Task /\ idle' \in SUBSET Run
  BY <1>1, <1>4
<1>7. TypeOK'
  BY <1>1, <1>2, <1>3, <1>5, <1>6, WokenType DEF Inv, TypeOK, bounds
<1>8. Named'
  BY <1>1, <1>3, <1>4, <1>5, WokenType DEF Inv, Named
<1> QED BY <1>2, <1>5, <1>7, <1>8 DEF StepOK, Inv, TypeOK, bounds

\* A parked turn goes on.
LEMMA WaitEndsOK == ASSUME Inv, NEW t \in Task, WaitEnds(t) PROVE StepOK
<1>1. row' = Transition(row, t, {"waiting"}, "running") /\ row \in [Task -> Row]
  BY DEF WaitEnds, Inv, TypeOK
<1>2. row' \in [Task -> Row] /\ MarksKept(row, row')
  BY <1>1, TransitionType DEF Status
<1>3. UNCHANGED <<before, sessions, start, stops, holds, reviewing, sched, bounds>>
  BY DEF WaitEnds
<1> QED BY <1>2, <1>3 DEF Inv, StepOK, TypeOK, Named, sessions, bounds

\* A review settles.
LEMMA ReviewEndsOK == ASSUME Inv, NEW t \in Task, ReviewEnds(t) PROVE StepOK
<1>1. /\ row \in [Task -> Row] /\ sched \in SchedRecord
      /\ holds \in SUBSET Task /\ reviewing \in SUBSET Task
  BY DEF Inv, TypeOK
<1>2. row' \in [Task -> Row] /\ MarksKept(row, row')
  BY <1>1 DEF ReviewEnds, MarksKept, Row
<1>3. /\ sched' \in SchedRecord /\ (sched'.pc = "handoff" => sched.pc = "handoff")
      /\ sched'.head = sched.head
  BY <1>1, WokenType DEF ReviewEnds, Wake
<1>4. holds' \in SUBSET Task /\ reviewing' \in SUBSET Task
  BY <1>1 DEF ReviewEnds
<1>5. UNCHANGED <<before, sessions, start, stops, bounds>>
  BY DEF ReviewEnds
<1> QED BY <1>2, <1>3, <1>4, <1>5 DEF Inv, StepOK, TypeOK, Named, sessions, bounds

\* A session is let go, or its process ends.
LEMMA SessionOK ==
    ASSUME Inv, NEW r \in Run, Dispose(r) \/ Exits(r)
    PROVE  StepOK
<1>1. /\ sess \in [Run -> {"none", "live", "evicted", "settling", "gone"}]
      /\ runStatus \in [Run -> {"unused", "running", "exited", "killed"}]
      /\ dying \in SUBSET Run
  BY DEF Inv, TypeOK
<1>2. /\ sess' \in [Run -> {"none", "live", "evicted", "settling", "gone"}]
      /\ \A q \in Run : sess'[q] # "none" => sess[q] # "none"
  BY <1>1 DEF Dispose, Exits, Live
<1>3. runStatus' \in [Run -> {"unused", "running", "exited", "killed"}]
  BY <1>1 DEF Dispose, Exits
<1>4. dying' \in SUBSET Run
  BY <1>1 DEF Dispose, Exits
<1>5. UNCHANGED <<store, runTask, latest, owner, idle, auto, start, stops, holds,
                  reviewing, sched, bounds>>
  BY DEF Dispose, Exits
<1> QED BY <1>2, <1>3, <1>4, <1>5, Unmarked
        DEF Inv, StepOK, TypeOK, Named, store, bounds

\* An exit is settled.
LEMMA ExitSettlesOK ==
    ASSUME Inv, NEW r \in Run, NEW clean \in BOOLEAN, ExitSettles(r, clean)
    PROVE  StepOK
<1>1. /\ row \in [Task -> Row] /\ sched \in SchedRecord
      /\ sess \in [Run -> {"none", "live", "evicted", "settling", "gone"}]
  BY DEF Inv, TypeOK
<1>2. row' \in [Task -> Row] /\ MarksKept(row, row')
  <2> DEFINE moved(to) == TransitionVerify(row, runTask[r], {"running", "waiting"},
                                           to, FALSE)
  <2>1. row' = row \/ \E to \in Status : row' = moved(to)
    <3>1. row' = ExitMoves(r, clean) /\ {"review", "failed"} \subseteq Status
      BY DEF ExitSettles, Status
    <3>2. ExitMoves(r, clean) = row \/ \E to \in Status : ExitMoves(r, clean) = moved(to)
      BY <3>1, Zenon DEF ExitMoves, ExitLeaves
    <3> QED BY <3>1, <3>2, Zenon
  <2>2. \A to \in Status : moved(to) \in [Task -> Row] /\ MarksKept(row, moved(to))
    BY <1>1, TransitionVerifyType, FALSE \in BOOLEAN, Zenon
  <2> HIDE DEF moved
  <2> QED BY <1>1, <2>1, <2>2, Unmarked
<1>3. /\ sess' \in [Run -> {"none", "live", "evicted", "settling", "gone"}]
      /\ \A q \in Run : sess'[q] # "none" => sess[q] # "none"
  BY <1>1 DEF ExitSettles
<1>4. sched' = Woken(sched)
  BY DEF ExitSettles, Wake
<1>5. UNCHANGED <<before, runTask, runStatus, latest, owner, idle, dying, auto, start,
                  stops, holds, reviewing, bounds>>
  BY DEF ExitSettles
<1> QED BY <1>1, <1>2, <1>3, <1>4, <1>5, WokenType DEF Inv, StepOK, TypeOK, Named, bounds

---------------------------------------------------------------------------
(* Human requests *)

\* A human request counts up to its bound.
LEMMA AsksOK == ASSUME Inv, NEW t, Asks(t) PROVE acts' \in 0 .. HumanActions /\ acts' >= acts
BY LimitsAssumption DEF Inv, TypeOK, Asks

\* Killing runs leaves the run tables well formed.
LEMMA KillAllOK ==
    ASSUME Inv, NEW rs \in SUBSET Run, KillAll(rs)
    PROVE  /\ dying' \in SUBSET Run
           /\ runStatus' \in [Run -> {"unused", "running", "exited", "killed"}]
<1>1. /\ dying \in SUBSET Run
      /\ runStatus \in [Run -> {"unused", "running", "exited", "killed"}]
  BY DEF Inv, TypeOK
<1>2. dying' = dying \cup {r \in rs : Live(r)} /\ {r \in rs : Live(r)} \subseteq rs
  BY DEF KillAll
<1>3. runStatus' = [r \in Run |-> IF r \in rs THEN "killed" ELSE runStatus[r]]
  BY DEF KillAll
<1>4. dying' \in SUBSET Run
  BY <1>1, <1>2
<1>5. runStatus' \in [Run -> {"unused", "running", "exited", "killed"}]
  BY <1>1, <1>3
<1> QED BY <1>4, <1>5

\* Aborting a gate changes nobody's task or run.
LEMMA AbortGateOK ==
    ASSUME Inv, NEW t, AbortGate(t), runTask' = runTask
    PROVE  /\ start' \in [Starter -> StartRecord]
           /\ \A s \in Starter :
                /\ start'[s].pc # "off" => start'[s].task \in Task
                /\ start'[s].pc \in {"kill", "row"} => start'[s].run \in Run
                /\ start'[s].pc = "row" => runTask'[start'[s].run] \in Task
<1>1. start \in [Starter -> StartRecord]
  BY DEF Inv, TypeOK
<1>2. \A s \in Starter : [start[s] EXCEPT !.abort = TRUE] \in StartRecord
  BY <1>1 DEF StartRecord
<1>3. start' \in [Starter -> StartRecord]
  BY <1>1, <1>2 DEF AbortGate
<1>4. \A s \in Starter : /\ start'[s].pc = start[s].pc /\ start'[s].task = start[s].task
                         /\ start'[s].run = start[s].run
  BY <1>1 DEF AbortGate, StartRecord
<1> QED BY <1>3, <1>4 DEF Inv, Named

\* Run now.
LEMMA RunNowOK ==
    ASSUME Inv, NEW h \in Human, NEW t \in Task, RunNow(h, t)
    PROVE  StepOK
<1>1. /\ before' = NotedBefore(t)
      /\ EnterStart(h, t, FALSE, Transition(row, t, RunNowFrom, "running"))
      /\ row \in [Task -> Row]
  BY DEF RunNow, Inv, TypeOK
<1>2. /\ Transition(row, t, RunNowFrom, "running") \in [Task -> Row]
      /\ MarksKept(row, Transition(row, t, RunNowFrom, "running"))
  BY <1>1, TransitionType DEF Status
<1>3. /\ row' \in [Task -> Row] /\ MarksKept(row, row')
      /\ start' \in [Starter -> StartRecord] /\ StartsFrom(t)
  BY <1>1, <1>2, EnterStartOK DEF Starter
<1>4. before' \in [Task -> Status]
  BY <1>1, NotedType
<1>5. acts' \in 0 .. HumanActions /\ acts' >= acts
  BY AsksOK DEF RunNow
<1>6. UNCHANGED <<sessions, stops, holds, reviewing, sched, restarts>>
  BY DEF RunNow
<1> QED BY <1>3, <1>4, <1>5, <1>6, StartsNamed DEF Inv, StepOK, TypeOK, Named, sessions

\* The second half of a follow-up.
LEMMA FollowUpStartsOK ==
    ASSUME Inv, NEW h \in Human, NEW t \in Task, NEW resume \in BOOLEAN,
           FollowUpStarts(h, t, resume)
    PROVE  /\ row' \in [Task -> Row] /\ MarksKept(row, row')
           /\ before' \in [Task -> Status]
           /\ start' \in [Starter -> StartRecord] /\ StartsFrom(t)
<1>1. /\ row \in [Task -> Row] /\ before \in [Task -> Status]
      /\ start \in [Starter -> StartRecord]
  BY DEF Inv, TypeOK
<1>2. CASE CanMove(row, t, FollowUpFrom)
  <2>1. /\ before' = NotedBefore(t)
        /\ EnterStart(h, t, resume, Transition(row, t, FollowUpFrom, "running"))
    BY <1>2 DEF FollowUpStarts
  <2>2. /\ Transition(row, t, FollowUpFrom, "running") \in [Task -> Row]
        /\ MarksKept(row, Transition(row, t, FollowUpFrom, "running"))
    BY <1>1, TransitionType DEF Status
  <2> QED BY <2>1, <2>2, EnterStartOK, NotedType DEF Starter
<1>3. CASE ~CanMove(row, t, FollowUpFrom)
  <2>1. StartOver(h) /\ UNCHANGED store
    BY <1>3 DEF FollowUpStarts
  <2>2. NotStarting \in StartRecord /\ NotStarting.pc = "off"
    BY DEF NotStarting, StartRecord
  <2>3. start' \in [Starter -> StartRecord] /\ StartsFrom(t)
    BY <1>1, <2>1, <2>2 DEF StartOver, StartsFrom
  <2> QED BY <1>1, <2>1, <2>3, Unmarked DEF store
<1> QED BY <1>2, <1>3

\* A follow-up to a task without a terminal.
LEMMA FollowUpOK ==
    ASSUME Inv, NEW h \in Human, NEW t \in Task, NEW resume \in BOOLEAN,
           FollowUp(h, t, resume)
    PROVE  StepOK
<1>1. /\ row' \in [Task -> Row] /\ MarksKept(row, row')
      /\ before' \in [Task -> Status]
      /\ start' \in [Starter -> StartRecord] /\ StartsFrom(t)
  BY FollowUpStartsOK DEF FollowUp
<1>2. acts' \in 0 .. HumanActions /\ acts' >= acts
  BY AsksOK DEF FollowUp
<1>3. UNCHANGED <<sessions, stops, holds, reviewing, sched, restarts>>
  BY DEF FollowUp
<1> QED BY <1>1, <1>2, <1>3, StartsNamed DEF Inv, StepOK, TypeOK, Named, sessions

\* A follow-up that kills an idle terminal first.
LEMMA FollowUpKillsOK ==
    ASSUME Inv, NEW h \in Human, NEW t \in Task, NEW resume \in BOOLEAN,
           FollowUpKills(h, t, resume)
    PROVE  StepOK
<1> DEFINE new(r) == [pc |-> "kill", task |-> t, run |-> r, resume |-> resume,
                      abort |-> FALSE]
<1>1. PICK r \in Run : /\ dying' = dying \cup {r}
                       /\ start' = [start EXCEPT ![h] = new(r)]
  BY DEF FollowUpKills
<1>2. /\ new(r) \in StartRecord /\ new(r).task = t /\ new(r).run = r
      /\ new(r).pc = "kill"
  BY DEF StartRecord
<1>3. UNCHANGED <<store, runTask, runStatus, latest, owner, sess, idle, auto, stops,
                  holds, reviewing, sched, restarts>>
  BY DEF FollowUpKills
<1>4. acts' \in 0 .. HumanActions /\ acts' >= acts
  BY AsksOK DEF FollowUpKills
<1> HIDE DEF new
<1>5. /\ start' \in [Starter -> StartRecord] /\ dying' \in SUBSET Run
      /\ \A q \in Starter : q # h => start'[q] = start[q]
      /\ start'[h] = new(r)
  BY <1>1, <1>2 DEF Inv, TypeOK, Starter
<1>6. Named'
  BY <1>2, <1>3, <1>5 DEF Inv, Named
<1> QED BY <1>3, <1>4, <1>5, <1>6, Unmarked DEF Inv, StepOK, TypeOK, store

\* That follow-up, once the terminal is gone.
LEMMA FollowUpGoesOnOK == ASSUME Inv, NEW h \in Human, FollowUpGoesOn(h) PROVE StepOK
<1> DEFINE t == start[h].task
<1>1. /\ t \in Task /\ start[h].resume \in BOOLEAN /\ start[h].run \in Run
  <2>1. start[h] \in StartRecord /\ start[h].pc = "kill" /\ h \in Starter
    BY DEF FollowUpGoesOn, Inv, TypeOK, Starter
  <2> QED BY <2>1 DEF Inv, Named, StartRecord
<1>2. /\ FollowUpStarts(h, t, start[h].resume)
      /\ runStatus' = [runStatus EXCEPT ![start[h].run] = "killed"]
      /\ UNCHANGED <<runTask, latest, owner, sess, idle, dying, auto, stops, holds,
                     reviewing, sched, bounds>>
  BY DEF FollowUpGoesOn
<1> HIDE DEF t
<1>3. /\ row' \in [Task -> Row] /\ MarksKept(row, row')
      /\ before' \in [Task -> Status]
      /\ start' \in [Starter -> StartRecord] /\ StartsFrom(t)
  BY <1>1, <1>2, FollowUpStartsOK
<1>4. runStatus' \in [Run -> {"unused", "running", "exited", "killed"}]
  BY <1>1, <1>2 DEF Inv, TypeOK
<1> QED BY <1>1, <1>2, <1>3, <1>4, StartsNamed DEF Inv, StepOK, TypeOK, Named, bounds

\* The requests that only move a row, kill sessions and abort a gate.
LEMMA MovesOK ==
    ASSUME Inv, NEW t \in Task,
           row' \in [Task -> Row], MarksKept(row, row'), Asks(t),
           dying' \in SUBSET Run,
           runStatus' \in [Run -> {"unused", "running", "exited", "killed"}],
           UNCHANGED start \/ AbortGate(t),
           sched' = sched \/ sched' = Woken(sched),
           UNCHANGED <<before, runTask, latest, owner, sess, idle, auto, stops, holds,
                       reviewing, restarts>>
    PROVE  StepOK
<1>1. acts' \in 0 .. HumanActions /\ acts' >= acts
  BY AsksOK
<1>2. /\ sched' \in SchedRecord /\ (sched'.pc = "handoff" => sched.pc = "handoff")
      /\ sched'.head = sched.head
  <2>1. sched \in SchedRecord
    BY DEF Inv, TypeOK
  <2> QED BY <2>1, WokenType
<1>3. /\ start' \in [Starter -> StartRecord]
      /\ \A s \in Starter :
           /\ start'[s].pc # "off" => start'[s].task \in Task
           /\ start'[s].pc \in {"kill", "row"} => start'[s].run \in Run
           /\ start'[s].pc = "row" => runTask'[start'[s].run] \in Task
  <2>1. CASE UNCHANGED start
    BY <2>1 DEF Inv, TypeOK, Named
  <2>2. CASE AbortGate(t)
    BY <2>2, AbortGateOK
  <2> QED BY <2>1, <2>2
<1> QED BY <1>1, <1>2, <1>3 DEF Inv, StepOK, TypeOK, Named

\* Cancel.
LEMMA CancelOK == ASSUME Inv, NEW t \in Task, Cancel(t) PROVE StepOK
<1>1. row \in [Task -> Row]
  BY DEF Inv, TypeOK
<1>2. /\ Asks(t)
      /\ sched' = sched \/ sched' = Woken(sched)
      /\ UNCHANGED <<before, runTask, latest, owner, sess, idle, auto, stops, holds,
                     reviewing, restarts>>
  BY DEF Cancel, Wake
<1>3. row' \in [Task -> Row] /\ MarksKept(row, row')
  <2>1. \/ row' = Transition(row, t, {"draft", "queued"}, "cancelled")
        \/ row' = Transition(row, t, {"running", "waiting"}, "cancelled")
    BY DEF Cancel
  <2> QED BY <1>1, <2>1, TransitionType DEF Status
<1>4. /\ dying' \in SUBSET Run
      /\ runStatus' \in [Run -> {"unused", "running", "exited", "killed"}]
      /\ UNCHANGED start \/ AbortGate(t)
  <2>1. CASE row[t].status \in {"draft", "queued"}
    BY <2>1 DEF Cancel, Inv, TypeOK
  <2>2. CASE row[t].status \notin {"draft", "queued"}
    <3>1. AbortGate(t) /\ KillAll(Killable(t)) /\ Killable(t) \in SUBSET Run
      BY <2>2 DEF Cancel, Killable
    <3> QED BY <3>1, KillAllOK
  <2> QED BY <2>1, <2>2
<1> QED BY <1>2, <1>3, <1>4, MovesOK

\* Undo start.
LEMMA UndoStartOK == ASSUME Inv, NEW t \in Task, UndoStart(t) PROVE StepOK
<1>1. row \in [Task -> Row] /\ before[t] \in Status /\ row[t] \in Row
  BY DEF Inv, TypeOK
<1>2. /\ Asks(t) /\ sched' = Woken(sched) /\ AbortGate(t)
      /\ KillAll(Killable(t)) /\ Killable(t) \in SUBSET Run
      /\ UNCHANGED <<before, runTask, latest, owner, sess, idle, auto, stops, holds,
                     reviewing, restarts>>
  BY DEF UndoStart, Wake, Killable
<1>3. row' \in [Task -> Row] /\ MarksKept(row, row')
  <2> DEFINE m == [Moved(row[t], before[t]) EXCEPT !.held = before[t] = "queued"]
  <2>1. m \in Row /\ m.mark \in {row[t].mark, 0}
    BY <1>1, MovedType DEF Row
  <2>2. row' = [row EXCEPT ![t] = m]
    BY DEF UndoStart
  <2> HIDE DEF m
  <2> QED BY <1>1, <2>1, <2>2 DEF MarksKept
<1> QED BY <1>2, <1>3, KillAllOK, MovesOK

\* Kill a terminal.
LEMMA KillRunOK == ASSUME Inv, NEW r \in Run, KillRun(r) PROVE StepOK
<1>1. row \in [Task -> Row] /\ runTask[r] \in Task
  BY RunHasTask DEF KillRun, Live, Inv, TypeOK
<1>2. /\ Asks(runTask[r]) /\ KillAll({r})
      /\ UNCHANGED <<before, runTask, latest, owner, sess, idle, auto, start, stops,
                     holds, reviewing, sched, restarts>>
  BY DEF KillRun
<1>3. row' = Transition(row, runTask[r], {"running", "waiting"}, "cancelled")
  BY DEF KillRun
<1>4. row' \in [Task -> Row] /\ MarksKept(row, row')
  BY <1>1, <1>3, TransitionType DEF Status
<1>5. {r} \in SUBSET Run
  OBVIOUS
<1> QED BY <1>1, <1>2, <1>4, <1>5, KillAllOK, MovesOK

\* Mark done.
LEMMA CompleteOK == ASSUME Inv, NEW t \in Task, Complete(t) PROVE StepOK
<1> DEFINE rs == {r \in Run : runTask[r] = t /\ Live(r)}
<1>1. row \in [Task -> Row] /\ rs \in SUBSET Run
  BY DEF Inv, TypeOK
<1>2. /\ Asks(t) /\ KillAll(rs)
      /\ row' = Transition(row, t, {"review"}, "done")
      /\ UNCHANGED <<before, runTask, latest, owner, sess, idle, auto, start, stops,
                     holds, reviewing, sched, restarts>>
  BY DEF Complete
<1>3. row' \in [Task -> Row] /\ MarksKept(row, row')
  BY <1>1, <1>2, TransitionType DEF Status
<1> QED BY <1>1, <1>2, <1>3, KillAllOK, MovesOK

\* The requests that change a task's place in the queues.
LEMMA LeaveQueueOK ==
    ASSUME Inv, NEW t \in Task, Enqueue(t) \/ QueueRemove(t)
    PROVE  StepOK
<1> DEFINE out == [row EXCEPT ![t].mark = 0]
           free == [row EXCEPT ![t].mark = 0, ![t].held = FALSE]
<1>1. /\ row \in [Task -> Row] /\ dying \in SUBSET Run
      /\ runStatus \in [Run -> {"unused", "running", "exited", "killed"}]
  BY DEF Inv, TypeOK
<1>2. /\ out \in [Task -> Row] /\ MarksKept(row, out)
      /\ free \in [Task -> Row] /\ MarksKept(row, free)
  BY <1>1 DEF MarksKept, Row
<1>3. /\ Asks(t)
      /\ sched' = Woken(sched)
      /\ UNCHANGED <<before, sessions, start, stops, holds, reviewing, restarts>>
  BY DEF Enqueue, QueueRemove, Wake
<1>4. \/ \E round \in {row[t].verify, FALSE} :
           row' = TransitionVerify(free, t, EnqueueFrom, "queued", round)
      \/ row' = Transition(out, t, {"queued"}, "cancelled")
  BY DEF Enqueue, QueueRemove
<1>6. row[t].verify \in BOOLEAN
  BY <1>1 DEF Row
<1> HIDE DEF out, free
<1>5. row' \in [Task -> Row] /\ MarksKept(row, row')
  <2>1. CASE \E round \in {row[t].verify, FALSE} :
               row' = TransitionVerify(free, t, EnqueueFrom, "queued", round)
    <3> PICK round \in BOOLEAN :
               row' = TransitionVerify(free, t, EnqueueFrom, "queued", round)
      BY <1>6, <2>1
    <3>1. row' \in [Task -> Row] /\ MarksKept(free, row')
      BY <1>2, TransitionVerifyType DEF Status
    <3> QED BY <1>1, <1>2, <3>1, KeptTwice
  <2>2. CASE row' = Transition(out, t, {"queued"}, "cancelled")
    <3>1. row' \in [Task -> Row] /\ MarksKept(out, row')
      BY <1>2, <2>2, TransitionType DEF Status
    <3> QED BY <1>1, <1>2, <3>1, KeptTwice
  <2> QED BY <1>4, <2>1, <2>2
<1> QED BY <1>1, <1>3, <1>5, MovesOK DEF sessions

\* Adding to the queue gives the task a place nobody has.
LEMMA QueueAddOK == ASSUME Inv, NEW t \in Task, QueueAdd(t) PROVE Inv'
<1> DEFINE free == [row EXCEPT ![t].held = FALSE]
           put == [row EXCEPT ![t].mark = Behind, ![t].held = FALSE]
           added == Transition(put, t, EnqueueFrom, "queued")
<1>1. /\ row \in [Task -> Row] /\ acts \in Nat /\ Behind \in Nat
      /\ Cardinality(Task) \in Nat /\ sched \in SchedRecord
  BY TaskAssumption, FS_CardinalityType, LimitsAssumption DEF Inv, TypeOK, Behind
<1>2. /\ Asks(t) /\ sched' = Woken(sched)
      /\ UNCHANGED <<before, sessions, start, stops, holds, reviewing, restarts>>
  BY DEF QueueAdd, Wake
<1>3. acts' = acts + 1 /\ acts' \in 0 .. HumanActions
  BY <1>2, AsksOK DEF Asks
<1>4. row' = free \/ row' = added
  BY DEF QueueAdd
<1>5. /\ free \in [Task -> Row] /\ MarksKept(row, free)
      /\ put \in [Task -> Row] /\ put[t].mark = Behind
      /\ \A u \in Task \ {t} : put[u].mark = row[u].mark
  BY <1>1 DEF MarksKept, Row
<1>6. added \in [Task -> Row] /\ MarksKept(put, added)
  BY <1>5, TransitionType DEF Status
<1>7. /\ row' \in [Task -> Row]
      /\ row'[t].mark \in {row[t].mark, Behind, 0}
      /\ \A u \in Task \ {t} : row'[u].mark \in {row[u].mark, 0}
  <2> HIDE DEF free, added, put
  <2> QED BY <1>4, <1>5, <1>6 DEF MarksKept
<1> HIDE DEF free, put, added
<1>8. TypeOK' /\ Named'
  BY <1>1, <1>2, <1>3, <1>7, WokenType DEF Inv, TypeOK, Named, sessions
<1>9. Places'
  <2>1. \A u \in Task : row[u].mark \in Nat /\ row'[u].mark \in Nat
    BY <1>1, <1>7 DEF Row
  <2>2. \A u \in Task : row'[u].mark <= Cardinality(Task) + acts'
    BY <1>1, <1>3, <1>7, <2>1 DEF Inv, Places, Behind
  <2>3. \A u, v \in Task : row'[u].mark = row'[v].mark /\ row'[u].mark > 0 => u = v
    BY <1>1, <1>7, <2>1 DEF Inv, Places, Behind
  <2> QED BY <2>2, <2>3 DEF Places
<1> QED BY <1>8, <1>9 DEF Inv

\* A prompt typed into an idle terminal.
LEMMA PromptOK ==
    ASSUME Inv, NEW r \in Run, Prompt(r), Asks(runTask[r]), UNCHANGED restarts
    PROVE  StepOK
<1> DEFINE t == runTask[r]
<1>1. t \in Task /\ row \in [Task -> Row]
  BY RunHasTask DEF Prompt, Live, Inv, TypeOK
<1>2. /\ row' = Transition(row, t, {"review"}, "running")
      /\ before' = NotedBefore(t) /\ idle' = idle \ {r} /\ auto' = auto \ {r}
      /\ UNCHANGED <<runTask, runStatus, latest, owner, sess, dying, start, stops,
                     holds, reviewing, sched>>
  BY DEF Prompt
<1>3. acts' \in 0 .. HumanActions /\ acts' >= acts
  BY AsksOK
<1> HIDE DEF t
<1>4. row' \in [Task -> Row] /\ MarksKept(row, row') /\ before' \in [Task -> Status]
  BY <1>1, <1>2, TransitionType, NotedType DEF Status
<1>5. idle' \in SUBSET Run /\ auto' \in SUBSET Run
  BY <1>2 DEF Inv, TypeOK
<1> QED BY <1>2, <1>3, <1>4, <1>5 DEF Inv, StepOK, TypeOK, Named

\* The server goes down and comes back.
LEMMA RestartOK == ASSUME Inv, Restart PROVE StepOK
<1>1. /\ row \in [Task -> Row] /\ restarts \in Nat /\ acts \in Nat
      /\ sess \in [Run -> {"none", "live", "evicted", "settling", "gone"}]
      /\ runStatus \in [Run -> {"unused", "running", "exited", "killed"}]
  BY LimitsAssumption DEF Inv, TypeOK
<1>2. /\ row' \in [Task -> Row] /\ MarksKept(row, row')
      /\ reviewing' \in SUBSET Task
  <2>1. PICK again \in SUBSET Task :
          /\ row' = [t \in Task |-> [Booted(t) EXCEPT !.verify = t \in again]]
          /\ reviewing' = again
    BY Zenon DEF Restart
  <2>2. ASSUME NEW t \in Task
        PROVE  Booted(t) \in Row /\ Booted(t).mark \in {row[t].mark, 0}
    <3>1. Moved(row[t], "failed") \in Row /\ Moved(row[t], "failed").mark \in {row[t].mark, 0}
      BY <1>1, MovedType DEF Status
    <3>2. Moved(row[t], "review") \in Row /\ Moved(row[t], "review").mark \in {row[t].mark, 0}
      BY <1>1, MovedType DEF Status
    <3>3. Booted(t) \in {row[t], Moved(row[t], "failed"), Moved(row[t], "review")}
      BY Zenon DEF Booted
    <3> QED BY <1>1, <3>1, <3>2, <3>3
  <2>3. ASSUME NEW t \in Task
        PROVE  /\ [Booted(t) EXCEPT !.verify = t \in again] \in Row
               /\ [Booted(t) EXCEPT !.verify = t \in again].mark = Booted(t).mark
    <3>1. ASSUME NEW m \in Row, NEW v \in BOOLEAN
          PROVE  [m EXCEPT !.verify = v] \in Row /\ [m EXCEPT !.verify = v].mark = m.mark
      BY DEF Row
    <3>2. (t \in again) \in BOOLEAN
      OBVIOUS
    <3> QED BY <2>2, <3>1, <3>2, Zenon
  <2>4. row' \in [Task -> Row]
    BY <2>1, <2>3, Zenon
  <2>5. \A t \in Task : row'[t] = [Booted(t) EXCEPT !.verify = t \in again]
    BY <2>1, Zenon
  <2>6. \A t \in Task : row'[t].mark = Booted(t).mark
    BY <2>3, <2>5, Zenon
  <2> QED BY <2>1, <2>2, <2>4, <2>6 DEF MarksKept
<1>3. /\ runStatus' \in [Run -> {"unused", "running", "exited", "killed"}]
      /\ sess' \in [Run -> {"none", "live", "evicted", "settling", "gone"}]
      /\ \A r \in Run : sess'[r] # "none" => sess[r] # "none"
  BY <1>1 DEF Restart
<1>4. /\ start' = [s \in Starter |-> NotStarting] /\ dying' = {} /\ stops' = {}
      /\ holds' = {} /\ sched' = Woken(Asleep) /\ restarts' = restarts + 1
      /\ restarts < Restarts
      /\ UNCHANGED <<before, runTask, latest, owner, idle, auto, acts>>
  BY DEF Restart
<1>6. NotStarting \in StartRecord /\ NotStarting.pc = "off"
  BY DEF NotStarting, StartRecord
<1>7. sched' \in SchedRecord /\ sched'.pc = "begin"
  BY <1>4 DEF Woken, Asleep, SchedRecord
<1>8. restarts' \in 0 .. Restarts
  BY <1>1, <1>4, LimitsAssumption
<1> QED BY <1>1, <1>2, <1>3, <1>4, <1>6, <1>7, <1>8
        DEF Inv, StepOK, TypeOK, Named

---------------------------------------------------------------------------
(* The invariant *)

\* Every step keeps the invariant: the marks are kept or dropped, but for an
\* addition to the queue, which goes behind everybody.
LEMMA StepInv == ASSUME Inv, [Next]_vars PROVE Inv'
<1>1. ASSUME StepOK PROVE Inv'
  BY <1>1, PlacesKept DEF StepOK, Inv
<1>2. CASE UNCHANGED vars
  BY <1>2 DEF vars, store, sessions, bounds, Inv, TypeOK, Named, Places
<1>3. CASE SchedulerStep
  BY <1>1, <1>3, SchedulerOK, PumpClaimsOK, BaseClaimsOK DEF SchedulerStep
<1>4. CASE EventStep
  <2>1. CASE Tick \/ Restart
    BY <1>1, <2>1, TickOK, RestartOK
  <2>2. ASSUME NEW s \in Starter, StartStep(s) PROVE Inv'
    BY <1>1, <2>2, GateOK, CreateRunOK, SpawnOK DEF StartStep
  <2>3. ASSUME NEW r \in Run, AgentStep(r) PROVE Inv'
    BY <1>1, <2>3, StopOK, StopLandsOK, SessionOK, ExitSettlesOK DEF AgentStep
  <2>4. ASSUME NEW r \in Run, TerminalStep(r) PROVE Inv'
    BY <1>1, <2>4, PromptOK, KillRunOK DEF TerminalStep
  <2>5. ASSUME NEW h \in Human, NEW t \in Task, RequestStep(h, t) PROVE Inv'
    BY <1>1, <2>5, RunNowOK, FollowUpOK, FollowUpKillsOK, FollowUpGoesOnOK
       DEF RequestStep
  <2>6. ASSUME NEW t \in Task, TaskStep(t) PROVE Inv'
    BY <1>1, <2>6, WaitEndsOK, ReviewEndsOK, CancelOK, UndoStartOK, CompleteOK,
       QueueAddOK, LeaveQueueOK DEF TaskStep
  <2> QED BY <1>4, <2>1, <2>2, <2>3, <2>4, <2>5, <2>6 DEF EventStep
<1> QED BY <1>2, <1>3, <1>4 DEF Next

\* Every behaviour of the orchestrator keeps the invariant.
THEOREM Invariance == Spec => []Inv
<1>1. Init => Inv
  BY InitInv
<1>2. Inv /\ [Next]_vars => Inv'
  BY StepInv
<1> QED BY <1>1, <1>2, PTL DEF Spec

\* Type correctness: every variable keeps its type, whatever requests, exits
\* and restarts come in whatever order.
THEOREM TypeCorrect == Spec => []TypeOK
<1>1. Inv => TypeOK
  BY DEF Inv
<1> QED BY <1>1, Invariance, PTL

---------------------------------------------------------------------------
(* The order of the claims *)

\* A step that is not one of the scheduler's two claims starts nothing for it.
SchedStartsNothing == \A t \in Task : ~ScheduledBy(t)

\* A start entered by another caller is not the scheduler's.
LEMMA OtherStart ==
    ASSUME Inv, NEW s \in Starter, s # Sched, NEW new, start' = [start EXCEPT ![s] = new]
    PROVE  SchedStartsNothing
BY DEF SchedStartsNothing, ScheduledBy, Inv, TypeOK, Starter

\* EnterStart of another caller starts nothing for the scheduler.
LEMMA EnterOther ==
    ASSUME Inv, NEW h \in Human, NEW t, NEW resume, NEW moved, EnterStart(h, t, resume, moved)
    PROVE  SchedStartsNothing
BY OtherStart, SchedAssumption DEF EnterStart, StartOver, Starter

\* A step that leaves the starts alone starts nothing.
LEMMA SameStart == ASSUME UNCHANGED start PROVE SchedStartsNothing
BY DEF SchedStartsNothing, ScheduledBy

\* Nor does one that ends a start.
LEMMA StartEnds ==
    ASSUME Inv, NEW s \in Starter, StartOver(s)
    PROVE  SchedStartsNothing
BY NoTaskAssumption DEF SchedStartsNothing, ScheduledBy, StartOver, NotStarting,
   Inv, TypeOK, Starter

\* Nor the abort of a gate.
LEMMA GateStarts == ASSUME Inv, NEW t, AbortGate(t) PROVE SchedStartsNothing
<1>1. start \in [Starter -> StartRecord] /\ Sched \in Starter
  BY DEF Inv, TypeOK, Starter
<1>2. start'[Sched].task = start[Sched].task
  BY <1>1 DEF AbortGate, StartRecord
<1> QED BY <1>2 DEF SchedStartsNothing, ScheduledBy

\* Nor a start that goes on.
LEMMA StartStepStarts ==
    ASSUME Inv, NEW s \in Starter, StartStep(s)
    PROVE  SchedStartsNothing
<1>1. start \in [Starter -> StartRecord] /\ Sched \in Starter
  BY DEF Inv, TypeOK, Starter
<1>2. CASE StartOver(s)
  BY <1>2, StartEnds
<1>3. CASE start' = [start EXCEPT ![s].pc = "base"]
  BY <1>1, <1>3 DEF SchedStartsNothing, ScheduledBy, StartRecord
<1>4. ASSUME NEW r \in Run, start' = [start EXCEPT ![s].pc = "row", ![s].run = r]
      PROVE  SchedStartsNothing
  BY <1>1, <1>4 DEF SchedStartsNothing, ScheduledBy, StartRecord
<1>5. CASE GateAborted(s) \/ GatePassed(s)
  BY <1>2, <1>3, <1>5 DEF GateAborted, GatePassed
<1>6. CASE CreateRun(s)
  BY <1>4, <1>6 DEF CreateRun
<1>7. CASE Spawn(s) \/ SpawnFails(s)
  BY <1>2, <1>7 DEF Spawn, SpawnFails
<1> QED BY <1>5, <1>6, <1>7 DEF StartStep

\* Nor a follow-up, whose caller is a human.
LEMMA FollowUpStartsStarts ==
    ASSUME Inv, NEW h \in Human, NEW t, NEW resume, FollowUpStarts(h, t, resume)
    PROVE  SchedStartsNothing
BY EnterOther, StartEnds DEF FollowUpStarts, Starter

\* Nor any human request.
LEMMA RequestStarts ==
    ASSUME Inv, NEW h \in Human, NEW t \in Task, RequestStep(h, t)
    PROVE  SchedStartsNothing
<1>1. CASE RunNow(h, t)
  BY <1>1, EnterOther DEF RunNow
<1>2. CASE FollowUpGoesOn(h)
  BY <1>2, FollowUpStartsStarts DEF FollowUpGoesOn
<1>3. ASSUME NEW resume \in BOOLEAN, FollowUp(h, t, resume)
      PROVE  SchedStartsNothing
  BY <1>3, FollowUpStartsStarts DEF FollowUp
<1>4. ASSUME NEW resume \in BOOLEAN, FollowUpKills(h, t, resume)
      PROVE  SchedStartsNothing
  <2>1. PICK r : start' = [start EXCEPT ![h] = [pc |-> "kill", task |-> t, run |-> r,
                                               resume |-> resume, abort |-> FALSE]]
    BY <1>4 DEF FollowUpKills
  <2> QED BY <2>1, OtherStart, SchedAssumption DEF Starter
<1> QED BY <1>1, <1>2, <1>3, <1>4 DEF RequestStep

\* Nor a restart.
LEMMA RestartStarts == ASSUME Restart PROVE SchedStartsNothing
BY NoTaskAssumption DEF Restart, NotStarting, SchedStartsNothing, ScheduledBy, Starter

\* Outside its own steps the scheduler starts nobody.
LEMMA EventStarts == ASSUME Inv, EventStep PROVE SchedStartsNothing
<1>1. CASE Tick \/ Restart
  BY <1>1, SameStart, RestartStarts DEF Tick
<1>2. ASSUME NEW r \in Run, AgentStep(r) PROVE SchedStartsNothing
  BY <1>2, SameStart DEF AgentStep, StopArrives, StopIgnored, StopParks, StopLands,
     Dispose, Exits, ExitSettles
<1>3. ASSUME NEW r \in Run, TerminalStep(r) PROVE SchedStartsNothing
  BY <1>3, SameStart DEF TerminalStep, Prompt, KillRun
<1>4. ASSUME NEW t \in Task, TaskStep(t) PROVE SchedStartsNothing
  BY <1>4, SameStart, GateStarts DEF TaskStep, WaitEnds, ReviewEnds, Cancel, UndoStart,
     Complete, QueueAdd, Enqueue, QueueRemove
<1> QED BY <1>1, <1>2, <1>3, <1>4, StartStepStarts, RequestStarts DEF EventStep

\* What the scheduler starts is the head of one of its queues.
LEMMA ScheduledHead ==
    ASSUME Inv, [Next]_vars, NEW t \in Task, ScheduledBy(t)
    PROVE  CanClaimCustom(row, t) \/ t \in BaseHead(row)
<1>1. ~SchedStartsNothing
  BY DEF SchedStartsNothing
<1>2. SchedulerStep
  BY <1>1, EventStarts, SameStart DEF Next, vars
<1>3. start \in [Starter -> StartRecord] /\ Sched \in Starter
  BY DEF Inv, TypeOK, Starter
<1>4. ASSUME NEW u, NEW moved, EnterStart(Sched, u, FALSE, moved)
      PROVE  u = t
  <2>1. ~StartOver(Sched)
    BY <1>1, StartEnds, <1>3
  <2>2. start'[Sched].task = u
    BY <1>3, <1>4, <2>1 DEF EnterStart
  <2> QED BY <2>2 DEF ScheduledBy
<1>5. CASE PassBegins \/ PumpLooks \/ PassEnds \/ PassReturns
  BY <1>1, <1>5, SameStart DEF PassBegins, PumpLooks, PassEnds, PassReturns
<1>6. ASSUME NEW ok \in BOOLEAN, PumpClaims(ok)
      PROVE  CanClaimCustom(row, t)
  <2>1. ~UNCHANGED start
    BY <1>1, SameStart
  <2>2. /\ CanClaimCustom(row, sched.head)
        /\ EnterStart(Sched, sched.head, FALSE, Claimed(row, sched.head))
    BY <1>6, <2>1 DEF PumpClaims
  <2> QED BY <1>4, <2>2
<1>7. CASE BaseClaims
  <2> DEFINE u == CHOOSE u \in BaseHead(row) : TRUE
  <2>1. ~UNCHANGED start
    BY <1>1, SameStart
  <2>2. BaseHead(row) # {} /\ EnterStart(Sched, u, FALSE, Claimed(row, u))
    BY <1>7, <2>1 DEF BaseClaims
  <2>3. u \in BaseHead(row)
    BY <2>2
  <2> HIDE DEF u
  <2> QED BY <1>4, <2>2, <2>3
<1> QED BY <1>2, <1>5, <1>6, <1>7 DEF SchedulerStep

\* The head of the custom queue comes before every waiting member of its
\* repository: one that waits is eligible when the head is.
LEMMA HeadIsFirst ==
    ASSUME Inv, NEW t \in Task, NEW u \in Task, CanClaimCustom(row, t),
           SameRepo(t, u), Waiting(row, u), Member(row, u)
    PROVE  row[t].mark < row[u].mark
<1> DEFINE skip == Repo \ {RepoOf[t]}
<1>1. CustomEligible(row, t)
  BY DEF CanClaimCustom, CustomHead
<1>2. /\ RepoOf[u] = RepoOf[t] /\ RepoOf[u] \notin skip /\ u # t
  BY DEF SameRepo
<1>3. CustomEligible(row, u)
  <2>1. ASSUME NEW v \in Task, SameRepo(u, v), Member(row, v)
        PROVE  ~HeldBy(row, v)
    <3>1. CASE v = t
      BY <1>1, <3>1 DEF CustomEligible, Waiting, HeldBy, Working, VerifyOpen
    <3>2. CASE v # t
      BY <1>1, <1>2, <2>1, <3>2 DEF CustomEligible, SameRepo
    <3> QED BY <3>1, <3>2
  <2> QED BY <2>1 DEF CustomEligible
<1>4. row[t].mark <= row[u].mark
  BY <1>2, <1>3 DEF CanClaimCustom, CustomHead
<1>5. row[t].mark # row[u].mark
  BY <1>1, <1>2 DEF Inv, Places, CustomEligible, Member
<1>6. row[t].mark \in Nat /\ row[u].mark \in Nat
  BY DEF Inv, TypeOK, Row
<1> QED BY <1>4, <1>5, <1>6

\* The scheduler never starts a held task, nor a member of the custom queue
\* before an older one of its repository, for any number of tasks, repositories
\* and requests at any time.
THEOREM InOrder == Spec => ClaimsInOrder
<1>1. Inv /\ [Next]_vars =>
        [\A t \in Task : ScheduledBy(t) =>
          /\ ~row[t].held
          /\ Member(row, t) => \A u \in Task :
               SameRepo(t, u) /\ Waiting(row, u) /\ Member(row, u)
                  => row[t].mark < row[u].mark]_vars
  <2> SUFFICES ASSUME Inv, [Next]_vars, NEW t \in Task, ScheduledBy(t)
               PROVE  /\ ~row[t].held
                      /\ Member(row, t) => \A u \in Task :
                           SameRepo(t, u) /\ Waiting(row, u) /\ Member(row, u)
                              => row[t].mark < row[u].mark
    OBVIOUS
  <2>1. CASE CanClaimCustom(row, t)
    BY <2>1, HeadIsFirst DEF CanClaimCustom, CustomHead, CustomEligible, Waiting
  <2>2. CASE t \in BaseHead(row)
    BY <2>2 DEF BaseHead, BaseEligible, Waiting
  <2> QED BY <2>1, <2>2, ScheduledHead
<1> QED BY <1>1, Invariance, PTL DEF Spec, ClaimsInOrder

---------------------------------------------------------------------------
(* The slots of the scheduler *)

AutoRuns == {r \in auto : AtWork(r)}

\* A run id nobody used is nobody's, and a run without a session left no trace.
RunsFresh == \A r \in Run :
    /\ runStatus[r] = "unused" => runTask[r] = NoTask /\ sess[r] = "none" /\ r \notin auto
    /\ sess[r] = "none" => r \notin idle /\ r \notin dying /\ r \notin stops

\* The run a start has written is its own, still without a session, and counts
\* as a turn nobody asked for only when the scheduler wrote it.
OwnRun == \A s \in Starter :
    /\ start[s].pc \in {"kill", "row"} => runStatus[start[s].run] # "unused"
    /\ start[s].pc = "row" =>
        /\ sess[start[s].run] = "none"
        /\ s # Sched => start[s].run \notin auto
        /\ \A q \in Starter : start[q].pc = "row" /\ start[q].run = start[s].run => q = s

\* The pass awaits the one start it has made.
PassBusy == start[Sched].pc # "off" =>
    start[Sched].pc \in {"base", "row"} /\ sched.pc \in {"customStart", "baseStart"}

\* The slot a pass saw free is still free when it fills it: meanwhile only its
\* own start could take one for a turn nobody asked for.
SlotLeft == sched.pc \in {"handoff", "customStart", "baseStart"} => Cardinality(AutoRuns) < Cap

SlotInv ==
    /\ RunsFresh /\ OwnRun /\ PassBusy /\ SlotLeft /\ AutoWithinCap
    /\ IsFiniteSet(LiveRuns)

\* The runs that count are finitely many, and fewer of them count less.
LEMMA FewerAuto ==
    ASSUME Inv, SlotInv, NEW some \in SUBSET AutoRuns
    PROVE  /\ Cardinality(some) \in Nat /\ Cardinality(AutoRuns) \in Nat
           /\ Cardinality(some) <= Cardinality(AutoRuns)
<1>1. AutoRuns \subseteq LiveRuns
  BY DEF AutoRuns, AtWork, LiveRuns, Live, Inv, TypeOK
<1>2. IsFiniteSet(AutoRuns)
  BY <1>1, FS_Subset DEF SlotInv
<1> QED BY <1>2, FS_Subset, FS_CardinalityType

\* A step that writes no run row, lets no session come and wakes none of those
\* nobody asked for keeps the slots.
LEMMA SlotFrame ==
    ASSUME Inv, SlotInv,
           \A r \in Run : /\ runTask'[r] = runTask[r]
                          /\ runStatus'[r] = "unused" <=> runStatus[r] = "unused"
                          /\ sess'[r] = "none" <=> sess[r] = "none"
                          /\ sess'[r] = "live" => sess[r] = "live"
                          /\ r \in auto' => r \in auto /\ (r \in idle => r \in idle')
                          /\ r \in idle' \/ r \in dying' \/ r \in stops' => sess[r] # "none",
           auto' \subseteq auto,
           \A s \in Starter : start'[s].pc \in {"kill", "row"} =>
               \/ start[s].pc = start'[s].pc /\ start'[s].run = start[s].run
               \/ /\ start'[s].pc = "kill" /\ start'[s].run \in Run
                  /\ runStatus[start'[s].run] # "unused",
           start'[Sched].pc # "off" =>
               /\ start[Sched].pc # "off" /\ start'[Sched].pc \in {"base", "row"}
               /\ sched'.pc = sched.pc,
           sched'.pc \in {"handoff", "customStart", "baseStart"} =>
               sched.pc \in {"handoff", "customStart", "baseStart"}
    PROVE  SlotInv'
<1>1. AutoRuns' \subseteq AutoRuns
  BY DEF AutoRuns, AtWork, Live, Inv, TypeOK
<1>2. /\ Cardinality(AutoRuns') \in Nat /\ Cardinality(AutoRuns) \in Nat
      /\ Cardinality(AutoRuns') <= Cardinality(AutoRuns)
  BY <1>1, FewerAuto
<1>3. SlotLeft' /\ AutoWithinCap'
  BY <1>2, LimitsAssumption DEF SlotInv, SlotLeft, AutoWithinCap, AutoRuns
<1>4. RunsFresh'
  BY DEF SlotInv, RunsFresh, Inv, TypeOK
<1>5. OwnRun'
  BY DEF SlotInv, OwnRun, Inv, Named
<1>6. PassBusy'
  BY DEF SlotInv, PassBusy
<1>7. IsFiniteSet(LiveRuns')
  <2>1. LiveRuns' \subseteq LiveRuns
    BY DEF LiveRuns, Live
  <2> QED BY <2>1, FS_Subset DEF SlotInv
<1> QED BY <1>3, <1>4, <1>5, <1>6, <1>7 DEF SlotInv

\* A free slot is free for turns nobody asked for, which are at work like others.
LEMMA SlotFree ==
    ASSUME Inv, SlotInv, ActiveWorkers < Cap
    PROVE  Cardinality(AutoRuns) < Cap
<1> DEFINE working == {r \in Run : AtWork(r)}
<1>1. IsFiniteSet(working) /\ Cardinality(working) \in Nat
  <2>1. working \subseteq LiveRuns
    BY DEF AtWork, LiveRuns
  <2> QED BY <2>1, FS_Subset, FS_CardinalityType DEF SlotInv
<1>2. Cardinality(Gated) \in Nat
  <2>1. Gated \subseteq Task
    BY DEF Gated, Inv, Named
  <2> QED BY <2>1, TaskAssumption, FS_Subset, FS_CardinalityType
<1>3. AutoRuns \subseteq working
  BY DEF AutoRuns, Inv, TypeOK
<1>4. Cardinality(AutoRuns) \in Nat /\ Cardinality(AutoRuns) <= Cardinality(working)
  BY <1>1, <1>3, FS_Subset, FS_CardinalityType
<1>5. ActiveWorkers = Cardinality(working) + Cardinality(Gated)
  BY DEF ActiveWorkers
<1> HIDE DEF working
<1> QED BY <1>1, <1>2, <1>4, <1>5, LimitsAssumption

\* The steps of the pass: it starts nobody but on a slot it saw free.
LEMMA PassSlots ==
    ASSUME Inv, SlotInv, SchedulerStep
    PROVE  SlotInv'
<1>1. start[Sched].pc = "off"
  BY DEF SchedulerStep, PassBegins, PumpLooks, PumpClaims, BaseClaims, PassEnds, PassReturns,
         SlotInv, PassBusy
<1>2. UNCHANGED <<sessions, stops>>
  BY DEF SchedulerStep, PassBegins, PumpLooks, PumpClaims, BaseClaims, PassEnds, PassReturns
<1>3. RunsFresh' /\ IsFiniteSet(LiveRuns') /\ AutoWithinCap' /\ AutoRuns' = AutoRuns
  BY <1>2 DEF sessions, SlotInv, RunsFresh, LiveRuns, Live, AutoWithinCap, AutoRuns, AtWork
<1>4. start \in [Starter -> StartRecord] /\ Sched \in Starter /\ sched \in SchedRecord
  BY DEF Inv, TypeOK, Starter
<1>5. ASSUME UNCHANGED start, sched'.pc # "handoff", sched'.pc \notin {"customStart", "baseStart"}
      PROVE  SlotInv'
  BY <1>1, <1>2, <1>3, <1>5 DEF SlotInv, OwnRun, PassBusy, SlotLeft, sessions
<1>6. CASE PassBegins \/ PassEnds \/ PassReturns
  BY <1>4, <1>5, <1>6 DEF PassBegins, PassEnds, PassReturns, Asleep, SchedRecord
<1>7. CASE PumpLooks
  <2>1. UNCHANGED start /\ sched'.pc \in {"custom", "handoff", "base", "disabled"}
    BY <1>4, <1>7, AfterPumpType DEF PumpLooks, SchedRecord
  <2>2. sched'.pc = "handoff" => ActiveWorkers < Cap
    BY <1>4, <1>7, AfterPumpType DEF PumpLooks, SchedRecord
  <2> QED BY <1>1, <1>2, <1>3, <2>1, <2>2, SlotFree
          DEF SlotInv, OwnRun, PassBusy, SlotLeft, sessions
<1>8. ASSUME NEW t, NEW moved, EnterStart(Sched, t, FALSE, moved),
             Cardinality(AutoRuns) < Cap,
             sched'.pc # "handoff",
             ~HasLive(t) => sched'.pc \in {"customStart", "baseStart"}
      PROVE  SlotInv'
  <2>1. \A s \in Starter \ {Sched} : start'[s] = start[s]
    BY <1>4, <1>8 DEF EnterStart, StartOver
  <2>2. start'[Sched].pc = "off" \/ (start'[Sched].pc = "base" /\ ~HasLive(t))
    BY <1>4, <1>8 DEF EnterStart, StartOver, NotStarting
  <2>3. OwnRun'
    BY <1>2, <2>1, <2>2 DEF SlotInv, OwnRun, sessions
  <2> QED BY <1>3, <1>8, <2>2, <2>3 DEF SlotInv, PassBusy, SlotLeft
<1>9. ASSUME NEW ok \in BOOLEAN, PumpClaims(ok)
      PROVE  SlotInv'
  <2>1. CASE ok /\ CanClaimCustom(row, sched.head)
    <3>1. EnterStart(Sched, sched.head, FALSE, Claimed(row, sched.head))
      BY <1>9, <2>1 DEF PumpClaims
    <3>2. /\ sched'.pc # "handoff"
          /\ ~HasLive(sched.head) => sched'.pc \in {"customStart", "baseStart"}
      BY <1>4, <1>9, <2>1 DEF PumpClaims, SchedRecord
    <3>3. Cardinality(AutoRuns) < Cap
      BY <1>9 DEF PumpClaims, SlotInv, SlotLeft
    <3> QED BY <1>8, <3>1, <3>2, <3>3
  <2>2. CASE ~(ok /\ CanClaimCustom(row, sched.head))
    BY <1>4, <1>5, <1>9, <2>2 DEF PumpClaims, SchedRecord
  <2> QED BY <2>1, <2>2
<1>10. CASE BaseClaims
  <2>1. CASE ActiveWorkers < Cap /\ BaseHead(row) # {}
    <3> DEFINE t == CHOOSE t \in BaseHead(row) : TRUE
    <3>1. /\ EnterStart(Sched, t, FALSE, Claimed(row, t))
          /\ sched' = [sched EXCEPT !.pc = IF HasLive(t) THEN "end" ELSE "baseStart"]
      BY <1>10, <2>1 DEF BaseClaims
    <3> HIDE DEF t
    <3>2. /\ sched'.pc # "handoff"
          /\ ~HasLive(t) => sched'.pc \in {"customStart", "baseStart"}
      BY <1>4, <3>1 DEF SchedRecord
    <3> QED BY <1>8, <2>1, <3>1, <3>2, SlotFree
  <2>2. CASE ~(ActiveWorkers < Cap /\ BaseHead(row) # {})
    BY <1>4, <1>5, <1>10, <2>2 DEF BaseClaims, SchedRecord
  <2> QED BY <2>1, <2>2
<1> QED BY <1>6, <1>7, <1>9, <1>10 DEF SchedulerStep

\* A call of maybeSchedule awaits nothing that the pass did not await.
LEMMA WokenAwaits ==
    ASSUME sched \in SchedRecord
    PROVE  /\ Woken(sched).pc = sched.pc \/ (sched.pc = "off" /\ Woken(sched).pc = "begin")
           /\ Woken(sched).pc # "off"
BY DEF Woken, SchedRecord

\* The steps of a start before its session.
LEMMA StartSlots ==
    ASSUME Inv, SlotInv, NEW s \in Starter, GateAborted(s) \/ GatePassed(s) \/ CreateRun(s)
    PROVE  SlotInv'
<1>1. start \in [Starter -> StartRecord] /\ Sched \in Starter
  BY DEF Inv, TypeOK, Starter
<1>2. CASE GateAborted(s) \/ GatePassed(s)
  <2>1. start[s].pc = "gate" /\ s # Sched /\ UNCHANGED <<sessions, stops, sched>>
    BY <1>2 DEF GateAborted, GatePassed, SlotInv, PassBusy
  <2>2. /\ \A q \in Starter : q # s => start'[q] = start[q]
        /\ start'[s].pc \in {"off", "base"}
    BY <1>1, <1>2 DEF GateAborted, GatePassed, StartOver, NotStarting, StartRecord
  <2> QED BY <1>1, <2>1, <2>2, SlotFrame DEF SlotInv, RunsFresh, PassBusy, sessions
<1>3. CASE CreateRun(s)
  <2>1. PICK r \in Run :
        /\ runStatus[r] = "unused"
        /\ runTask' = [runTask EXCEPT ![r] = start[s].task]
        /\ runStatus' = [runStatus EXCEPT ![r] = "running"]
        /\ auto' = IF s = Sched THEN auto \cup {r} ELSE auto
        /\ start' = [start EXCEPT ![s].pc = "row", ![s].run = r]
    BY <1>3 DEF CreateRun
  <2>2. UNCHANGED <<sess, idle, dying, stops, sched>> /\ start[s].pc = "base"
    BY <1>3 DEF CreateRun
  <2>3. sess[r] = "none" /\ r \notin auto
    BY <2>1 DEF SlotInv, RunsFresh
  <2>4. /\ \A q \in Starter : q # s => start'[q] = start[q]
        /\ start'[s].pc = "row" /\ start'[s].run = r
    BY <1>1, <2>1 DEF StartRecord
  <2>5. /\ runStatus'[r] = "running"
        /\ \A q \in Run : q # r => runStatus'[q] = runStatus[q] /\ runTask'[q] = runTask[q]
    BY <2>1 DEF Inv, TypeOK
  <2>6. RunsFresh'
    BY <2>1, <2>2, <2>3, <2>5 DEF SlotInv, RunsFresh
  <2>7. OwnRun'
    <3>1. \A q \in Starter : start[q].pc = "row" => start[q].run # r /\ start[q].run \in Run
      BY <2>1 DEF SlotInv, OwnRun, Inv, Named
    <3>0. ASSUME NEW q \in Starter, start'[q].pc \in {"kill", "row"}
          PROVE  runStatus'[start'[q].run] # "unused"
      BY <2>4, <2>5, <3>0 DEF SlotInv, OwnRun, Inv, Named
    <3>2. SUFFICES ASSUME NEW q \in Starter, start'[q].pc = "row"
                   PROVE  /\ sess'[start'[q].run] = "none"
                          /\ q # Sched => start'[q].run \notin auto'
                          /\ \A p \in Starter : start'[p].pc = "row" /\ start'[p].run = start'[q].run
                                                  => p = q
      BY <3>0 DEF OwnRun
    <3>3. CASE q = s
      <4>1. ASSUME NEW p \in Starter, start'[p].pc = "row", start'[p].run = r
            PROVE  p = s
        BY <2>4, <3>1, <4>1
      <4>2. s # Sched => auto' = auto
        BY <2>1
      <4> QED BY <2>2, <2>3, <2>4, <2>5, <3>3, <4>1, <4>2
    <3>4. CASE q # s
      <4>1. start'[q] = start[q] /\ start[q].run # r
        BY <2>4, <3>1, <3>2, <3>4
      <4>2. /\ sess[start[q].run] = "none"
            /\ q # Sched => start[q].run \notin auto'
        BY <2>1, <2>5, <3>1, <3>2, <4>1 DEF SlotInv, OwnRun
      <4>3. ASSUME NEW p \in Starter, start'[p].pc = "row", start'[p].run = start'[q].run
            PROVE  p = q
        BY <2>4, <3>2, <4>1, <4>3 DEF SlotInv, OwnRun
      <4> QED BY <2>2, <4>1, <4>2, <4>3
    <3> QED BY <3>3, <3>4
  <2>8. PassBusy'
    BY <1>1, <2>2, <2>4 DEF SlotInv, PassBusy
  <2>9. AutoRuns' = AutoRuns /\ LiveRuns' = LiveRuns
    BY <2>1, <2>2, <2>3 DEF AutoRuns, AtWork, Live, LiveRuns
  <2> QED BY <2>2, <2>6, <2>7, <2>8, <2>9 DEF SlotInv, SlotLeft, AutoWithinCap, AutoRuns
<1> QED BY <1>2, <1>3

\* The session of a start: the scheduler's takes the slot that was left for it.
LEMMA SpawnSlots ==
    ASSUME Inv, SlotInv, NEW s \in Starter, Spawn(s) \/ SpawnFails(s)
    PROVE  SlotInv'
<1> DEFINE r == start[s].run
<1>1. /\ start \in [Starter -> StartRecord] /\ Sched \in Starter /\ sched \in SchedRecord
      /\ start[s].pc = "row" /\ r \in Run /\ sess[r] = "none"
      /\ runStatus[r] # "unused"
  BY DEF Spawn, SpawnFails, Inv, TypeOK, Named, Starter, SlotInv, OwnRun
<1>2. /\ \A q \in Starter : q # s => start'[q] = start[q]
      /\ start'[s].pc = "off"
  <2>1. start' = [start EXCEPT ![s] = NotStarting] /\ NotStarting.pc = "off"
    BY DEF Spawn, SpawnFails, StartOver, NotStarting
  <2> QED BY <1>1, <2>1
<1>3. /\ runTask' = runTask /\ auto' = auto /\ idle' = idle /\ dying' = dying /\ stops' = stops
      /\ \A q \in Run : runStatus'[q] = "unused" <=> runStatus[q] = "unused"
  BY <1>1 DEF Spawn, SpawnFails, Inv, TypeOK
<1>4. /\ s # Sched => sched' = sched
      /\ s = Sched => sched'.pc \in {"custom", "base", "end"}
  BY <1>1 DEF Spawn, SpawnFails, Answered, SchedRecord
<1>5. \A q \in Run : q # r => (sess'[q] = sess[q] \/ (sess[q] = "live" /\ sess'[q] = "evicted"))
  BY DEF Spawn, SpawnFails, LiveRuns, Live
<1>6. sess'[r] \in {"none", "live"}
  BY <1>1 DEF Spawn, SpawnFails, LiveRuns, Live
<1> HIDE DEF r
<1>7. RunsFresh'
  BY <1>1, <1>3, <1>5, <1>6 DEF SlotInv, RunsFresh
<1>8. OwnRun'
  <2>1. \A q \in Starter : start'[q].pc \in {"kill", "row"} =>
            /\ q # s /\ start'[q] = start[q] /\ start[q].run \in Run
            /\ start[q].pc = "row" => start[q].run # r
    BY <1>1, <1>2 DEF SlotInv, OwnRun, Inv, Named, r
  <2> QED BY <1>2, <1>3, <1>5, <2>1 DEF SlotInv, OwnRun
<1>9. PassBusy'
  BY <1>1, <1>2, <1>4 DEF SlotInv, PassBusy
<1>10. LiveRuns' \subseteq LiveRuns \cup {r} /\ IsFiniteSet(LiveRuns')
  <2>1. LiveRuns' \subseteq LiveRuns \cup {r}
    BY <1>5 DEF LiveRuns, Live
  <2> QED BY <2>1, FS_AddElement, FS_Subset DEF SlotInv
<1>11. CASE s # Sched
  <2>1. r \notin auto
    BY <1>1, <1>11 DEF SlotInv, OwnRun, r
  <2>2. AutoRuns' \subseteq AutoRuns
    BY <1>3, <1>5, <2>1 DEF AutoRuns, AtWork, Live, Inv, TypeOK
  <2>3. /\ Cardinality(AutoRuns') \in Nat /\ Cardinality(AutoRuns) \in Nat
        /\ Cardinality(AutoRuns') <= Cardinality(AutoRuns)
    BY <2>2, FewerAuto
  <2>4. SlotLeft' /\ AutoWithinCap'
    BY <1>4, <1>11, <2>3, LimitsAssumption DEF SlotInv, SlotLeft, AutoWithinCap, AutoRuns
  <2> QED BY <1>7, <1>8, <1>9, <1>10, <2>4 DEF SlotInv
<1>12. CASE s = Sched
  <2>1. Cardinality(AutoRuns) < Cap
    BY <1>1, <1>12 DEF SlotInv, PassBusy, SlotLeft
  <2>2. AutoRuns' \subseteq AutoRuns \cup {r}
    BY <1>3, <1>5 DEF AutoRuns, AtWork, Live, Inv, TypeOK
  <2>3. IsFiniteSet(AutoRuns)
    <3>1. AutoRuns \subseteq LiveRuns
      BY DEF AutoRuns, AtWork, LiveRuns, Live, Inv, TypeOK
    <3> QED BY <3>1, FS_Subset DEF SlotInv
  <2>4. /\ IsFiniteSet(AutoRuns \cup {r}) /\ Cardinality(AutoRuns) \in Nat
        /\ Cardinality(AutoRuns \cup {r}) <= Cardinality(AutoRuns) + 1
    BY <2>3, FS_AddElement, FS_CardinalityType
  <2>5. Cardinality(AutoRuns') <= Cardinality(AutoRuns) + 1
    <3>1. /\ Cardinality(AutoRuns \cup {r}) \in Nat /\ Cardinality(AutoRuns') \in Nat
          /\ Cardinality(AutoRuns') <= Cardinality(AutoRuns \cup {r})
      BY <2>2, <2>4, FS_Subset, FS_CardinalityType
    <3> QED BY <2>4, <3>1
  <2>6. Cardinality(AutoRuns') \in Nat
    BY <2>2, <2>4, FS_Subset, FS_CardinalityType
  <2>7. SlotLeft' /\ AutoWithinCap'
    BY <1>4, <1>12, <2>1, <2>4, <2>5, <2>6, LimitsAssumption DEF SlotLeft, AutoWithinCap, AutoRuns
  <2> QED BY <1>7, <1>8, <1>9, <1>10, <2>7 DEF SlotInv
<1> QED BY <1>11, <1>12

\* The steps of the agents, of the terminals, and of time.
LEMMA AgentSlots ==
    ASSUME Inv, SlotInv,
           \/ Tick \/ Restart
           \/ \E r \in Run : AgentStep(r) \/ TerminalStep(r)
           \/ \E t \in Task : TaskStep(t)
    PROVE  SlotInv'
<1>1. /\ start \in [Starter -> StartRecord] /\ Sched \in Starter /\ sched \in SchedRecord
      /\ runStatus \in [Run -> {"unused", "running", "exited", "killed"}]
      /\ sess \in [Run -> {"none", "live", "evicted", "settling", "gone"}]
      /\ auto \subseteq Run
  BY DEF Inv, TypeOK, Starter
<1>2. CASE Restart
  <2>1. /\ \A s \in Starter : start'[s].pc = "off"
        /\ sched'.pc = "begin" /\ dying' = {} /\ stops' = {}
        /\ UNCHANGED <<runTask, idle, auto>>
    BY <1>2 DEF Restart, NotStarting, Woken, Asleep
  <2>2. \A r \in Run : /\ runStatus'[r] = "unused" <=> runStatus[r] = "unused"
                       /\ sess'[r] = "none" <=> sess[r] = "none"
                       /\ sess'[r] # "live"
    BY <1>1, <1>2 DEF Restart
  <2> QED BY <1>1, <2>1, <2>2, SlotFrame DEF SlotInv, RunsFresh
<1>3. ASSUME UNCHANGED <<runTask, start>>,
             sched' = sched \/ sched' = Woken(sched),
             auto' \subseteq auto,
             \A r \in Run : /\ runStatus'[r] = "unused" <=> runStatus[r] = "unused"
                            /\ sess'[r] = "none" <=> sess[r] = "none"
                            /\ sess'[r] = "live" => sess[r] = "live"
                            /\ r \in auto' => (r \in idle => r \in idle')
                            /\ r \in idle' \/ r \in dying' \/ r \in stops' => sess[r] # "none"
      PROVE  SlotInv'
  BY <1>1, <1>3, SlotFrame, WokenAwaits DEF SlotInv, RunsFresh, PassBusy
<1>4. CASE Tick
  BY <1>3, <1>4 DEF Tick, Wake, store, sessions, SlotInv, RunsFresh
<1>5. ASSUME NEW r \in Run, AgentStep(r)
      PROVE  SlotInv'
  <2>1. CASE StopArrives(r) \/ StopIgnored(r) \/ StopParks(r)
    <3>1. UNCHANGED <<sessions, start, sched>> /\ stops' \subseteq stops \cup {r}
          /\ (r \in stops' => sess[r] # "none")
      BY <2>1 DEF StopArrives, StopIgnored, StopParks, AtWork, Live, SlotInv, RunsFresh
    <3> QED BY <1>3, <3>1 DEF sessions, SlotInv, RunsFresh
  <2>2. ASSUME NEW due \in BOOLEAN, StopLands(r, due)
        PROVE  SlotInv'
    <3>1. /\ UNCHANGED <<runTask, runStatus, sess, dying, auto, start>>
          /\ sched' = Woken(sched) /\ stops' = stops \ {r}
          /\ idle' \subseteq idle \cup {r} /\ idle \subseteq idle' /\ sess[r] # "none"
      BY <2>2 DEF StopLands, Wake, SlotInv, RunsFresh
    <3> QED BY <1>1, <1>3, <3>1 DEF SlotInv, RunsFresh
  <2>3. CASE Dispose(r) \/ Exits(r)
    <3>1. /\ UNCHANGED <<runTask, start, sched, idle, auto, stops>> /\ dying' \subseteq dying
          /\ \A q \in Run : /\ runStatus'[q] = "unused" <=> runStatus[q] = "unused"
                            /\ sess'[q] = "none" <=> sess[q] = "none"
                            /\ sess'[q] = "live" => sess[q] = "live"
      BY <1>1, <2>3 DEF Dispose, Exits, Live
    <3> QED BY <1>1, <1>3, <3>1 DEF SlotInv, RunsFresh
  <2>4. ASSUME NEW clean \in BOOLEAN, ExitSettles(r, clean)
        PROVE  SlotInv'
    <3>1. /\ UNCHANGED <<runTask, runStatus, start, idle, auto, dying, stops>>
          /\ sched' = Woken(sched)
          /\ \A q \in Run : /\ sess'[q] = "none" <=> sess[q] = "none"
                            /\ sess'[q] = "live" => sess[q] = "live"
      BY <1>1, <2>4 DEF ExitSettles, Wake
    <3> QED BY <1>1, <1>3, <3>1 DEF SlotInv, RunsFresh
  <2> QED BY <1>5, <2>1, <2>2, <2>3, <2>4 DEF AgentStep
<1>6. ASSUME NEW rs \in SUBSET Run, KillAll(rs), \A r \in rs : runStatus[r] # "unused",
             UNCHANGED <<runTask, sess, idle, auto, stops, start>>,
             sched' = sched \/ sched' = Woken(sched)
      PROVE  SlotInv'
  <2>1. /\ \A r \in Run : runStatus'[r] = "unused" <=> runStatus[r] = "unused"
        /\ \A r \in Run : r \in dying' => r \in dying \/ sess[r] = "live"
    BY <1>1, <1>6 DEF KillAll, Live
  <2> QED BY <1>1, <1>3, <1>6, <2>1 DEF SlotInv, RunsFresh
<1>7. ASSUME NEW r \in Run, TerminalStep(r)
      PROVE  SlotInv'
  <2>1. CASE Prompt(r)
    BY <1>1, <1>3, <2>1 DEF Prompt, SlotInv, RunsFresh
  <2>2. CASE KillRun(r)
    <3>1. runStatus[r] # "unused"
      BY <2>2 DEF KillRun, Live, SlotInv, RunsFresh
    <3> QED BY <1>6, <2>2, <3>1 DEF KillRun
  <2> QED BY <1>7, <2>1, <2>2 DEF TerminalStep
<1>8. ASSUME NEW t \in Task, AbortGate(t), KillAll(Killable(t)),
             UNCHANGED <<runTask, sess, idle, auto, stops>>,
             sched' = sched \/ sched' = Woken(sched)
      PROVE  SlotInv'
  <2>1. \A s \in Starter : start'[s].pc = start[s].pc /\ start'[s].run = start[s].run
    BY <1>1, <1>8 DEF AbortGate, StartRecord
  <2>2. /\ \A r \in Run : runStatus'[r] = "unused" <=> runStatus[r] = "unused"
        /\ \A r \in Run : r \in dying' => r \in dying \/ sess[r] = "live"
    BY <1>1, <1>8 DEF KillAll, Killable, Live
  <2> QED BY <1>1, <1>8, <2>1, <2>2, SlotFrame, WokenAwaits DEF SlotInv, RunsFresh, PassBusy
<1>9. ASSUME NEW t \in Task, TaskStep(t)
      PROVE  SlotInv'
  <2>1. CASE WaitEnds(t) \/ ReviewEnds(t) \/ QueueAdd(t) \/ Enqueue(t) \/ QueueRemove(t)
    <3>1. UNCHANGED <<sessions, start, stops>> /\ (sched' = sched \/ sched' = Woken(sched))
      BY <2>1 DEF WaitEnds, ReviewEnds, QueueAdd, Enqueue, QueueRemove, Wake
    <3> QED BY <1>1, <1>3, <3>1 DEF sessions, SlotInv, RunsFresh
  <2>2. CASE Cancel(t)
    <3>1. CASE row[t].status \in {"draft", "queued"}
      BY <1>1, <1>3, <2>2, <3>1 DEF Cancel, SlotInv, RunsFresh
    <3>2. CASE row[t].status \notin {"draft", "queued"}
      BY <1>8, <2>2, <3>2 DEF Cancel, Wake
    <3> QED BY <3>1, <3>2
  <2>3. CASE UndoStart(t)
    BY <1>8, <2>3 DEF UndoStart, Wake
  <2>4. CASE Complete(t)
    <3> DEFINE rs == {r \in Run : runTask[r] = t /\ Live(r)}
    <3>1. rs \in SUBSET Run /\ \A r \in rs : runStatus[r] # "unused"
      BY DEF Live, SlotInv, RunsFresh
    <3>2. KillAll(rs) /\ UNCHANGED <<runTask, sess, idle, auto, stops, start, sched>>
      BY <2>4 DEF Complete
    <3> HIDE DEF rs
    <3> QED BY <1>6, <3>1, <3>2
  <2> QED BY <1>9, <2>1, <2>2, <2>3, <2>4 DEF TaskStep
<1> QED BY <1>2, <1>4, <1>5, <1>7, <1>9

\* The requests that start a worker: none of their starts is the scheduler's.
LEMMA RequestSlots ==
    ASSUME Inv, SlotInv, NEW h \in Human, NEW t \in Task, RequestStep(h, t)
    PROVE  SlotInv'
<1>1. /\ start \in [Starter -> StartRecord] /\ h \in Starter /\ h # Sched
      /\ runStatus \in [Run -> {"unused", "running", "exited", "killed"}]
  BY SchedAssumption DEF Inv, TypeOK, Starter
<1>2. ASSUME NEW u, NEW resume \in BOOLEAN, NEW moved, EnterStart(h, u, resume, moved)
      PROVE  /\ \A s \in Starter : s # h => start'[s] = start[s]
             /\ start'[h].pc \in {"off", "gate", "base"}
  BY <1>1, <1>2 DEF EnterStart, StartOver, NotStarting
<1>3. ASSUME NEW u, NEW resume \in BOOLEAN, FollowUpStarts(h, u, resume)
      PROVE  /\ \A s \in Starter : s # h => start'[s] = start[s]
             /\ start'[h].pc \in {"off", "gate", "base"}
  BY <1>1, <1>2, <1>3 DEF FollowUpStarts, StartOver, NotStarting
<1>4. ASSUME \A s \in Starter : s # h => start'[s] = start[s],
             start'[h].pc = "kill" => start'[h].run \in Run /\ runStatus[start'[h].run] # "unused",
             start'[h].pc # "row",
             UNCHANGED <<runTask, sess, idle, auto, stops, sched>>,
             \A r \in Run : /\ runStatus'[r] = "unused" <=> runStatus[r] = "unused"
                            /\ r \in dying' => sess[r] # "none"
      PROVE  SlotInv'
  <2>1. Sched \in Starter /\ start'[Sched] = start[Sched]
    BY <1>1, <1>4 DEF Starter
  <2> QED BY <1>4, <2>1, SlotFrame DEF SlotInv, RunsFresh, PassBusy
<1>5. CASE RunNow(h, t)
  BY <1>2, <1>4, <1>5 DEF RunNow, sessions, SlotInv, RunsFresh
<1>6. ASSUME NEW resume \in BOOLEAN, FollowUp(h, t, resume)
      PROVE  SlotInv'
  BY <1>3, <1>4, <1>6 DEF FollowUp, sessions, SlotInv, RunsFresh
<1>7. ASSUME NEW resume \in BOOLEAN, FollowUpKills(h, t, resume)
      PROVE  SlotInv'
  <2>1. PICK r \in Run :
          /\ Live(r) /\ dying' = dying \cup {r}
          /\ start' = [start EXCEPT ![h] = [pc |-> "kill", task |-> t, run |-> r,
                                            resume |-> resume, abort |-> FALSE]]
    BY <1>7 DEF FollowUpKills
  <2>2. UNCHANGED <<runTask, runStatus, sess, idle, auto, stops, sched>>
    BY <1>7 DEF FollowUpKills
  <2> QED BY <1>1, <1>4, <2>1, <2>2 DEF Live, SlotInv, RunsFresh
<1>8. CASE FollowUpGoesOn(h)
  <2>1. /\ start[h].pc = "kill" /\ start[h].resume \in BOOLEAN /\ start[h].run \in Run
        /\ FollowUpStarts(h, start[h].task, start[h].resume)
        /\ runStatus' = [runStatus EXCEPT ![start[h].run] = "killed"]
        /\ UNCHANGED <<runTask, sess, idle, dying, auto, stops, sched>>
    <3>1. start[h] \in StartRecord
      BY <1>1
    <3> QED BY <1>1, <1>8, <3>1 DEF FollowUpGoesOn, Inv, Named, StartRecord
  <2>2. runStatus[start[h].run] # "unused"
    BY <1>1, <2>1 DEF SlotInv, OwnRun
  <2> QED BY <1>1, <1>3, <1>4, <2>1, <2>2 DEF SlotInv, RunsFresh
<1> QED BY <1>5, <1>6, <1>7, <1>8 DEF RequestStep

\* Every step keeps the slots.
LEMMA SlotStep == ASSUME Inv, SlotInv, [Next]_vars PROVE SlotInv'
<1>1. CASE UNCHANGED vars
  <2>1. UNCHANGED <<runTask, runStatus, sess, idle, dying, auto, start, stops, sched>>
    BY <1>1 DEF vars, sessions
  <2> QED BY <2>1 DEF SlotInv, RunsFresh, OwnRun, PassBusy, SlotLeft, AutoWithinCap, AutoRuns,
                      AtWork, Live, LiveRuns
<1>2. ASSUME NEW s \in Starter, StartStep(s)
      PROVE  SlotInv'
  BY <1>2, StartSlots, SpawnSlots DEF StartStep
<1> QED BY <1>1, <1>2, PassSlots, AgentSlots, RequestSlots DEF Next, EventStep

\* It begins with every slot free.
LEMMA SlotInit == Init => SlotInv
<1> SUFFICES ASSUME Init PROVE SlotInv
  OBVIOUS
<1>1. AutoRuns = {} /\ LiveRuns = {}
  BY DEF Init, AutoRuns, LiveRuns, Live
<1>2. IsFiniteSet({}) /\ Cardinality({}) = 0
  BY FS_EmptySet
<1>3. /\ sched.pc = "begin" /\ \A s \in Starter : start[s].pc = "off"
      /\ Sched \in Starter
  BY DEF Init, Woken, Asleep, NotStarting, Starter
<1>4. RunsFresh
  BY DEF Init, RunsFresh
<1>5. OwnRun /\ PassBusy /\ SlotLeft
  BY <1>3 DEF OwnRun, PassBusy, SlotLeft
<1>6. AutoWithinCap
  <2>1. Cardinality(AutoRuns) <= Cap
    BY <1>1, <1>2, LimitsAssumption
  <2> QED BY <2>1 DEF AutoWithinCap, AutoRuns
<1>7. IsFiniteSet(LiveRuns)
  BY <1>1, <1>2
<1> QED BY <1>4, <1>5, <1>6, <1>7 DEF SlotInv

\* The scheduler alone never fills more than Cap slots, whatever humans start,
\* prompt or cancel between its claims and the sessions they lead to, for any
\* numbers of slots, tasks, repositories and requests.
THEOREM WithinCap == Spec => []AutoWithinCap
<1>1. Init => SlotInv
  BY SlotInit
<1>2. Inv /\ SlotInv /\ [Next]_vars => SlotInv'
  BY SlotStep
<1>3. SlotInv => AutoWithinCap
  BY DEF SlotInv
<1> QED BY <1>1, <1>2, <1>3, Invariance, PTL DEF Spec

---------------------------------------------------------------------------
(* The turns of a task, when nobody acts on it between two of their states *)

\* A start of the task is in flight.
Of(s, t) == start[s].pc # "off" /\ start[s].task = t

\* The exit of the run is yet to settle its task.
Ending(r) == sess[r] \in {"evicted", "settling"}

\* No session, Stop hook or exit of the task can still move it.
Quiet(t) == \A r \in Run : runTask[r] = t =>
    ~Live(r) /\ r \notin stops /\ (Ending(r) => runStatus[r] = "killed")

AtRest(t) == ~Working(row, t) /\ ~Waiting(row, t)

\* A start past its re-check has the task to itself; one in the gate as long as
\* nobody aborted it; a follow-up that closes a terminal, only that terminal.
StartOK(s, t) ==
    /\ start[s].pc \in {"base", "row"} => row[t].status = "running"
    /\ start[s].pc = "gate" =>
         IF start[s].abort THEN AtRest(t) ELSE row[t].status = "running"
    /\ start[s].abort => start[s].pc = "gate"
    /\ start[s].pc \in {"gate", "base", "row"} => Quiet(t)
    /\ start[s].pc = "row" =>
         /\ runTask[start[s].run] = t /\ latest[t] = start[s].run
         /\ runStatus[start[s].run] = "running"
    /\ start[s].pc = "kill" =>
         /\ row[t].status \notin {"queued", "running", "waiting"}
         /\ runTask[start[s].run] = t
         /\ \A r \in Run : runTask[r] = t =>
              /\ r \notin stops
              /\ Live(r) \/ Ending(r) => r = start[s].run
              /\ Live(r) => r \in idle /\ r \in dying

\* A live session is its task's newest, and works exactly as long as the task
\* reads so, unless it was told to go.
RunOK(r, t) == Live(r) =>
    /\ latest[t] = r
    /\ r \notin dying => runStatus[r] = "running"
    /\ Working(row, t) => r \notin idle /\ r \notin dying
    /\ ~Working(row, t) => r \in idle \/ r \in dying
    /\ r \in idle => row[t].status # "queued"

TurnOK(t) ==
    /\ before[t] \notin {"running", "waiting"}
    /\ latest[t] # NoRun => latest[t] \in Run /\ runTask[latest[t]] = t
    /\ \A r \in Run : runTask[r] = t => RunOK(r, t)
    /\ \A s \in Starter : Of(s, t) => StartOK(s, t)
    /\ \A s, q \in Starter : Of(s, t) /\ Of(q, t) => s = q
    /\ Waiting(row, t) => Quiet(t) /\ \A s \in Starter : ~Of(s, t)
    /\ Working(row, t) => Starting(t) \/ NewestDecides(t)

CalmInv == \A t \in Task : TurnOK(t)

\* What a step leaves of a task that is none of its business: an idle session
\* may be let go, a sleeping Stop hook forgotten.
Left(t) ==
    /\ row'[t].status = row[t].status /\ row'[t].held = row[t].held
    /\ before'[t] = before[t] /\ latest'[t] = latest[t]
    /\ \A r \in Run : /\ runTask'[r] = t <=> runTask[r] = t
                      /\ runTask[r] = t =>
                           /\ sess'[r] = sess[r] \/ (Live(r) /\ r \in idle /\ sess'[r] = "evicted")
                           /\ runStatus'[r] = runStatus[r]
                           /\ r \in idle' <=> r \in idle
                           /\ r \in dying' <=> r \in dying
                           /\ r \in stops' => r \in stops
    /\ \A s \in Starter : start'[s] # start[s] =>
           /\ start[s].pc # "off" => start[s].task # t
           /\ start'[s].pc # "off" => start'[s].task # t

Touches(t) == \A u \in Task : u # t => Left(u)

\* The starts of a task that is left alone are the ones it had.
LEMMA StartsLeft ==
    ASSUME NEW t \in Task, Left(t)
    PROVE  \A s \in Starter : /\ Of(s, t)' <=> Of(s, t)
                              /\ Of(s, t) => start'[s] = start[s]
BY DEF Left, Of

\* A task that is left alone is as it was.
LEMMA TurnLeft ==
    ASSUME Inv, NEW t \in Task, TurnOK(t), Left(t)
    PROVE  TurnOK(t)'
<1>1. \A s \in Starter : /\ Of(s, t)' <=> Of(s, t)
                         /\ Of(s, t) => start'[s] = start[s]
  BY StartsLeft
<1>2. /\ Working(row, t)' <=> Working(row, t)
      /\ Waiting(row, t)' <=> Waiting(row, t)
      /\ AtRest(t)' <=> AtRest(t)
  BY DEF Left, Working, Waiting, AtRest
<1>3. \A r \in Run : runTask'[r] = t => runTask[r] = t
  BY DEF Left
<1>4. Quiet(t) => Quiet(t)'
  BY <1>3 DEF Left, Quiet, Live, Ending
<1>5. ASSUME NEW r \in Run, runTask'[r] = t
      PROVE  RunOK(r, t)'
  BY <1>2, <1>3, <1>5 DEF TurnOK, RunOK, Left, Live
<1>6. ASSUME NEW s \in Starter, Of(s, t)'
      PROVE  StartOK(s, t)'
  <2>1. start'[s] = start[s] /\ StartOK(s, t) /\ row'[t].status = row[t].status
    BY <1>1, <1>6 DEF TurnOK, Left
  <2>2. start[s].pc = "row" => start[s].run \in Run
    BY DEF Inv, Named
  <2>3. start[s].pc = "row" =>
            /\ runTask'[start[s].run] = t /\ latest'[t] = start[s].run
            /\ runStatus'[start[s].run] = "running"
    BY <2>1, <2>2 DEF StartOK, Left
  <2>4. start[s].pc = "kill" =>
         /\ runTask'[start[s].run] = t
         /\ \A r \in Run : runTask'[r] = t =>
              /\ r \notin stops'
              /\ Live(r)' \/ Ending(r)' => r = start[s].run
              /\ Live(r)' => r \in idle' /\ r \in dying'
    <3>1. start[s].pc = "kill" => start[s].run \in Run
      BY DEF Inv, Named
    <3> QED BY <1>3, <2>1, <3>1 DEF StartOK, Left, Live, Ending
  <2> QED BY <1>2, <1>4, <2>1, <2>3, <2>4 DEF StartOK
<1>7. Starting(t) \/ NewestDecides(t) => (Starting(t) \/ NewestDecides(t))'
  <2>1. Starting(t) => Starting(t)'
    BY <1>1 DEF Starting, Of
  <2>2. NewestDecides(t) => NewestDecides(t)'
    BY DEF NewestDecides, TurnOK, Left, AtWork, Live
  <2> QED BY <2>1, <2>2
<1>8. latest'[t] # NoRun => latest'[t] \in Run /\ runTask'[latest'[t]] = t
  BY DEF TurnOK, Left
<1>9. before'[t] \notin {"running", "waiting"}
  BY DEF TurnOK, Left
<1> QED BY <1>1, <1>2, <1>4, <1>5, <1>6, <1>7, <1>8, <1>9 DEF TurnOK

\* A step about one task that keeps its turn in order keeps all of them so.
LEMMA TouchedCalm ==
    ASSUME Inv, CalmInv, NEW t \in Task, Touches(t), TurnOK(t)'
    PROVE  CalmInv'
BY TurnLeft DEF CalmInv, Touches

\* So does a step about none.
LEMMA AllCalm ==
    ASSUME Inv, CalmInv, \A t \in Task : Left(t)
    PROVE  CalmInv'
BY TurnLeft DEF CalmInv

\* What a transition does to its own row and to the others.
LEMMA TransitionAt ==
    ASSUME NEW table \in [Task -> Row], NEW t \in Task, NEW from, NEW to \in Status
    PROVE  /\ \A u \in Task : u # t => Transition(table, t, from, to)[u] = table[u]
           /\ table[t].status \in from =>
                /\ Transition(table, t, from, to)[t].status = to
                /\ ~Transition(table, t, from, to)[t].held
           /\ table[t].status \notin from => Transition(table, t, from, to) = table
<1>1. Moved(table[t], to).status = to /\ ~Moved(table[t], to).held
  BY DEF Moved, Row
<1> QED BY <1>1 DEF Transition, CanMove

\* The same of one that patches the verify round.
LEMMA TransitionVerifyAt ==
    ASSUME NEW table \in [Task -> Row], NEW t \in Task, NEW from, NEW to \in Status, NEW verify
    PROVE  /\ \A u \in Task : u # t =>
                TransitionVerify(table, t, from, to, verify)[u] = table[u]
           /\ table[t].status \in from =>
                TransitionVerify(table, t, from, to, verify)[t].status = to
           /\ table[t].status \notin from => TransitionVerify(table, t, from, to, verify) = table
<1>1. [Moved(table[t], to) EXCEPT !.verify = verify].status = to
  BY DEF Moved, Row
<1> QED BY <1>1 DEF TransitionVerify, CanMove

\* Only the task of the start it enters is touched by the first stretch of
\* startWorker.
LEMMA EnterTouches ==
    ASSUME Inv, NEW s \in Starter, NEW t \in Task, NEW resume \in BOOLEAN,
           NEW moved \in [Task -> Row], \A u \in Task : u # t => moved[u] = row[u],
           EnterStart(s, t, resume, moved), before' = NotedBefore(t),
           start[s].pc # "off" => start[s].task = t,
           UNCHANGED <<runTask, latest, sess, idle, dying, stops>>,
           \A r \in Run : runTask[r] # t => runStatus'[r] = runStatus[r]
    PROVE  Touches(t)
<1>1. /\ row \in [Task -> Row] /\ start \in [Starter -> StartRecord]
      /\ before \in [Task -> Status]
  BY DEF Inv, TypeOK
<1>2. \A u \in Task : u # t => row'[u] = row[u]
  BY TransitionAt DEF EnterStart, Status
<1>3. \A u \in Task : u # t => before'[u] = before[u]
  BY <1>1 DEF NotedBefore
<1>4. \A q \in Starter : q # s => start'[q] = start[q]
  BY <1>1 DEF EnterStart, StartOver
<1>5. start'[s].pc # "off" => start'[s].task = t
  BY <1>1 DEF EnterStart, StartOver, NotStarting
<1> QED BY <1>2, <1>3, <1>4, <1>5 DEF Touches, Left

\* The first stretch of startWorker, on a task nothing else of which is in
\* flight, and of which only a terminal that is being closed may be alive.
LEMMA EnterTurn ==
    ASSUME Inv, NEW s \in Starter, NEW t \in Task, NEW resume \in BOOLEAN,
           NEW moved \in [Task -> Row], moved[t].status = "running",
           TurnOK(t), ~Working(row, t), EnterStart(s, t, resume, moved),
           before' = NotedBefore(t),
           \A q \in Starter : Of(q, t) => q = s,
           UNCHANGED <<runTask, latest, sess, idle, dying, stops>>,
           \A r \in Run : runTask[r] = t =>
               /\ r \notin stops
               /\ Ending(r) => runStatus'[r] = "killed"
               /\ Live(r) => r \in idle /\ r \in dying
    PROVE  TurnOK(t)'
<1>1. /\ row \in [Task -> Row] /\ start \in [Starter -> StartRecord]
      /\ before \in [Task -> Status]
  BY DEF Inv, TypeOK
<1>2. before'[t] \notin {"running", "waiting"}
  BY <1>1 DEF NotedBefore, Working
<1>3. latest'[t] # NoRun => latest'[t] \in Run /\ runTask'[latest'[t]] = t
  BY DEF TurnOK
<1>4. \A q \in Starter : Of(q, t)' => q = s
  <2>1. \A q \in Starter : q # s => start'[q] = start[q]
    BY <1>1 DEF EnterStart, StartOver
  <2> QED BY <2>1 DEF Of
<1>5. CASE HasLive(t)
  <2>1. row'[t].status = "review" /\ start' = [start EXCEPT ![s] = NotStarting]
    BY <1>5, TransitionAt DEF EnterStart, StartOver, Status
  <2>2. ~Of(s, t)'
    BY <1>1, <2>1 DEF Of, NotStarting
  <2>3. ~Working(row, t)' /\ ~Waiting(row, t)'
    BY <2>1 DEF Working, Waiting
  <2>4. \A r \in Run : runTask'[r] = t => RunOK(r, t)'
    BY <2>1, <2>3 DEF TurnOK, RunOK, Live
  <2> QED BY <1>2, <1>3, <1>4, <2>2, <2>3, <2>4 DEF TurnOK
<1>6. CASE ~HasLive(t)
  <2> DEFINE new == [pc |-> IF resume THEN "gate" ELSE "base", task |-> t,
                     run |-> NoRun, resume |-> resume, abort |-> FALSE]
  <2>1. row' = moved /\ start' = [start EXCEPT ![s] = new]
    BY <1>6 DEF EnterStart
  <2>2. new.task = t /\ new.pc \in {"gate", "base"} /\ ~new.abort
    OBVIOUS
  <2> HIDE DEF new
  <2>3. /\ row'[t].status = "running" /\ start'[s].task = t
        /\ start'[s].pc \in {"gate", "base"} /\ ~start'[s].abort
    BY <1>1, <2>1, <2>2
  <2>4. ~Waiting(row, t)' /\ Starting(t)'
    BY <2>3 DEF Waiting, Starting
  <2>5. \A r \in Run : runTask'[r] = t => RunOK(r, t)'
    BY <1>6 DEF HasLive, RunOK, Live
  <2>6. Quiet(t)'
    BY <1>6 DEF HasLive, Quiet, Live, Ending
  <2>7. StartOK(s, t)'
    BY <2>3, <2>6 DEF StartOK
  <2> QED BY <1>2, <1>3, <1>4, <2>4, <2>5, <2>7 DEF TurnOK
<1> QED BY <1>5, <1>6

\* A step that changes nothing of tasks, sessions and starts leaves them all.
LEMMA LeavesAll ==
    ASSUME UNCHANGED <<row, before, runTask, runStatus, latest, sess, idle, dying, start>>,
           stops' \subseteq stops, NEW t \in Task
    PROVE  Left(t)
BY DEF Left

\* The scheduler claims a waiting task: nothing of it is in flight.
LEMMA ClaimTurn ==
    ASSUME Inv, CalmInv, NEW t \in Task, Waiting(row, t),
           EnterStart(Sched, t, FALSE, Claimed(row, t)), before' = NotedBefore(t),
           start[Sched].pc = "off", UNCHANGED <<sessions, stops>>
    PROVE  Touches(t) /\ TurnOK(t)'
<1>1. row \in [Task -> Row] /\ Sched \in Starter
  BY DEF Inv, TypeOK, Starter
<1>2. /\ Claimed(row, t) \in [Task -> Row]
      /\ \A u \in Task : u # t => Claimed(row, t)[u] = row[u]
      /\ Claimed(row, t)[t].status = "running"
  BY <1>1 DEF Claimed, Row, Status
<1>3. TurnOK(t) /\ Quiet(t) /\ \A q \in Starter : ~Of(q, t)
  BY DEF CalmInv, TurnOK
<1>4. ~Working(row, t)
  BY DEF Working, Waiting
<1>5. Touches(t)
  BY <1>1, <1>2, EnterTouches DEF sessions
<1>6. TurnOK(t)'
  <2>1. UNCHANGED <<runTask, runStatus, latest, sess, idle, dying, stops>>
    BY DEF sessions
  <2>2. \A r \in Run : runTask[r] = t =>
               /\ r \notin stops
               /\ Ending(r) => runStatus'[r] = "killed"
               /\ Live(r) => r \in idle /\ r \in dying
    BY <1>3, <2>1 DEF Quiet
  <2> QED BY <1>1, <1>2, <1>3, <1>4, <2>1, <2>2, EnterTurn
<1> QED BY <1>5, <1>6

\* A pass either claims one waiting task or touches none.
LEMMA PassTouches ==
    ASSUME Inv, SlotInv, CalmInv, SchedulerStep
    PROVE  \/ \A t \in Task : Left(t)
           \/ \E t \in Task : /\ Waiting(row, t)
                              /\ EnterStart(Sched, t, FALSE, Claimed(row, t))
                              /\ Touches(t) /\ TurnOK(t)'
<1>1. start[Sched].pc = "off"
  BY DEF SchedulerStep, PassBegins, PumpLooks, PumpClaims, BaseClaims, PassEnds, PassReturns,
         SlotInv, PassBusy
<1>2. UNCHANGED <<sessions, stops>>
  BY DEF SchedulerStep, PassBegins, PumpLooks, PumpClaims, BaseClaims, PassEnds, PassReturns
<1>3. CASE UNCHANGED <<store, start>>
  BY <1>2, <1>3, LeavesAll DEF store, sessions
<1>4. CASE PassBegins \/ PumpLooks \/ PassEnds \/ PassReturns
  BY <1>3, <1>4 DEF PassBegins, PumpLooks, PassEnds, PassReturns
<1>5. ASSUME NEW ok \in BOOLEAN, PumpClaims(ok), ~UNCHANGED <<store, start>>
      PROVE  \E t \in Task : /\ Waiting(row, t)
                             /\ EnterStart(Sched, t, FALSE, Claimed(row, t))
                             /\ Touches(t) /\ TurnOK(t)'
  <2>1. /\ CanClaimCustom(row, sched.head) /\ before' = NotedBefore(sched.head)
        /\ EnterStart(Sched, sched.head, FALSE, Claimed(row, sched.head))
    BY <1>5 DEF PumpClaims
  <2>2. sched.head \in Task /\ Waiting(row, sched.head)
    BY <1>5, <2>1 DEF PumpClaims, Inv, Named, CanClaimCustom, CustomHead, CustomEligible
  <2> QED BY <1>1, <1>2, <2>1, <2>2, ClaimTurn
<1>6. ASSUME BaseClaims, ~UNCHANGED <<store, start>>
      PROVE  \E t \in Task : /\ Waiting(row, t)
                             /\ EnterStart(Sched, t, FALSE, Claimed(row, t))
                             /\ Touches(t) /\ TurnOK(t)'
  <2> DEFINE t == CHOOSE t \in BaseHead(row) : TRUE
  <2>1. /\ BaseHead(row) # {} /\ before' = NotedBefore(t)
        /\ EnterStart(Sched, t, FALSE, Claimed(row, t))
    BY <1>6 DEF BaseClaims
  <2>2. t \in BaseHead(row)
    BY <2>1
  <2> HIDE DEF t
  <2>3. t \in Task /\ Waiting(row, t)
    BY <2>2 DEF BaseHead, BaseEligible
  <2> QED BY <1>1, <1>2, <2>1, <2>3, ClaimTurn
<1> QED BY <1>3, <1>4, <1>5, <1>6 DEF SchedulerStep

\* The gate lets a start through, or parks its task.
LEMMA GateTurn ==
    ASSUME Inv, CalmInv, NEW s \in Starter, NEW t \in Task, start[s].task = t,
           GateAborted(s) \/ GatePassed(s)
    PROVE  Touches(t) /\ TurnOK(t)'
<1>1. /\ row \in [Task -> Row] /\ start \in [Starter -> StartRecord]
      /\ start[s].pc = "gate"
  BY DEF GateAborted, GatePassed, Inv, TypeOK, Named
<1>2. TurnOK(t) /\ StartOK(s, t) /\ Of(s, t)
  BY <1>1 DEF CalmInv, TurnOK, Of
<1>3. UNCHANGED <<store, sessions, stops>>
  <2>1. ASSUME GateAborted(s)
        PROVE  row' = row
    <3>1. row[t].status # "running"
      BY <1>1, <1>2, <2>1 DEF GateAborted, StartOK, AtRest, Working
    <3> QED BY <1>1, <2>1, <3>1, TransitionAt DEF GateAborted, Status
  <2> QED BY <2>1 DEF GateAborted, GatePassed, store
<1>4. /\ \A q \in Starter : q # s => start'[q] = start[q]
      /\ start'[s].pc # "off" => /\ start'[s].pc = "base" /\ ~start'[s].abort
                                 /\ start'[s].task = t
                                 /\ row[t].status = "running"
      /\ start'[s].pc = "off" => AtRest(t)
  <2>1. CASE start' = [start EXCEPT ![s] = NotStarting] /\ row[t].status # "running"
    <3>1. AtRest(t)
      BY <1>1, <1>2, <2>1 DEF StartOK
    <3> QED BY <1>1, <2>1, <3>1 DEF NotStarting
  <2>2. CASE /\ start' = [start EXCEPT ![s].pc = "base"] /\ ~start[s].abort
             /\ row[t].status = "running"
    BY <1>1, <2>2 DEF StartRecord
  <2>3. GateAborted(s) => row[t].status # "running"
    BY <1>1, <1>2 DEF GateAborted, StartOK, AtRest, Working
  <2> QED BY <1>1, <2>1, <2>2, <2>3 DEF GateAborted, GatePassed, StartOver
<1>5. Touches(t)
  <2>1. \A q \in Starter : start'[q] # start[q] => q = s
    BY <1>4
  <2> QED BY <1>2, <1>3, <1>4, <2>1 DEF Touches, Left, store, sessions, Of
<1>6. TurnOK(t)'
  <2>1. \A q \in Starter : Of(q, t)' => q = s
    BY <1>2, <1>4 DEF TurnOK, Of
  <2>2. Quiet(t)'
    BY <1>1, <1>2, <1>3 DEF StartOK, Quiet, Live, Ending, sessions
  <2>3. Of(s, t)' => StartOK(s, t)'
    BY <1>3, <1>4, <2>2 DEF StartOK, Of, store
  <2>4. \A r \in Run : runTask'[r] = t => RunOK(r, t)'
    BY <2>2 DEF Quiet, RunOK
  <2>5. ~Waiting(row, t)' /\ (Working(row, t)' => Starting(t)')
    BY <1>3, <1>4 DEF Waiting, Starting, AtRest, Working, store
  <2> QED BY <1>2, <1>3, <2>1, <2>3, <2>4, <2>5 DEF TurnOK, store, sessions
<1> QED BY <1>5, <1>6

\* The row of a run is written: it is the task's newest.
LEMMA CreateTurn ==
    ASSUME Inv, SlotInv, CalmInv, NEW s \in Starter, NEW t \in Task, start[s].task = t,
           CreateRun(s)
    PROVE  Touches(t) /\ TurnOK(t)'
<1>1. /\ start \in [Starter -> StartRecord] /\ runTask \in [Run -> Task \cup {NoTask}]
      /\ latest \in [Task -> Run \cup {NoRun}]
      /\ runStatus \in [Run -> {"unused", "running", "exited", "killed"}]
      /\ start[s].pc = "base"
  BY DEF CreateRun, Inv, TypeOK, Named
<1>2. TurnOK(t) /\ StartOK(s, t) /\ Of(s, t)
  BY <1>1 DEF CalmInv, TurnOK, Of
<1>3. PICK r \in Run :
        /\ runStatus[r] = "unused"
        /\ runTask' = [runTask EXCEPT ![r] = t]
        /\ runStatus' = [runStatus EXCEPT ![r] = "running"]
        /\ latest' = [latest EXCEPT ![t] = r]
        /\ start' = [start EXCEPT ![s].pc = "row", ![s].run = r]
  BY DEF CreateRun
<1>4. UNCHANGED <<store, sess, idle, dying, stops>>
  BY DEF CreateRun
<1>5. runTask[r] \notin Task /\ sess[r] = "none" /\ r \notin stops
  BY <1>3, NoTaskAssumption DEF SlotInv, RunsFresh
<1>6. /\ runTask'[r] = t /\ runStatus'[r] = "running" /\ latest'[t] = r
      /\ \A q \in Run : q # r => runTask'[q] = runTask[q] /\ runStatus'[q] = runStatus[q]
      /\ \A u \in Task : u # t => latest'[u] = latest[u]
  BY <1>1, <1>3
<1>7. /\ \A q \in Starter : q # s => start'[q] = start[q]
      /\ start'[s].pc = "row" /\ start'[s].run = r /\ start'[s].task = t
      /\ start'[s].abort = start[s].abort
  BY <1>1, <1>3 DEF StartRecord
<1>8. Touches(t)
  <2> SUFFICES ASSUME NEW u \in Task, u # t
               PROVE  Left(u)
    BY DEF Touches
  <2>1. \A q \in Run : /\ runTask'[q] = u <=> runTask[q] = u
                       /\ runTask[q] = u => q # r
    BY <1>5, <1>6
  <2>2. \A q \in Starter : start'[q] # start[q] => q = s
    BY <1>7
  <2> QED BY <1>2, <1>4, <1>6, <1>7, <2>1, <2>2 DEF Left, store, Of
<1>9. TurnOK(t)'
  <2>1. \A q \in Starter : Of(q, t)' => q = s
    BY <1>2, <1>7 DEF TurnOK, Of
  <2>2. Quiet(t)'
    BY <1>1, <1>2, <1>4, <1>5, <1>6 DEF StartOK, Quiet, Live, Ending
  <2>3. StartOK(s, t)'
    BY <1>1, <1>2, <1>4, <1>6, <1>7, <2>2 DEF StartOK, store
  <2>4. \A q \in Run : runTask'[q] = t => RunOK(q, t)'
    BY <2>2 DEF Quiet, RunOK
  <2>5. ~Waiting(row, t)' /\ Starting(t)'
    BY <1>1, <1>2, <1>4, <1>7 DEF Waiting, Starting, StartOK, store
  <2> QED BY <1>2, <1>4, <1>6, <2>1, <2>3, <2>4, <2>5 DEF TurnOK, store
<1> QED BY <1>8, <1>9

\* The session of a start: from now on it is the task's turn, or the task goes
\* back to the queue or fails.
LEMMA SpawnTurn ==
    ASSUME Inv, SlotInv, CalmInv, NEW s \in Starter, NEW t \in Task, start[s].task = t,
           Spawn(s) \/ SpawnFails(s)
    PROVE  Touches(t) /\ TurnOK(t)'
<1> DEFINE r == start[s].run
<1>1. /\ row \in [Task -> Row] /\ start \in [Starter -> StartRecord]
      /\ runStatus \in [Run -> {"unused", "running", "exited", "killed"}]
      /\ sess \in [Run -> {"none", "live", "evicted", "settling", "gone"}]
      /\ start[s].pc = "row" /\ r \in Run
  BY DEF Spawn, SpawnFails, Inv, TypeOK, Named
<1>2. TurnOK(t) /\ StartOK(s, t) /\ Of(s, t)
  BY <1>1 DEF CalmInv, TurnOK, Of
<1>3. /\ runTask[r] = t /\ latest[t] = r /\ runStatus[r] = "running" /\ Quiet(t)
      /\ row[t].status = "running" /\ sess[r] = "none"
      /\ r \notin idle /\ r \notin dying /\ r \notin stops
  BY <1>1, <1>2 DEF StartOK, SlotInv, OwnRun, RunsFresh
<1>4. UNCHANGED <<before, runTask, latest, idle, dying, stops>>
  BY DEF Spawn, SpawnFails
<1>5. /\ \A q \in Starter : q # s => start'[q] = start[q]
      /\ start'[s].pc = "off"
  <2>1. start' = [start EXCEPT ![s] = NotStarting] /\ NotStarting.pc = "off"
    BY DEF Spawn, SpawnFails, StartOver, NotStarting
  <2> QED BY <1>1, <2>1
<1>6. \A q \in Run : q # r => /\ runStatus'[q] = runStatus[q]
                              /\ sess'[q] = sess[q]
                                   \/ (Live(q) /\ q \in idle /\ sess'[q] = "evicted")
  BY <1>1 DEF Spawn, SpawnFails, LiveRuns
<1>7. \/ /\ sess'[r] = "live" /\ runStatus'[r] = "running" /\ row' = row
      \/ /\ sess'[r] = "none" /\ row'[t].status \in {"queued", "failed"}
  <2>1. CASE SpawnFails(s)
    BY <1>1, <1>3, <2>1, TransitionAt DEF SpawnFails, Status
  <2>2. CASE Spawn(s)
    <3>1. \A out \in SUBSET {q \in LiveRuns : q \in idle} : r \notin out
      BY <1>3
    <3> QED BY <1>1, <1>3, <2>2, <3>1, TransitionAt DEF Spawn, Status
  <2> QED BY <2>1, <2>2
<1>8. \A u \in Task : u # t => row'[u] = row[u]
  <2>1. ASSUME NEW to \in Status, row' = Transition(row, t, {"running"}, to)
        PROVE  \A u \in Task : u # t => row'[u] = row[u]
    BY <1>1, <2>1, TransitionAt
  <2> QED BY <1>1, <2>1 DEF Spawn, SpawnFails, Status
<1> HIDE DEF r
<1>9. Touches(t)
  <2>1. \A q \in Starter : start'[q] # start[q] => q = s
    BY <1>5
  <2>2. \A q \in Run : runTask[q] # t => q # r
    BY <1>3
  <2> QED BY <1>2, <1>4, <1>5, <1>6, <1>8, <2>1, <2>2 DEF Touches, Left, Of
<1>10. TurnOK(t)'
  <2>1. \A q \in Starter : ~Of(q, t)'
    BY <1>2, <1>5 DEF TurnOK, Of
  <2>2. \A q \in Run : runTask'[q] = t /\ q # r =>
            /\ ~Live(q)' /\ q \notin stops' /\ (Ending(q)' => runStatus'[q] = "killed")
    BY <1>3, <1>4, <1>6 DEF Quiet, Live, Ending
  <2>3. CASE sess'[r] = "live" /\ runStatus'[r] = "running" /\ row' = row
    <3>1. Working(row, t)' /\ ~Waiting(row, t)'
      BY <1>3, <2>3 DEF Working, Waiting
    <3>2. NewestDecides(t)'
      BY <1>1, <1>3, <1>4, <2>3, NoRunAssumption DEF NewestDecides, AtWork, Live
    <3>3. \A q \in Run : runTask'[q] = t => RunOK(q, t)'
      BY <1>3, <1>4, <2>2, <2>3, <3>1 DEF RunOK
    <3> QED BY <1>2, <1>3, <1>4, <2>1, <3>1, <3>2, <3>3 DEF TurnOK
  <2>4. CASE sess'[r] = "none" /\ row'[t].status \in {"queued", "failed"}
    <3>1. Quiet(t)'
      BY <1>3, <1>4, <2>2, <2>4 DEF Quiet, Live, Ending
    <3>2. \A q \in Run : runTask'[q] = t => RunOK(q, t)'
      BY <3>1 DEF Quiet, RunOK
    <3>3. ~Working(row, t)'
      BY <2>4 DEF Working
    <3> QED BY <1>2, <1>4, <2>1, <3>1, <3>2, <3>3 DEF TurnOK
  <2> QED BY <1>7, <2>3, <2>4
<1> QED BY <1>9, <1>10

\* While a session of the task works, or its Stop hook can still end a turn, no
\* start of the task is in flight.
LEMMA NoStart ==
    ASSUME Inv, NEW t \in Task, TurnOK(t), NEW r \in Run, runTask[r] = t,
           AtWork(r) \/ (Working(row, t) /\ (r \in stops \/ Live(r)))
    PROVE  \A s \in Starter : ~Of(s, t)
<1> SUFFICES ASSUME NEW s \in Starter, Of(s, t) PROVE FALSE
  OBVIOUS
<1>1. StartOK(s, t) /\ start[s].pc \in {"kill", "gate", "base", "row"}
  BY DEF TurnOK, Of, Inv, TypeOK, StartRecord
<1> QED BY <1>1 DEF StartOK, Quiet, AtWork, Working

\* The Stop hook: it lands or parks only the turn of the one live session.
LEMMA StopTurn ==
    ASSUME Inv, SlotInv, CalmInv, NEW r \in Run, NEW t \in Task, runTask[r] = t,
           \/ StopArrives(r) \/ StopIgnored(r) \/ StopParks(r)
           \/ \E due \in BOOLEAN : StopLands(r, due)
    PROVE  Touches(t) /\ TurnOK(t)'
<1>1. row \in [Task -> Row] /\ TurnOK(t)
  BY DEF Inv, TypeOK, CalmInv
<1>2. CASE StopArrives(r)
  <2>1. /\ UNCHANGED <<store, sessions, start>> /\ stops' = stops \cup {r}
        /\ AtWork(r)
    BY <1>2 DEF StopArrives
  <2>2. \A s \in Starter : ~Of(s, t)
    BY <1>1, <2>1, NoStart
  <2>3. Touches(t)
    BY <2>1 DEF Touches, Left, store, sessions
  <2>4. /\ \A s \in Starter : ~Of(s, t)'
        /\ \A q \in Run : RunOK(q, t)' <=> RunOK(q, t)
        /\ NewestDecides(t)' <=> NewestDecides(t)
        /\ Working(row, t)' <=> Working(row, t)
        /\ ~Starting(t)
    BY <2>1, <2>2 DEF Of, RunOK, Live, NewestDecides, AtWork, Working, Starting, store, sessions
  <2>5. ~Waiting(row, t)
    BY <1>1, <2>1 DEF TurnOK, Quiet, AtWork
  <2> QED BY <1>1, <2>1, <2>3, <2>4, <2>5 DEF TurnOK, Waiting, store, sessions
<1>3. ASSUME UNCHANGED <<row, before, sessions, start>>, stops' \subseteq stops
      PROVE  Touches(t) /\ TurnOK(t)'
  <2>1. \A u \in Task : Left(u)
    BY <1>3, LeavesAll DEF sessions
  <2> QED BY <1>1, <2>1, TurnLeft DEF Touches
<1>4. CASE StopIgnored(r)
  BY <1>3, <1>4 DEF StopIgnored, store
<1>5. CASE StopParks(r)
  <2>1. PICK open \in BOOLEAN :
          /\ UNCHANGED <<before, sessions, start>> /\ stops' = stops \ {r} /\ r \in stops
          /\ row' = TransitionVerify(row, t, {"running", "waiting"}, "waiting", open)
    BY <1>5 DEF StopParks
  <2>2. CASE ~Working(row, t)
    <3>1. row' = row
      BY <2>1, <2>2 DEF TransitionVerify, CanMove, Working
    <3> QED BY <1>3, <2>1, <3>1
  <2>3. CASE Working(row, t)
    <3>1. /\ row'[t].status = "waiting"
          /\ \A u \in Task : u # t => row'[u] = row[u]
      BY <1>1, <2>1, <2>3, TransitionVerifyAt DEF Working, Status
    <3>2. \A s \in Starter : ~Of(s, t)
      BY <1>1, <2>1, <2>3, NoStart
    <3>3. Touches(t)
      BY <2>1, <3>1 DEF Touches, Left, sessions
    <3>4. Working(row, t)' /\ ~Waiting(row, t)'
      BY <3>1 DEF Working, Waiting
    <3>5. /\ \A s \in Starter : ~Of(s, t)'
          /\ NewestDecides(t)' <=> NewestDecides(t)
          /\ ~Starting(t)
      BY <2>1, <3>2 DEF Of, NewestDecides, AtWork, Live, Starting, sessions
    <3>6. \A q \in Run : RunOK(q, t) => RunOK(q, t)'
      BY <2>1, <2>3, <3>1, <3>4 DEF RunOK, Live, sessions
    <3> QED BY <1>1, <2>1, <2>3, <3>3, <3>4, <3>5, <3>6 DEF TurnOK, sessions
  <2> QED BY <2>2, <2>3
<1>6. ASSUME NEW due \in BOOLEAN, StopLands(r, due)
      PROVE  Touches(t) /\ TurnOK(t)'
  <2>1. /\ UNCHANGED <<before, runTask, runStatus, latest, sess, dying, start>>
        /\ stops' = stops \ {r} /\ r \in stops
        /\ row' = TransitionVerify(row, t, {"running", "waiting"}, "review", due)
        /\ idle' = IF Working(row, t) THEN idle \cup {r} ELSE idle
    BY <1>6 DEF StopLands, Working, CanMove
  <2>2. CASE ~Working(row, t)
    <3>1. row' = row /\ idle' = idle
      BY <1>1, <2>1, <2>2, TransitionVerifyAt DEF Working, Status
    <3>2. \A u \in Task : Left(u)
      BY <2>1, <3>1, LeavesAll
    <3> QED BY <1>1, <3>2, TurnLeft DEF Touches
  <2>3. CASE Working(row, t)
    <3>1. /\ row'[t].status = "review"
          /\ \A u \in Task : u # t => row'[u] = row[u]
      BY <1>1, <2>1, <2>3, TransitionVerifyAt DEF Working, Status
    <3>2. \A s \in Starter : ~Of(s, t)
      BY <1>1, <2>1, <2>3, NoStart
    <3>3. Touches(t)
      BY <2>1, <2>3, <3>1 DEF Touches, Left
    <3>4. ~Working(row, t)' /\ ~Waiting(row, t)'
      BY <3>1 DEF Working, Waiting
    <3>5. \A s \in Starter : ~Of(s, t)'
      BY <2>1, <3>2 DEF Of
    <3>6. latest[t] = r
      BY <1>6 DEF StopLands, StopStale
    <3>7. \A q \in Run : runTask'[q] = t => RunOK(q, t)'
      BY <1>1, <2>1, <2>3, <3>1, <3>4, <3>6 DEF TurnOK, RunOK, Live
    <3> QED BY <1>1, <2>1, <3>3, <3>4, <3>5, <3>7 DEF TurnOK
  <2> QED BY <2>2, <2>3
<1> QED BY <1>2, <1>4, <1>5, <1>6

\* The last subagent returned: the turn goes on.
LEMMA WaitTurn ==
    ASSUME Inv, CalmInv, NEW t \in Task, WaitEnds(t)
    PROVE  Touches(t) /\ TurnOK(t)'
<1>1. row \in [Task -> Row] /\ TurnOK(t)
  BY DEF Inv, TypeOK, CalmInv
<1>2. /\ UNCHANGED <<before, sessions, start, stops>>
      /\ row[t].status = "waiting"
      /\ row' = Transition(row, t, {"waiting"}, "running")
  BY DEF WaitEnds, store
<1>3. row'[t].status = "running" /\ \A u \in Task : u # t => row'[u] = row[u]
  BY <1>1, <1>2, TransitionAt DEF Status
<1>4. \A s \in Starter : ~Of(s, t)
  BY <1>1, NoStart DEF WaitEnds
<1>5. Touches(t)
  BY <1>2, <1>3 DEF Touches, Left, sessions
<1>6. Working(row, t) /\ Working(row, t)' /\ ~Waiting(row, t)'
  BY <1>2, <1>3 DEF Working, Waiting
<1>7. /\ \A s \in Starter : ~Of(s, t)'
      /\ NewestDecides(t)' <=> NewestDecides(t)
      /\ ~Starting(t)
  BY <1>2, <1>4 DEF Of, NewestDecides, AtWork, Live, Starting, sessions
<1>8. \A q \in Run : RunOK(q, t) => RunOK(q, t)'
  BY <1>2, <1>3, <1>6 DEF RunOK, Live, sessions
<1> QED BY <1>1, <1>2, <1>5, <1>6, <1>7, <1>8 DEF TurnOK, sessions

\* The session goes: what is left of its turn is its exit.
LEMMA ExitTurn ==
    ASSUME Inv, SlotInv, CalmInv, NEW r \in Run, NEW t \in Task, runTask[r] = t,
           Dispose(r) \/ Exits(r)
    PROVE  Touches(t) /\ TurnOK(t)'
<1>1. /\ sess \in [Run -> {"none", "live", "evicted", "settling", "gone"}]
      /\ runStatus \in [Run -> {"unused", "running", "exited", "killed"}] /\ TurnOK(t)
  BY DEF Inv, TypeOK, CalmInv
<1>2. CASE Dispose(r)
  <2>1. \A u \in Task : Left(u)
    BY <1>1, <1>2 DEF Dispose, Left, store
  <2> QED BY <1>1, <2>1, TurnLeft DEF Touches
<1>3. CASE Exits(r)
  <2>1. /\ UNCHANGED <<store, runTask, latest, idle, start, stops>>
        /\ sess[r] \in {"live", "evicted"} /\ dying' = dying \ {r}
        /\ sess'[r] = "settling"
        /\ runStatus'[r] = IF runStatus[r] = "running" THEN "exited" ELSE runStatus[r]
        /\ \A q \in Run : q # r => sess'[q] = sess[q] /\ runStatus'[q] = runStatus[q]
    BY <1>1, <1>3 DEF Exits
  <2>2. Touches(t)
    BY <2>1 DEF Touches, Left, store
  <2>3. \A s \in Starter : Of(s, t)' <=> Of(s, t)
    BY <2>1 DEF Of
  <2>4. \A q \in Run : RunOK(q, t) => RunOK(q, t)'
    BY <2>1 DEF RunOK, Live, Working, store
  <2>5. Quiet(t) => Quiet(t)'
    BY <2>1 DEF Quiet, Live, Ending
  <2>6. ASSUME NEW s \in Starter, Of(s, t)
        PROVE  StartOK(s, t)'
    <3>1. StartOK(s, t)
      BY <1>1, <2>6 DEF TurnOK
    <3>2. start[s].pc = "row" => start[s].run # r /\ start[s].run \in Run
      BY <2>1 DEF SlotInv, OwnRun, Inv, Named
    <3>3. AtRest(t)' <=> AtRest(t)
      BY <2>1 DEF AtRest, Working, Waiting, store
    <3>4. \A q \in Run : /\ Live(q)' => Live(q) /\ (q \in dying => q \in dying')
                         /\ Ending(q)' => Live(q) \/ Ending(q)
      BY <2>1 DEF Live, Ending
    <3>5. start[s].pc = "row" => runStatus'[start[s].run] = runStatus[start[s].run]
      BY <2>1, <3>2
    <3>6. /\ start' = start /\ row' = row /\ latest' = latest /\ runTask' = runTask
          /\ idle' = idle /\ stops' = stops
      BY <2>1 DEF store
    <3> QED BY <2>5, <3>1, <3>3, <3>4, <3>5, <3>6 DEF StartOK
  <2>7. Working(row, t) => (Starting(t) \/ NewestDecides(t))'
    <3>1. Starting(t)' <=> Starting(t)
      BY <2>1 DEF Starting
    <3>2. ASSUME Working(row, t), NewestDecides(t)
          PROVE  NewestDecides(t)'
      <4>1. CASE latest[t] = r
        <5>1. AtWork(r) /\ RunOK(r, t)
          BY <1>1, <2>1, <3>2, <4>1 DEF NewestDecides, TurnOK
        <5>2. runStatus[r] = "running"
          BY <3>2, <5>1 DEF AtWork, RunOK
        <5> QED BY <2>1, <3>2, <4>1, <5>2 DEF NewestDecides
      <4>2. CASE latest[t] # r
        BY <1>1, <2>1, <3>2, <4>2 DEF NewestDecides, AtWork, Live, TurnOK
      <4> QED BY <4>1, <4>2
    <3> QED BY <1>1, <3>1, <3>2 DEF TurnOK
  <2> QED BY <1>1, <2>1, <2>2, <2>3, <2>4, <2>5, <2>6, <2>7 DEF TurnOK, Working, Waiting, store
<1> QED BY <1>2, <1>3

\* The exit is settled: with it a turn nobody else decided on is over.
LEMMA SettleTurn ==
    ASSUME Inv, CalmInv, NEW r \in Run, NEW t \in Task, runTask[r] = t,
           NEW clean \in BOOLEAN, ExitSettles(r, clean)
    PROVE  Touches(t) /\ TurnOK(t)'
<1>1. /\ sess \in [Run -> {"none", "live", "evicted", "settling", "gone"}]
      /\ row \in [Task -> Row] /\ TurnOK(t)
  BY DEF Inv, TypeOK, CalmInv
<1>2. /\ UNCHANGED <<before, runTask, runStatus, latest, idle, dying, start, stops>>
      /\ sess[r] = "settling" /\ sess'[r] = "gone"
      /\ \A q \in Run : q # r => sess'[q] = sess[q]
  BY <1>1 DEF ExitSettles
<1>3. PICK to \in {"review", "failed"}, open \in BOOLEAN :
        row' = IF runStatus[r] = "killed" \/ latest[t] # r THEN row
               ELSE TransitionVerify(row, t, {"running", "waiting"}, to, open)
  BY DEF ExitSettles, ExitMoves, ExitLeaves
<1>4. \A u \in Task : u # t => row'[u] = row[u]
  BY <1>1, <1>3 DEF TransitionVerify
<1>5. Touches(t)
  BY <1>2, <1>4 DEF Touches, Left
<1>6. \A s \in Starter : Of(s, t)' <=> Of(s, t)
  BY <1>2 DEF Of
<1>7. CASE runStatus[r] # "killed" /\ latest[t] = r /\ Working(row, t)
  <2>1. row'[t].status \in {"review", "failed"}
    BY <1>1, <1>3, <1>7, TransitionVerifyAt DEF Status, Working
  <2>2. \A s \in Starter : ~Of(s, t)
    <3> SUFFICES ASSUME NEW s \in Starter, Of(s, t) PROVE FALSE
      OBVIOUS
    <3>1. StartOK(s, t) /\ start[s].pc \in {"kill", "gate", "base", "row"}
      BY <1>1 DEF TurnOK, Of, Inv, TypeOK, StartRecord
    <3> QED BY <1>2, <1>7, <3>1 DEF StartOK, Quiet, Ending, Working
  <2>3. ~Working(row, t)' /\ ~Waiting(row, t)'
    BY <2>1 DEF Working, Waiting
  <2>4. \A q \in Run : runTask'[q] = t => RunOK(q, t)'
    BY <1>1, <1>2, <1>7 DEF TurnOK, RunOK, Live
  <2> QED BY <1>1, <1>2, <1>5, <1>6, <2>2, <2>3, <2>4 DEF TurnOK
<1>8. CASE ~(runStatus[r] # "killed" /\ latest[t] = r /\ Working(row, t))
  <2>1. row' = row
    BY <1>3, <1>8 DEF TransitionVerify, CanMove, Working
  <2>2. \A q \in Run : RunOK(q, t) => RunOK(q, t)'
    BY <1>2, <2>1 DEF RunOK, Live, Working
  <2>3. Quiet(t) => Quiet(t)'
    BY <1>2 DEF Quiet, Live, Ending
  <2>4. ASSUME NEW s \in Starter, Of(s, t)
        PROVE  StartOK(s, t)'
    <3>1. StartOK(s, t)
      BY <1>1, <2>4 DEF TurnOK
    <3>2. AtRest(t)' <=> AtRest(t)
      BY <2>1 DEF AtRest, Working, Waiting
    <3>3. \A q \in Run : /\ Live(q)' => Live(q)
                         /\ Ending(q)' => Ending(q)
      BY <1>2 DEF Live, Ending
    <3> QED BY <1>2, <2>1, <2>3, <3>1, <3>2, <3>3 DEF StartOK
  <2>5. Working(row, t) => (Starting(t) \/ NewestDecides(t))'
    <3>1. Starting(t)' <=> Starting(t)
      BY <1>2 DEF Starting
    <3>2. Working(row, t) /\ NewestDecides(t) => NewestDecides(t)'
      BY <1>1, <1>2, <1>8 DEF NewestDecides, AtWork, Live, TurnOK
    <3> QED BY <1>1, <3>1, <3>2 DEF TurnOK
  <2> QED BY <1>1, <1>2, <1>5, <1>6, <2>1, <2>2, <2>3, <2>4, <2>5 DEF TurnOK, Working, Waiting
<1> QED BY <1>7, <1>8

\* What a patient human finds of the task he acts on: at most a start in the
\* gate, and no Stop or exit on its way.
LEMMA AskedSettled ==
    ASSUME Inv, Patient, NEW t \in Task, TurnOK(t), Asks(t)
    PROVE  /\ \A s \in Starter : Of(s, t) =>
                /\ start[s].pc = "gate" /\ ~start[s].abort
                /\ row[t].status = "running" /\ Quiet(t)
           /\ \A r \in Run : runTask[r] = t => r \notin stops /\ ~Ending(r)
<1>1. Settled(t)
  BY DEF Asks
<1>2. ASSUME NEW s \in Starter, Of(s, t)
      PROVE  /\ start[s].pc = "gate" /\ ~start[s].abort
             /\ row[t].status = "running" /\ Quiet(t)
  <2>1. StartOK(s, t) /\ start[s].pc \in {"kill", "gate", "base", "row"}
    BY <1>2 DEF TurnOK, Of, Inv, TypeOK, StartRecord
  <2> QED BY <1>1, <1>2, <2>1 DEF Settled, Of, StartOK
<1>3. \A r \in Run : runTask[r] = t => r \notin stops /\ ~Ending(r)
  BY <1>1 DEF Settled, Ending
<1> QED BY <1>2, <1>3

\* A decision on a task that leaves it at rest, with whatever still lives of it
\* idle or told to go, and its gates aborted.
LEMMA DecidedTurn ==
    ASSUME Inv, Patient, NEW t \in Task, TurnOK(t), Asks(t),
           UNCHANGED <<runTask, latest, sess, idle, stops>>, before'[t] = before[t],
           ~Working(row, t)', Waiting(row, t)' => ~HasLive(t),
           row'[t].status = "queued" => \A r \in idle : runTask[r] = t => ~Live(r),
           \A r \in Run : runTask[r] = t /\ Live(r) =>
               /\ r \in idle \/ r \in dying'
               /\ r \notin dying' => runStatus'[r] = "running",
           \A s \in Starter : start'[s].pc # "off" /\ start'[s].task = t =>
               /\ Of(s, t) /\ start'[s].pc = "gate" /\ start'[s].abort
               /\ AtRest(t)'
    PROVE  TurnOK(t)'
<1>1. /\ \A s \in Starter : Of(s, t) => Quiet(t)
      /\ \A r \in Run : runTask[r] = t => r \notin stops /\ ~Ending(r)
  BY AskedSettled
<1>2. \A r \in Run : runTask'[r] = t => RunOK(r, t)'
  BY DEF TurnOK, RunOK, Live, HasLive
<1>3. ~HasLive(t) => Quiet(t)'
  BY <1>1 DEF HasLive, Quiet, Live, Ending
<1>4. ASSUME NEW s \in Starter, Of(s, t)'
      PROVE  StartOK(s, t)' /\ Of(s, t)
  <2>1. /\ Of(s, t) /\ start'[s].pc = "gate" /\ start'[s].abort /\ AtRest(t)'
    BY <1>4 DEF Of
  <2>2. ~HasLive(t)
    BY <1>1, <2>1 DEF Quiet, HasLive
  <2> QED BY <1>3, <2>1, <2>2 DEF StartOK
<1>5. \A s, q \in Starter : Of(s, t)' /\ Of(q, t)' => s = q
  BY <1>4 DEF TurnOK
<1>6. Waiting(row, t)' => Quiet(t)' /\ \A s \in Starter : ~Of(s, t)'
  <2>1. ASSUME NEW s \in Starter, Of(s, t)'
        PROVE  AtRest(t)'
    BY <2>1 DEF Of
  <2> QED BY <1>3, <2>1 DEF Waiting, AtRest
<1> QED BY <1>2, <1>4, <1>5, <1>6 DEF TurnOK

\* Run now and the follow-up that finds no terminal enter a start with the task
\* moved to running.
LEMMA RequestEnters ==
    ASSUME Inv, NEW h \in Human, NEW t \in Task, NEW resume \in BOOLEAN,
           RunNow(h, t) \/ FollowUp(h, t, resume)
    PROVE  \E moved \in [Task -> Row], how \in BOOLEAN :
             /\ EnterStart(h, t, how, moved) /\ before' = NotedBefore(t)
             /\ moved[t].status = "running" /\ \A u \in Task : u # t => moved[u] = row[u]
<1>1. row \in [Task -> Row]
  BY DEF Inv, TypeOK
<1>2. PICK from \in SUBSET Status, how \in BOOLEAN :
        /\ row[t].status \in from /\ before' = NotedBefore(t)
        /\ EnterStart(h, t, how, Transition(row, t, from, "running"))
  <2>1. RunNowFrom \in SUBSET Status /\ FollowUpFrom \in SUBSET Status
    BY DEF RunNowFrom, FollowUpFrom, Status
  <2>2. CASE RunNow(h, t)
    BY <2>1, <2>2 DEF RunNow, CanMove
  <2>3. CASE FollowUp(h, t, resume)
    BY <2>1, <2>3 DEF FollowUp, FollowUpStarts, CanMove
  <2> QED BY <2>2, <2>3
<1>3. Transition(row, t, from, "running") \in [Task -> Row]
  BY <1>1, TransitionType DEF Status
<1>4. /\ Transition(row, t, from, "running")[t].status = "running"
      /\ \A u \in Task : u # t => Transition(row, t, from, "running")[u] = row[u]
  BY <1>1, <1>2, TransitionAt DEF Status
<1> QED BY <1>2, <1>3, <1>4

\* Run now and the follow-up that finds no terminal.
LEMMA RunTurn ==
    ASSUME Inv, Patient, CalmInv, NEW h \in Human, NEW t \in Task, NEW resume \in BOOLEAN,
           RunNow(h, t) \/ FollowUp(h, t, resume)
    PROVE  Touches(t) /\ TurnOK(t)'
<1>1. row \in [Task -> Row] /\ h \in Starter /\ TurnOK(t) /\ Asks(t)
  BY DEF Inv, TypeOK, Starter, CalmInv, RunNow, FollowUp
<1>2. /\ \A s \in Starter : Of(s, t) => row[t].status = "running"
      /\ \A r \in Run : runTask[r] = t => r \notin stops /\ ~Ending(r)
  BY <1>1, AskedSettled
<1>3. PICK moved \in [Task -> Row], how \in BOOLEAN :
        /\ EnterStart(h, t, how, moved) /\ before' = NotedBefore(t)
        /\ moved[t].status = "running" /\ \A u \in Task : u # t => moved[u] = row[u]
  BY RequestEnters
<1>4. /\ start[h].pc = "off" /\ ~HasLive(t) /\ ~Working(row, t)
      /\ UNCHANGED <<runTask, runStatus, latest, sess, idle, dying, stops>>
  BY DEF RunNow, FollowUp, RunNowFrom, FollowUpFrom, CanMove, Working, sessions
<1>5. \A q \in Starter : ~Of(q, t)
  BY <1>2, <1>4 DEF Working
<1>6. Touches(t)
  BY <1>1, <1>3, <1>4, EnterTouches
<1>7. TurnOK(t)'
  <2>1. \A r \in Run : runTask[r] = t =>
               /\ r \notin stops
               /\ Ending(r) => runStatus'[r] = "killed"
               /\ Live(r) => r \in idle /\ r \in dying
    BY <1>2, <1>4 DEF HasLive
  <2> QED BY <1>1, <1>3, <1>4, <1>5, <2>1, EnterTurn
<1> QED BY <1>6, <1>7

\* The follow-up that has to close a terminal first.
LEMMA KillsTurn ==
    ASSUME Inv, Patient, CalmInv, NEW h \in Human, NEW t \in Task, NEW resume \in BOOLEAN,
           FollowUpKills(h, t, resume)
    PROVE  Touches(t) /\ TurnOK(t)'
<1>1. /\ start \in [Starter -> StartRecord] /\ h \in Starter /\ TurnOK(t) /\ Asks(t)
  BY DEF Inv, TypeOK, Starter, CalmInv, FollowUpKills
<1>2. /\ \A s \in Starter : Of(s, t) => Quiet(t)
      /\ \A r \in Run : runTask[r] = t => r \notin stops /\ ~Ending(r)
  BY <1>1, AskedSettled
<1>3. PICK r \in Run :
        /\ runTask[r] = t /\ Live(r) /\ r \in idle
        /\ dying' = dying \cup {r}
        /\ start' = [start EXCEPT ![h] = [pc |-> "kill", task |-> t, run |-> r,
                                         resume |-> resume, abort |-> FALSE]]
  BY DEF FollowUpKills
<1>4. UNCHANGED <<row, before, runTask, runStatus, latest, sess, idle, stops>> /\ start[h].pc = "off"
  BY DEF FollowUpKills, store
<1>5. /\ \A s \in Starter : s # h => start'[s] = start[s]
      /\ start'[h].pc = "kill" /\ start'[h].task = t /\ start'[h].run = r /\ ~start'[h].abort
  BY <1>1, <1>3
<1>6. /\ RunOK(r, t) /\ \A q \in Run : runTask[q] = t /\ Live(q) => q = r
      /\ row[t].status \notin {"queued", "running", "waiting"}
  BY <1>1, <1>3 DEF TurnOK, RunOK, Working
<1>7. \A s \in Starter : Of(s, t)' => s = h
  BY <1>2, <1>3, <1>5 DEF Of, Quiet
<1>8. Touches(t)
  BY <1>3, <1>4, <1>5 DEF Touches, Left
<1>9. TurnOK(t)'
  <2>1. StartOK(h, t)'
    BY <1>2, <1>3, <1>4, <1>5, <1>6 DEF StartOK, Live, Ending
  <2>2. \A q \in Run : runTask'[q] = t => RunOK(q, t)'
    BY <1>1, <1>3, <1>4, <1>6 DEF TurnOK, RunOK, Live, Working
  <2>3. ~Working(row, t)' /\ ~Waiting(row, t)'
    BY <1>4, <1>6 DEF Working, Waiting
  <2> QED BY <1>1, <1>4, <1>7, <2>1, <2>2, <2>3 DEF TurnOK
<1> QED BY <1>8, <1>9

\* So does the follow-up that waited for a terminal to close.
LEMMA GoesOnEnters ==
    ASSUME Inv, NEW h \in Human, NEW t \in Task, start[h].task = t, FollowUpGoesOn(h),
           CanMove(row, t, FollowUpFrom)
    PROVE  \E moved \in [Task -> Row], how \in BOOLEAN :
             /\ EnterStart(h, t, how, moved) /\ before' = NotedBefore(t)
             /\ moved[t].status = "running" /\ \A u \in Task : u # t => moved[u] = row[u]
<1> DEFINE moved == Transition(row, t, FollowUpFrom, "running")
<1>1. row \in [Task -> Row] /\ start[h].resume \in BOOLEAN
  BY DEF Inv, TypeOK, Starter, StartRecord
<1>2. EnterStart(h, t, start[h].resume, moved) /\ before' = NotedBefore(t)
  BY DEF FollowUpGoesOn, FollowUpStarts
<1>3. moved \in [Task -> Row]
  BY <1>1, TransitionType DEF Status
<1>4. moved[t].status = "running" /\ \A u \in Task : u # t => moved[u] = row[u]
  BY <1>1, TransitionAt DEF Status, CanMove
<1> HIDE DEF moved
<1> QED BY <1>1, <1>2, <1>3, <1>4

\* It goes on: its terminal no longer counts, alive or not.
LEMMA GoesOnTurn ==
    ASSUME Inv, SlotInv, CalmInv, NEW h \in Human, NEW t \in Task, start[h].task = t,
           FollowUpGoesOn(h)
    PROVE  Touches(t) /\ TurnOK(t)'
<1> DEFINE r == start[h].run
<1>1. /\ start \in [Starter -> StartRecord] /\ h \in Starter /\ row \in [Task -> Row]
      /\ runStatus \in [Run -> {"unused", "running", "exited", "killed"}]
      /\ start[h].pc = "kill" /\ r \in Run /\ start[h].resume \in BOOLEAN
  <2>1. start \in [Starter -> StartRecord] /\ h \in Starter
    BY DEF Inv, TypeOK, Starter
  <2>2. start[h] \in StartRecord
    BY <2>1
  <2> QED BY <2>1, <2>2 DEF FollowUpGoesOn, Inv, TypeOK, Named, StartRecord
<1>2. TurnOK(t) /\ Of(h, t) /\ StartOK(h, t)
  BY <1>1 DEF CalmInv, TurnOK, Of
<1>3. /\ runTask[r] = t
      /\ row[t].status \notin {"queued", "running", "waiting"}
      /\ \A q \in Run : runTask[q] = t =>
              /\ q \notin stops
              /\ Live(q) \/ Ending(q) => q = r
              /\ Live(q) => q \in idle /\ q \in dying
  BY <1>1, <1>2 DEF StartOK
<1>4. /\ UNCHANGED <<runTask, latest, sess, idle, dying, stops>>
      /\ runStatus'[r] = "killed"
      /\ \A q \in Run : q # r => runStatus'[q] = runStatus[q]
      /\ FollowUpStarts(h, t, start[h].resume)
  BY <1>1 DEF FollowUpGoesOn
<1>5. \A q \in Starter : Of(q, t) => q = h
  BY <1>1, <1>2 DEF TurnOK
<1> HIDE DEF r
<1>6. CASE CanMove(row, t, FollowUpFrom)
  <2>1. PICK moved \in [Task -> Row], how \in BOOLEAN :
          /\ EnterStart(h, t, how, moved) /\ before' = NotedBefore(t)
          /\ moved[t].status = "running" /\ \A u \in Task : u # t => moved[u] = row[u]
    BY <1>1, <1>6, GoesOnEnters
  <2>2. \A q \in Run : runTask[q] = t =>
            /\ q \notin stops
            /\ Ending(q) => runStatus'[q] = "killed"
            /\ Live(q) => q \in idle /\ q \in dying
    BY <1>3, <1>4
  <2>3. ~Working(row, t)
    BY <1>3 DEF Working
  <2>4. Touches(t)
    BY <1>1, <1>3, <1>4, <2>1, EnterTouches
  <2>5. TurnOK(t)'
    BY <1>1, <1>2, <1>4, <1>5, <2>1, <2>2, <2>3, EnterTurn
  <2> QED BY <2>4, <2>5
<1>7. CASE ~CanMove(row, t, FollowUpFrom)
  <2>1. UNCHANGED <<row, before>> /\ start' = [start EXCEPT ![h] = NotStarting]
    BY <1>4, <1>7 DEF FollowUpStarts, StartOver, store
  <2>2. /\ \A s \in Starter : s # h => start'[s] = start[s]
        /\ start'[h].pc = "off"
    BY <1>1, <2>1 DEF NotStarting
  <2>3. Touches(t)
    BY <1>1, <1>3, <1>4, <2>1, <2>2 DEF Touches, Left
  <2>4. \A s \in Starter : ~Of(s, t)'
    BY <1>5, <2>2 DEF Of
  <2>5. ~Working(row, t)' /\ ~Waiting(row, t)' /\ ~Working(row, t)
    BY <1>3, <2>1 DEF Working, Waiting
  <2>6. \A q \in Run : runTask'[q] = t => RunOK(q, t)'
    BY <1>2, <1>3, <1>4, <2>1, <2>5 DEF TurnOK, RunOK, Live
  <2> QED BY <1>2, <1>4, <2>1, <2>3, <2>4, <2>5, <2>6 DEF TurnOK
<1> QED BY <1>6, <1>7

\* Cancel and Undo start: every session of the task is told to go, and a start
\* in its gate aborted.
LEMMA TakenBack ==
    ASSUME Inv, Patient, CalmInv, NEW t \in Task, Asks(t),
           UNCHANGED <<runTask, latest, sess, idle, stops, before>>,
           KillAll(Killable(t)), AbortGate(t),
           ~Working(row, t)', \A u \in Task : u # t => row'[u] = row[u],
           IF Working(row, t) THEN AtRest(t)' ELSE row' = row /\ row[t].status # "queued"
    PROVE  Touches(t) /\ TurnOK(t)'
<1>1. /\ start \in [Starter -> StartRecord] /\ TurnOK(t)
      /\ runStatus \in [Run -> {"unused", "running", "exited", "killed"}]
  BY DEF Inv, TypeOK, CalmInv
<1>2. /\ \A r \in Run : runTask[r] # t =>
            runStatus'[r] = runStatus[r] /\ (r \in dying' <=> r \in dying)
      /\ \A r \in Run : runTask[r] = t /\ runStatus[r] = "running" =>
            runStatus'[r] = "killed" /\ (Live(r) => r \in dying')
      /\ dying \subseteq dying'
  BY <1>1 DEF KillAll, Killable
<1>3. \A s \in Starter :
        IF start[s].pc = "gate" /\ start[s].task = t
        THEN start'[s].pc = "gate" /\ start'[s].task = t /\ start'[s].abort
        ELSE start'[s] = start[s]
  BY <1>1 DEF AbortGate, StartRecord
<1>4. Touches(t)
  BY <1>2, <1>3 DEF Touches, Left
<1>5. \A s \in Starter : Of(s, t) => start[s].pc = "gate" /\ row[t].status = "running"
  BY <1>1, AskedSettled
<1>6. ASSUME NEW s \in Starter, start'[s].pc # "off", start'[s].task = t
      PROVE  Of(s, t) /\ start'[s].pc = "gate" /\ start'[s].abort /\ AtRest(t)'
  <2>1. Of(s, t)
    BY <1>3, <1>6 DEF Of
  <2> QED BY <1>3, <1>5, <2>1 DEF Of, Working
<1>7. ASSUME NEW r \in Run, runTask[r] = t, Live(r)
      PROVE  r \in dying'
  <2>1. r \in dying \/ runStatus[r] = "running"
    BY <1>1, <1>7 DEF TurnOK, RunOK
  <2> QED BY <1>2, <1>7, <2>1
<1>8. TurnOK(t)'
  <2>1. \A r \in Run : runTask'[r] = t => RunOK(r, t)'
    <3> SUFFICES ASSUME NEW r \in Run, runTask[r] = t, Live(r)
                 PROVE  RunOK(r, t)'
      BY DEF Live, RunOK
    <3>1. RunOK(r, t) /\ r \in dying'
      BY <1>1, <1>7 DEF TurnOK
    <3>2. Working(row, t) => r \notin idle
      BY <3>1 DEF RunOK
    <3> QED BY <3>1, <3>2 DEF RunOK, Live
  <2>2. ASSUME NEW s \in Starter, Of(s, t)'
        PROVE  StartOK(s, t)' /\ Of(s, t)
    <3>1. Of(s, t) /\ start'[s].pc = "gate" /\ start'[s].abort /\ AtRest(t)'
      BY <1>6, <2>2 DEF Of
    <3>2. Quiet(t) /\ \A r \in Run : runTask[r] = t => ~Ending(r)
      BY <1>1, <3>1, AskedSettled
    <3>3. Quiet(t)'
      BY <3>2 DEF Quiet, Live, Ending
    <3> QED BY <3>1, <3>3 DEF StartOK
  <2>3. ~Waiting(row, t)'
    BY DEF AtRest, Waiting
  <2>4. \A s, q \in Starter : Of(s, t)' /\ Of(q, t)' => s = q
    BY <1>1, <2>2 DEF TurnOK
  <2> QED BY <1>1, <2>1, <2>2, <2>3, <2>4 DEF TurnOK
<1> QED BY <1>4, <1>8

\* A decision that moves no start: the task is left at rest, and what lives of
\* it goes on being idle or is told to go.
LEMMA MovedTurn ==
    ASSUME Inv, Patient, CalmInv, NEW t \in Task, Asks(t), \A s \in Starter : ~Of(s, t),
           UNCHANGED <<runTask, latest, sess, idle, stops, before, start>>,
           \A u \in Task : u # t => row'[u] = row[u],
           ~Working(row, t)', Waiting(row, t)' => ~HasLive(t),
           row'[t].status = "queued" => \A r \in idle : runTask[r] = t => ~Live(r),
           \A r \in Run : runTask[r] # t =>
               runStatus'[r] = runStatus[r] /\ (r \in dying' <=> r \in dying),
           \A r \in Run : runTask[r] = t /\ Live(r) =>
               \/ r \in dying'
               \/ ~Working(row, t) /\ runStatus'[r] = runStatus[r] /\ r \notin dying
    PROVE  Touches(t) /\ TurnOK(t)'
<1>1. TurnOK(t)
  BY DEF CalmInv
<1>3. Touches(t)
  BY DEF Touches, Left
<1>4. \A r \in Run : runTask[r] = t /\ Live(r) =>
               /\ r \in idle \/ r \in dying'
               /\ r \notin dying' => runStatus'[r] = "running"
  BY <1>1 DEF TurnOK, RunOK
<1>5. TurnOK(t)'
  BY <1>1, <1>4, DecidedTurn DEF Of
<1> QED BY <1>3, <1>5

\* Cancel.
LEMMA CancelTurn ==
    ASSUME Inv, Patient, CalmInv, NEW t \in Task, Cancel(t)
    PROVE  Touches(t) /\ TurnOK(t)'
<1>1. row \in [Task -> Row] /\ Asks(t) /\ TurnOK(t)
  BY DEF Inv, TypeOK, CalmInv, Cancel
<1>2. UNCHANGED <<runTask, latest, sess, idle, stops, before>>
  BY DEF Cancel
<1>3. CASE row[t].status \in {"draft", "queued"}
  <2>1. /\ row' = Transition(row, t, {"draft", "queued"}, "cancelled")
        /\ UNCHANGED <<start, dying, runStatus>>
    BY <1>3 DEF Cancel
  <2>2. row'[t].status = "cancelled" /\ \A u \in Task : u # t => row'[u] = row[u]
    BY <1>1, <1>3, <2>1, TransitionAt DEF Status
  <2>3. ~Working(row, t) /\ ~Working(row, t)' /\ ~Waiting(row, t)'
    BY <1>3, <2>2 DEF Working, Waiting
  <2>4. \A s \in Starter : ~Of(s, t)
    BY <1>1, <2>3, AskedSettled DEF Working
  <2>5. \A r \in Run : runTask[r] = t /\ Live(r) =>
               \/ r \in dying'
               \/ ~Working(row, t) /\ runStatus'[r] = runStatus[r] /\ r \notin dying
    BY <2>1, <2>3
  <2> QED BY <1>1, <1>2, <2>1, <2>2, <2>3, <2>4, <2>5, MovedTurn
<1>4. CASE row[t].status \notin {"draft", "queued"}
  <2>1. /\ AbortGate(t) /\ KillAll(Killable(t))
        /\ row' = Transition(row, t, {"running", "waiting"}, "cancelled")
    BY <1>4 DEF Cancel
  <2>2. /\ \A u \in Task : u # t => row'[u] = row[u]
        /\ Working(row, t) => row'[t].status = "cancelled"
        /\ ~Working(row, t) => row' = row
    BY <1>1, <2>1, TransitionAt DEF Status, Working
  <2>3. ~Working(row, t)' /\ (Working(row, t) => AtRest(t)')
    BY <2>2 DEF Working, AtRest, Waiting
  <2> QED BY <1>1, <1>2, <1>4, <2>1, <2>2, <2>3, TakenBack
<1> QED BY <1>3, <1>4

\* Undo start.
LEMMA UndoTurn ==
    ASSUME Inv, Patient, CalmInv, NEW t \in Task, UndoStart(t)
    PROVE  Touches(t) /\ TurnOK(t)'
<1>1. row \in [Task -> Row] /\ before \in [Task -> Status] /\ Asks(t) /\ TurnOK(t)
  BY DEF Inv, TypeOK, CalmInv, UndoStart
<1>2. /\ UNCHANGED <<runTask, latest, sess, idle, stops, before>>
      /\ AbortGate(t) /\ KillAll(Killable(t)) /\ Working(row, t)
      /\ row' = [row EXCEPT ![t] = [Moved(row[t], before[t]) EXCEPT
                                      !.held = before[t] = "queued"]]
  BY DEF UndoStart
<1>3. /\ \A u \in Task : u # t => row'[u] = row[u]
      /\ row'[t].status = before[t]
      /\ before[t] = "queued" => row'[t].held
  <2>1. PICK held \in BOOLEAN : held = (before[t] = "queued")
    OBVIOUS
  <2>2. /\ [Moved(row[t], before[t]) EXCEPT !.held = held].status = before[t]
        /\ [Moved(row[t], before[t]) EXCEPT !.held = held].held = held
    BY <1>1 DEF Moved, Row
  <2> QED BY <1>1, <1>2, <2>1, <2>2
<1>4. ~Working(row, t)' /\ AtRest(t)'
  BY <1>1, <1>3 DEF TurnOK, Working, AtRest, Waiting
<1> QED BY <1>1, <1>2, <1>3, <1>4, TakenBack

\* Killing a terminal takes back the turn that works in it.
LEMMA KillTurn ==
    ASSUME Inv, SlotInv, Patient, CalmInv, NEW r \in Run, NEW t \in Task, runTask[r] = t,
           KillRun(r)
    PROVE  Touches(t) /\ TurnOK(t)'
<1>1. /\ row \in [Task -> Row] /\ Asks(t) /\ TurnOK(t)
      /\ runStatus \in [Run -> {"unused", "running", "exited", "killed"}]
  BY DEF Inv, TypeOK, CalmInv, KillRun
<1>2. /\ UNCHANGED <<runTask, latest, sess, idle, stops, before, start>>
      /\ KillAll({r}) /\ Live(r)
      /\ row' = Transition(row, t, {"running", "waiting"}, "cancelled")
  BY DEF KillRun
<1>3. /\ \A u \in Task : u # t => row'[u] = row[u]
      /\ Working(row, t) => row'[t].status = "cancelled"
      /\ ~Working(row, t) => row' = row
  BY <1>1, <1>2, TransitionAt DEF Status, Working
<1>4. \A s \in Starter : ~Of(s, t)
  <2>1. CASE Working(row, t)
    BY <1>1, <1>2, <2>1, NoStart
  <2>2. CASE ~Working(row, t)
    BY <1>1, <2>2, AskedSettled DEF Working
  <2> QED BY <2>1, <2>2
<1>5. r \in dying' /\ \A q \in Run : runTask[q] = t /\ Live(q) => q = r
  BY <1>1, <1>2 DEF KillAll, TurnOK, RunOK
<1>6. \A q \in Run : runTask[q] # t => runStatus'[q] = runStatus[q] /\ (q \in dying' <=> q \in dying)
  BY <1>2 DEF KillAll
<1>7. ~Working(row, t)' /\ (row'[t].status = "queued" => row' = row)
  BY <1>3 DEF Working
<1>8. /\ Waiting(row, t)' => ~HasLive(t)
      /\ row'[t].status = "queued" => \A q \in idle : runTask[q] = t => ~Live(q)
  <2>1. Waiting(row, t) => ~HasLive(t)
    BY <1>1 DEF TurnOK, Quiet, HasLive
  <2>2. row[t].status = "queued" => \A q \in idle : runTask[q] = t => ~Live(q)
    BY <1>1 DEF TurnOK, RunOK, Inv, TypeOK
  <2> QED BY <1>7, <2>1, <2>2 DEF Waiting
<1> QED BY <1>1, <1>2, <1>3, <1>4, <1>5, <1>6, <1>7, <1>8, MovedTurn

\* Mark done, and the ways into and out of the queues.
LEMMA QueueTurn ==
    ASSUME Inv, Patient, CalmInv, NEW t \in Task,
           Complete(t) \/ QueueAdd(t) \/ Enqueue(t) \/ QueueRemove(t)
    PROVE  Touches(t) /\ TurnOK(t)'
<1>1. /\ row \in [Task -> Row] /\ Asks(t) /\ TurnOK(t) /\ idle \subseteq Run
      /\ runStatus \in [Run -> {"unused", "running", "exited", "killed"}]
  BY DEF Inv, TypeOK, CalmInv, Complete, QueueAdd, Enqueue, QueueRemove
<1>2. UNCHANGED <<runTask, latest, sess, idle, stops, before, start>>
  BY DEF Complete, QueueAdd, Enqueue, QueueRemove, sessions
<1>3. ~Working(row, t) => \A s \in Starter : ~Of(s, t)
  BY <1>1, AskedSettled DEF Working
<1>4. CASE Complete(t)
  <2>1. /\ row[t].status = "review" /\ row' = Transition(row, t, {"review"}, "done")
        /\ KillAll({r \in Run : runTask[r] = t /\ Live(r)})
    BY <1>4 DEF Complete
  <2>2. row'[t].status = "done" /\ \A u \in Task : u # t => row'[u] = row[u]
    BY <1>1, <2>1, TransitionAt DEF Status
  <2>3. ~Working(row, t) /\ ~Working(row, t)' /\ ~Waiting(row, t)'
    BY <2>1, <2>2 DEF Working, Waiting
  <2>4. /\ \A r \in Run : runTask[r] # t =>
               runStatus'[r] = runStatus[r] /\ (r \in dying' <=> r \in dying)
        /\ \A r \in Run : runTask[r] = t /\ Live(r) => r \in dying'
    BY <2>1 DEF KillAll
  <2> QED BY <1>1, <1>2, <1>3, <2>2, <2>3, <2>4, MovedTurn
<1>5. ASSUME UNCHANGED <<runStatus, dying>>, ~Working(row, t), ~HasLive(t), ~Working(row, t)',
             \A u \in Task : u # t => row'[u] = row[u]
      PROVE  Touches(t) /\ TurnOK(t)'
  <2>1. \A r \in Run : runTask[r] = t => ~Live(r)
    BY <1>5 DEF HasLive
  <2> QED BY <1>1, <1>2, <1>3, <1>5, <2>1, MovedTurn
<1>6. ASSUME NEW table \in [Task -> Row], table[t].status = row[t].status,
             \A u \in Task : u # t => table[u] = row[u],
             NEW from \in SUBSET Status, NEW open \in BOOLEAN,
             \/ row' = Transition(table, t, from, "queued")
             \/ row' = TransitionVerify(table, t, from, "queued", open),
             UNCHANGED <<runStatus, dying>>, ~Working(row, t), ~HasLive(t)
      PROVE  Touches(t) /\ TurnOK(t)'
  <2>1. row'[t].status \in {"queued", row[t].status}
    <3>1. "queued" \in Status
      BY DEF Status
    <3>2. CASE row' = Transition(table, t, from, "queued")
      BY <1>6, <3>1, <3>2, TransitionAt
    <3>3. CASE row' = TransitionVerify(table, t, from, "queued", open)
      BY <1>6, <3>1, <3>3, TransitionVerifyAt
    <3> QED BY <1>6, <3>2, <3>3
  <2>2. \A u \in Task : u # t => row'[u] = row[u]
    BY <1>6 DEF Transition, TransitionVerify
  <2>3. ~Working(row, t)'
    BY <1>6, <2>1 DEF Working
  <2> QED BY <1>5, <1>6, <2>2, <2>3
<1>7. EnqueueFrom \in SUBSET Status
  BY DEF EnqueueFrom, Status
<1>8. CASE QueueAdd(t)
  <2>1. UNCHANGED <<runStatus, dying>> /\ ~Working(row, t) /\ ~HasLive(t)
    BY <1>8 DEF QueueAdd, sessions, EnqueueFrom, Working
  <2>2. CASE row' = [row EXCEPT ![t].held = FALSE]
    <3>1. row'[t].status = row[t].status /\ \A u \in Task : u # t => row'[u] = row[u]
      BY <1>1, <2>2 DEF Row
    <3> QED BY <1>5, <2>1, <3>1 DEF Working
  <2>3. CASE row' = Transition([row EXCEPT ![t].mark = Behind, ![t].held = FALSE],
                               t, EnqueueFrom, "queued")
    <3> DEFINE table == [row EXCEPT ![t].mark = Behind, ![t].held = FALSE]
    <3>1. Behind \in Nat
      BY TaskAssumption, FS_CardinalityType, LimitsAssumption DEF Behind, Inv, TypeOK
    <3>2. /\ table \in [Task -> Row] /\ table[t].status = row[t].status
          /\ \A u \in Task : u # t => table[u] = row[u]
      BY <1>1, <3>1 DEF Row
    <3> HIDE DEF table
    <3>3. PICK open \in BOOLEAN : TRUE
      OBVIOUS
    <3>4. row' = Transition(table, t, EnqueueFrom, "queued")
      BY <2>3 DEF table
    <3> QED BY <1>6, <1>7, <2>1, <3>2, <3>3, <3>4
  <2> QED BY <1>8, <2>2, <2>3 DEF QueueAdd
<1>9. CASE Enqueue(t)
  <2>1. UNCHANGED <<runStatus, dying>> /\ ~Working(row, t) /\ ~HasLive(t)
    BY <1>9 DEF Enqueue, sessions, EnqueueFrom, Working
  <2> DEFINE table == [row EXCEPT ![t].mark = 0, ![t].held = FALSE]
  <2>2. PICK open \in {row[t].verify, FALSE} :
          row' = TransitionVerify(table, t, EnqueueFrom, "queued", open)
    BY <1>9 DEF Enqueue
  <2>3. open \in BOOLEAN
    BY <1>1, <2>2 DEF Row
  <2>4. /\ table \in [Task -> Row] /\ table[t].status = row[t].status
        /\ \A u \in Task : u # t => table[u] = row[u]
    BY <1>1 DEF Row
  <2> HIDE DEF table
  <2> QED BY <1>6, <1>7, <2>1, <2>2, <2>3, <2>4
<1>10. CASE QueueRemove(t)
  <2>1. UNCHANGED <<runStatus, dying>>
    BY <1>10 DEF QueueRemove, sessions
  <2> DEFINE table == [row EXCEPT ![t].mark = 0]
  <2>2. row' = Transition(table, t, {"queued"}, "cancelled")
    BY <1>10 DEF QueueRemove
  <2>3. /\ table \in [Task -> Row] /\ table[t].status = row[t].status
        /\ table[t].held = row[t].held
        /\ \A u \in Task : u # t => table[u] = row[u]
    BY <1>1 DEF Row
  <2> HIDE DEF table
  <2>4. \A u \in Task : u # t => row'[u] = row[u]
    BY <2>2, <2>3 DEF Transition
  <2>5. CASE row[t].status = "queued"
    <3>1. row'[t].status = "cancelled"
      BY <2>2, <2>3, <2>5, TransitionAt DEF Status
    <3>2. ~Working(row, t) /\ ~Working(row, t)' /\ ~Waiting(row, t)'
      BY <2>5, <3>1 DEF Working, Waiting
    <3>3. \A r \in Run : runTask[r] = t /\ Live(r) =>
               \/ r \in dying'
               \/ ~Working(row, t) /\ runStatus'[r] = runStatus[r] /\ r \notin dying
      BY <2>1, <3>2
    <3> QED BY <1>1, <1>2, <1>3, <2>1, <2>4, <3>1, <3>2, <3>3, MovedTurn
  <2>6. CASE row[t].status # "queued"
    <3>1. row' = table
      BY <2>2, <2>3, <2>6 DEF Transition, CanMove
    <3>2. \A u \in Task : row'[u].status = row[u].status /\ row'[u].held = row[u].held
      BY <2>3, <3>1
    <3>3. \A u \in Task : Left(u)
      BY <1>2, <2>1, <3>2 DEF Left
    <3> QED BY <1>1, <3>3, TurnLeft DEF Touches
  <2> QED BY <2>5, <2>6
<1> QED BY <1>4, <1>8, <1>9, <1>10

\* A prompt into the idle terminal: the same session begins the next turn.
LEMMA PromptTurn ==
    ASSUME Inv, Patient, CalmInv, NEW r \in Run, NEW t \in Task, runTask[r] = t,
           Prompt(r), Asks(t)
    PROVE  Touches(t) /\ TurnOK(t)'
<1>1. row \in [Task -> Row] /\ before \in [Task -> Status] /\ TurnOK(t)
  BY DEF Inv, TypeOK, CalmInv
<1>2. /\ UNCHANGED <<runTask, runStatus, latest, sess, dying, start, stops>>
      /\ Live(r) /\ r \notin dying /\ runStatus[r] = "running" /\ latest[t] = r
      /\ row[t].status = "review" /\ row' = Transition(row, t, {"review"}, "running")
      /\ before' = NotedBefore(t) /\ idle' = idle \ {r}
  BY DEF Prompt
<1>3. row'[t].status = "running" /\ \A u \in Task : u # t => row'[u] = row[u]
  BY <1>1, <1>2, TransitionAt DEF Status
<1>4. before'[t] = "review" /\ \A u \in Task : u # t => before'[u] = before[u]
  BY <1>1, <1>2 DEF NotedBefore, Working
<1>5. \A s \in Starter : ~Of(s, t)' /\ ~Of(s, t)
  BY <1>1, <1>2, AskedSettled DEF Of
<1>6. Touches(t)
  BY <1>2, <1>3, <1>4 DEF Touches, Left
<1>7. TurnOK(t)'
  <2>1. \A q \in Run : runTask'[q] = t => RunOK(q, t)'
    BY <1>1, <1>2, <1>3 DEF TurnOK, RunOK, Live, Working
  <2>2. NewestDecides(t)' /\ ~Waiting(row, t)'
    BY <1>2, <1>3, NoRunAssumption DEF NewestDecides, AtWork, Live, Waiting
  <2>3. latest'[t] # NoRun => latest'[t] \in Run /\ runTask'[latest'[t]] = t
    BY <1>2
  <2> QED BY <1>4, <1>5, <2>1, <2>2, <2>3 DEF TurnOK
<1> QED BY <1>6, <1>7

\* A restart leaves no task in a turn.
LEMMA RestartTurn ==
    ASSUME Inv, CalmInv, Restart
    PROVE  CalmInv'
<1>1. /\ row \in [Task -> Row]
      /\ sess \in [Run -> {"none", "live", "evicted", "settling", "gone"}]
  BY DEF Inv, TypeOK
<1>2. /\ UNCHANGED <<before, runTask, latest>> /\ stops' = {}
      /\ \A r \in Run : sess'[r] \in {"none", "gone"}
      /\ \A s \in Starter : start'[s].pc = "off"
  BY <1>1 DEF Restart, NotStarting
<1>3. ASSUME NEW t \in Task
      PROVE  ~Working(row, t)'
  <2>1. PICK again \in SUBSET Task :
          row' = [u \in Task |-> [Booted(u) EXCEPT !.verify = u \in again]]
    BY DEF Restart
  <2> DEFINE open == t \in again
  <2>2. open \in BOOLEAN
    OBVIOUS
  <2>3. row'[t] = [Booted(t) EXCEPT !.verify = open]
    BY <2>1
  <2> HIDE DEF open
  <2>4. Booted(t) \in Row /\ Booted(t).status \notin {"running", "waiting"}
    BY <1>1 DEF Booted, Moved, Row, Status, Working
  <2> QED BY <2>2, <2>3, <2>4 DEF Working, Row
<1>4. ASSUME NEW t \in Task
      PROVE  TurnOK(t)'
  <2>1. TurnOK(t)
    BY DEF CalmInv
  <2>2. \A s \in Starter : ~Of(s, t)'
    BY <1>2 DEF Of
  <2>3. Quiet(t)' /\ \A r \in Run : RunOK(r, t)'
    BY <1>2 DEF Quiet, RunOK, Live, Ending
  <2> QED BY <1>2, <1>3, <2>1, <2>2, <2>3 DEF TurnOK
<1> QED BY <1>4 DEF CalmInv

\* Every other step is about one task at most, and keeps its turn in order.
LEMMA StepTouches ==
    ASSUME Inv, SlotInv, Patient, CalmInv, [Next]_vars, ~Restart
    PROVE  \/ \A t \in Task : Left(t)
           \/ \E t \in Task : Touches(t) /\ TurnOK(t)'
<1>1. CASE UNCHANGED vars
  BY <1>1, LeavesAll DEF vars, store, sessions
<1>2. CASE SchedulerStep
  BY <1>2, PassTouches
<1>3. CASE Tick
  BY <1>3, LeavesAll DEF Tick, store, sessions
<1>4. ASSUME NEW s \in Starter, StartStep(s)
      PROVE  \E t \in Task : Touches(t) /\ TurnOK(t)'
  <2>1. start[s].pc # "off"
    BY <1>4 DEF StartStep, GateAborted, GatePassed, CreateRun, Spawn, SpawnFails
  <2>2. PICK t \in Task : start[s].task = t
    BY <2>1 DEF Inv, Named
  <2> QED BY <1>4, <2>2, GateTurn, CreateTurn, SpawnTurn DEF StartStep
<1>5. ASSUME NEW r \in Run, AgentStep(r) \/ TerminalStep(r)
      PROVE  \E t \in Task : Touches(t) /\ TurnOK(t)'
  <2>1. sess[r] # "none"
    BY <1>5 DEF AgentStep, TerminalStep, StopArrives, StopIgnored, StopParks, StopLands, Dispose,
       Exits, ExitSettles, Prompt, KillRun, AtWork, Live, SlotInv, RunsFresh
  <2>2. PICK t \in Task : runTask[r] = t
    BY <2>1 DEF Inv, Named
  <2>3. CASE AgentStep(r)
    BY <2>2, <2>3, StopTurn, ExitTurn, SettleTurn DEF AgentStep
  <2>4. CASE TerminalStep(r)
    BY <2>2, <2>4, PromptTurn, KillTurn DEF TerminalStep
  <2> QED BY <1>5, <2>3, <2>4
<1>6. ASSUME NEW h \in Human, NEW t \in Task, RequestStep(h, t)
      PROVE  \E u \in Task : Touches(u) /\ TurnOK(u)'
  <2>1. ASSUME FollowUpGoesOn(h)
        PROVE  \E u \in Task : Touches(u) /\ TurnOK(u)'
    <3>1. PICK u \in Task : start[h].task = u
      BY <2>1 DEF FollowUpGoesOn, Inv, Named, Starter
    <3> QED BY <2>1, <3>1, GoesOnTurn
  <2>2. PICK no \in BOOLEAN : TRUE
    OBVIOUS
  <2> QED BY <1>6, <2>1, <2>2, RunTurn, KillsTurn DEF RequestStep
<1>7. ASSUME NEW t \in Task, TaskStep(t)
      PROVE  \/ \A u \in Task : Left(u)
             \/ Touches(t) /\ TurnOK(t)'
  <2>1. CASE ReviewEnds(t)
    <3>1. /\ \A u \in Task : row'[u].status = row[u].status /\ row'[u].held = row[u].held
          /\ UNCHANGED <<before, sessions, start, stops>>
      BY <2>1 DEF ReviewEnds, Inv, TypeOK, Row
    <3> QED BY <3>1 DEF Left, sessions
  <2> QED BY <1>7, <2>1, WaitTurn, CancelTurn, UndoTurn, QueueTurn DEF TaskStep
<1> QED BY <1>1, <1>2, <1>3, <1>4, <1>5, <1>6, <1>7 DEF Next, EventStep

\* Every step of patient humans keeps every turn in order.
LEMMA CalmStep ==
    ASSUME Inv, SlotInv, Patient, CalmInv, [Next]_vars
    PROVE  CalmInv'
<1>1. CASE Restart
  BY <1>1, RestartTurn
<1>2. CASE ~Restart
  BY <1>2, StepTouches, AllCalm, TouchedCalm
<1> QED BY <1>1, <1>2

\* It begins with no turn at all.
LEMMA CalmInit == Init => CalmInv
<1> SUFFICES ASSUME Init, NEW t \in Task PROVE TurnOK(t)
  BY DEF CalmInv
<1>1. row[t].status \in {"draft", "queued"}
  BY DEF Init, NewRow
<1>2. /\ \A r \in Run : sess[r] = "none" /\ r \notin stops
      /\ \A s \in Starter : start[s].pc = "off"
      /\ latest[t] = NoRun /\ before[t] = "queued"
  BY DEF Init, NotStarting
<1>3. Quiet(t) /\ \A r \in Run : RunOK(r, t)
  BY <1>2 DEF Quiet, RunOK, Live, Ending
<1> QED BY <1>1, <1>2, <1>3 DEF TurnOK, Of, Working

\* The invariant of the turns.
THEOREM Calm == ASSUME Patient PROVE Spec => [](Inv /\ SlotInv /\ CalmInv)
<1>1. Init => SlotInv /\ CalmInv
  BY SlotInit, CalmInit
<1>2. Inv /\ SlotInv /\ CalmInv /\ [Next]_vars => SlotInv' /\ CalmInv'
  BY SlotStep, CalmStep
<1> QED BY <1>1, <1>2, Invariance, PTL DEF Spec

\* A task that reads running or waiting is never stranded: a start of it is in
\* flight or its newest run still settles it, for any number of tasks, runs,
\* callers and restarts, as long as nobody acts on it between two states of
\* its turn.
THEOREM NeverStranded == ASSUME Patient PROVE Spec => []Driven
<1>1. CalmInv => Driven
  BY DEF CalmInv, TurnOK, Driven
<1> QED BY <1>1, Calm, PTL

\* No agent works for a task that is not in a turn.
THEOREM NoStray == ASSUME Patient PROVE Spec => []NoStrayAgent
<1>1. Inv /\ CalmInv => NoStrayAgent
  <2> SUFFICES ASSUME Inv, CalmInv, NEW r \in Run, Agent(r)
               PROVE  Working(row, runTask[r])
    BY DEF NoStrayAgent
  <2>1. PICK t \in Task : runTask[r] = t
    BY DEF Agent, AtWork, Live, Inv, Named
  <2> QED BY <2>1 DEF CalmInv, TurnOK, RunOK, Agent, AtWork
<1> QED BY <1>1, Calm, PTL

\* No agent starts on a task another one still works for.
THEOREM OneAgent == ASSUME Patient PROVE Spec => []OneAgentPerTask
<1>1. Inv /\ CalmInv => OneAgentPerTask
  <2> SUFFICES ASSUME Inv, CalmInv, NEW r \in Run, NEW q \in Run, AtWork(r), AtWork(q),
                      runTask[r] = runTask[q]
               PROVE  r = q
    BY DEF OneAgentPerTask
  <2>1. PICK t \in Task : runTask[r] = t /\ runTask[q] = t
    BY DEF AtWork, Live, Inv, Named
  <2> QED BY <2>1 DEF CalmInv, TurnOK, RunOK, AtWork
<1> QED BY <1>1, Calm, PTL

\* A start that is past its re-check has its task to itself: no Stop or exit of
\* an earlier run, nor anything else, ends what it began.
THEOREM StartsKept == ASSUME Patient PROVE Spec => StartNotUndone
<1>1. Inv /\ CalmInv' /\ [Next]_vars =>
        [\A s \in Starter : LET t == start[s].task IN
          (/\ start[s].pc \in {"base", "row"} /\ start'[s] = start[s]
           /\ row[t].status = "running")
          => row'[t].status \notin {"review", "failed"}]_vars
  <2> SUFFICES ASSUME Inv, CalmInv', NEW s \in Starter,
                      start[s].pc \in {"base", "row"}, start'[s] = start[s]
               PROVE  row'[start[s].task].status \notin {"review", "failed"}
    OBVIOUS
  <2>1. PICK t \in Task : start[s].task = t
    BY DEF Inv, Named
  <2>2. Of(s, t)' /\ TurnOK(t)'
    BY <2>1 DEF Of, CalmInv
  <2> QED BY <2>1, <2>2 DEF TurnOK, StartOK
<1> QED BY <1>1, Calm, PTL DEF Spec, StartNotUndone

---------------------------------------------------------------------------
(* One checkout, one turn that nobody asked for *)

AutoAgents == {r \in auto : Agent(r)}

\* No such turn works in the repository.
Clear(g) == \A r \in AutoAgents : RepoOf[runTask[r]] # g

\* The repository of the claim under way is clear.
CheckoutInv ==
    /\ start[Sched].pc # "off" => Clear(RepoOf[start[Sched].task])
    /\ sched.pc = "handoff" => Clear(RepoOf[sched.head])
    /\ OneAutoAgentPerRepo

\* Only the scheduler's own start adds a turn nobody asked for.
LEMMA FewerAgents ==
    ASSUME Inv, SlotInv, EventStep, ~Spawn(Sched)
    PROVE  \A r \in AutoAgents' : r \in AutoAgents /\ runTask'[r] = runTask[r]
<1>1. /\ sess \in [Run -> {"none", "live", "evicted", "settling", "gone"}]
      /\ auto \subseteq Run /\ runTask \in [Run -> Task \cup {NoTask}]
      /\ start \in [Starter -> StartRecord]
  BY DEF Inv, TypeOK
<1>2. ASSUME UNCHANGED <<runTask, auto>>, dying \subseteq dying', idle \subseteq idle',
             \A r \in auto : sess'[r] = "live" => sess[r] = "live"
      PROVE  \A r \in AutoAgents' : r \in AutoAgents /\ runTask'[r] = runTask[r]
  BY <1>2 DEF AutoAgents, Agent, AtWork, Live
<1>3. CASE Restart
  BY <1>3, <1>1 DEF Restart, AutoAgents, Agent, AtWork, Live
<1>4. CASE Tick
  BY <1>2, <1>4 DEF Tick, sessions
<1>5. ASSUME NEW s \in Starter, StartStep(s)
      PROVE  \A r \in AutoAgents' : r \in AutoAgents /\ runTask'[r] = runTask[r]
  <2>1. CASE GateAborted(s) \/ GatePassed(s)
    BY <1>2, <2>1 DEF GateAborted, GatePassed, sessions
  <2>2. CASE CreateRun(s)
    <3>1. PICK r \in Run : /\ runStatus[r] = "unused"
                           /\ runTask' = [runTask EXCEPT ![r] = start[s].task]
                           /\ auto' \subseteq auto \cup {r}
      BY <2>2 DEF CreateRun
    <3>2. sess[r] = "none" /\ UNCHANGED <<sess, idle, dying>>
      BY <2>2, <3>1 DEF CreateRun, SlotInv, RunsFresh
    <3> QED BY <1>1, <3>1, <3>2 DEF AutoAgents, Agent, AtWork, Live
  <2>3. CASE SpawnFails(s)
    BY <1>2, <2>3 DEF SpawnFails
  <2>4. CASE Spawn(s)
    <3>1. start[s].pc = "row" /\ start[s].run \notin auto
      BY <1>5, <2>4 DEF Spawn, SlotInv, OwnRun
    <3>2. \A r \in auto : sess'[r] = "live" => sess[r] = "live"
      BY <1>1, <2>4, <3>1 DEF Spawn
    <3> QED BY <1>2, <2>4, <3>2 DEF Spawn
  <2> QED BY <1>5, <2>1, <2>2, <2>3, <2>4 DEF StartStep
<1>6. ASSUME NEW r \in Run, AgentStep(r)
      PROVE  \A q \in AutoAgents' : q \in AutoAgents /\ runTask'[q] = runTask[q]
  <2>1. CASE Exits(r)
    BY <1>1, <2>1 DEF Exits, AutoAgents, Agent, AtWork, Live
  <2>2. CASE ~Exits(r)
    <3>1. /\ UNCHANGED <<runTask, auto, dying>> /\ idle \subseteq idle'
          /\ \A q \in auto : sess'[q] = "live" => sess[q] = "live"
      BY <1>1, <1>6, <2>2 DEF AgentStep, StopArrives, StopIgnored, StopParks, StopLands, Dispose,
         ExitSettles, sessions
    <3> QED BY <1>2, <3>1
  <2> QED BY <2>1, <2>2
<1>7. ASSUME NEW r \in Run, TerminalStep(r)
      PROVE  \A q \in AutoAgents' : q \in AutoAgents /\ runTask'[q] = runTask[q]
  <2>1. CASE Prompt(r)
    BY <2>1 DEF Prompt, AutoAgents, Agent, AtWork, Live
  <2>2. CASE KillRun(r)
    BY <1>2, <2>2 DEF KillRun, KillAll
  <2> QED BY <1>7, <2>1, <2>2 DEF TerminalStep
<1>8. ASSUME NEW h \in Human, NEW t \in Task, RequestStep(h, t)
      PROVE  \A r \in AutoAgents' : r \in AutoAgents /\ runTask'[r] = runTask[r]
  <2>1. UNCHANGED <<runTask, auto, sess, idle>> /\ dying \subseteq dying'
    BY <1>8 DEF RequestStep, RunNow, FollowUp, FollowUpKills, FollowUpGoesOn, sessions
  <2> QED BY <1>2, <2>1
<1>9. ASSUME NEW t \in Task, TaskStep(t)
      PROVE  \A r \in AutoAgents' : r \in AutoAgents /\ runTask'[r] = runTask[r]
  <2>1. UNCHANGED <<runTask, auto, sess, idle>> /\ dying \subseteq dying'
    BY <1>9 DEF TaskStep, WaitEnds, ReviewEnds, Cancel, UndoStart, Complete, QueueAdd, Enqueue,
       QueueRemove, KillAll, sessions
  <2> QED BY <1>2, <2>1
<1> QED BY <1>3, <1>4, <1>5, <1>6, <1>7, <1>8, <1>9 DEF EventStep

\* Between its own steps the scheduler's claim stays the same, or ends.
LEMMA SameClaim ==
    ASSUME Inv, SlotInv, EventStep
    PROVE  /\ start'[Sched].pc # "off" =>
                start[Sched].pc # "off" /\ start'[Sched].task = start[Sched].task
           /\ sched'.pc = "handoff" => sched.pc = "handoff" /\ sched'.head = sched.head
<1>1. /\ start \in [Starter -> StartRecord] /\ Sched \in Starter /\ sched \in SchedRecord
      /\ \A h \in Human : h # Sched /\ h \in Starter
  BY SchedAssumption DEF Inv, TypeOK, Starter
<1>2. Woken(sched).pc = "handoff" => sched.pc = "handoff" /\ Woken(sched).head = sched.head
  BY <1>1 DEF Woken, SchedRecord
<1>3. CASE Restart
  BY <1>1, <1>3 DEF Restart, NotStarting, Woken, Asleep
<1>4. CASE Tick
  BY <1>2, <1>4 DEF Tick, Wake
<1>5. ASSUME NEW s \in Starter, StartStep(s)
      PROVE  /\ start'[Sched].pc # "off" =>
                  start[Sched].pc # "off" /\ start'[Sched].task = start[Sched].task
             /\ sched'.pc = "handoff" => sched.pc = "handoff" /\ sched'.head = sched.head
  <2>1. start[s].pc # "off" /\ (sched' = sched \/ sched'.pc # "handoff")
    BY <1>1, <1>5 DEF StartStep, GateAborted, GatePassed, CreateRun, Spawn, SpawnFails, Answered,
       SchedRecord
  <2>2. \/ start' = [start EXCEPT ![s] = NotStarting]
        \/ start' = [start EXCEPT ![s].pc = "base"]
        \/ \E r \in Run : start' = [start EXCEPT ![s].pc = "row", ![s].run = r]
    BY <1>5 DEF StartStep, GateAborted, GatePassed, CreateRun, Spawn, SpawnFails, StartOver
  <2>3. start'[s].pc # "off" => start'[s].task = start[s].task
    BY <1>1, <2>2 DEF NotStarting, StartRecord
  <2>4. \A q \in Starter : q # s => start'[q] = start[q]
    BY <1>1, <2>2
  <2> QED BY <1>1, <2>1, <2>3, <2>4
<1>6. ASSUME NEW r \in Run, AgentStep(r) \/ TerminalStep(r)
      PROVE  UNCHANGED start /\ (sched' = sched \/ sched' = Woken(sched))
  BY <1>6 DEF AgentStep, TerminalStep, StopArrives, StopIgnored, StopParks, StopLands, Dispose,
     Exits, ExitSettles, Prompt, KillRun, Wake
<1>7. ASSUME NEW h \in Human, NEW t \in Task, RequestStep(h, t)
      PROVE  UNCHANGED sched /\ start'[Sched] = start[Sched]
  BY <1>1, <1>7 DEF RequestStep, RunNow, FollowUp, FollowUpKills, FollowUpGoesOn, FollowUpStarts,
     EnterStart, StartOver
<1>8. ASSUME NEW t \in Task, TaskStep(t)
      PROVE  /\ start'[Sched].pc = start[Sched].pc /\ start'[Sched].task = start[Sched].task
             /\ sched' = sched \/ sched' = Woken(sched)
  <2>1. start' = start \/ AbortGate(t)
    BY <1>8 DEF TaskStep, WaitEnds, ReviewEnds, Cancel, UndoStart, Complete, QueueAdd, Enqueue,
       QueueRemove
  <2>2. sched' = sched \/ sched' = Woken(sched)
    BY <1>8 DEF TaskStep, WaitEnds, ReviewEnds, Cancel, UndoStart, Complete, QueueAdd, Enqueue,
       QueueRemove, Wake
  <2> QED BY <1>1, <2>1, <2>2 DEF AbortGate, StartRecord
<1> QED BY <1>2, <1>3, <1>4, <1>5, <1>6, <1>7, <1>8 DEF EventStep

\* A task whose repository the claims find free has no such turn beside it: an
\* agent that works has a running row, and its task reads so.
LEMMA ClaimClear ==
    ASSUME Inv, CalmInv, NEW t \in Task, Waiting(row, t),
           \/ ~RepoBusy(t)
           \/ \A u \in Task : SameRepo(t, u) => ~Working(row, u)
    PROVE  Clear(RepoOf[t])
<1> SUFFICES ASSUME NEW r \in AutoAgents, RepoOf[runTask[r]] = RepoOf[t]
             PROVE  FALSE
  BY DEF Clear
<1>1. r \in Run /\ Agent(r)
  BY DEF AutoAgents, Inv, TypeOK
<1>2. PICK u \in Task : runTask[r] = u
  BY <1>1 DEF Agent, AtWork, Live, Inv, Named
<1>3. RunOK(r, u) /\ (Waiting(row, u) => Quiet(u))
  BY <1>1, <1>2 DEF CalmInv, TurnOK
<1>4. Working(row, u) /\ runStatus[r] = "running"
  BY <1>1, <1>3 DEF RunOK, Agent, AtWork
<1>5. u # t
  BY <1>4 DEF Working, Waiting
<1> QED BY <1>1, <1>2, <1>4, <1>5 DEF RepoBusy, SameRepo, Agent

\* The checkouts are kept while no turn is added and the claim stays as it is.
LEMMA CheckoutFrame ==
    ASSUME CheckoutInv, \A r \in AutoAgents' : r \in AutoAgents /\ runTask'[r] = runTask[r],
           start'[Sched].pc # "off" =>
               start[Sched].pc # "off" /\ start'[Sched].task = start[Sched].task,
           sched'.pc = "handoff" => sched.pc = "handoff" /\ sched'.head = sched.head
    PROVE  CheckoutInv'
BY DEF CheckoutInv, Clear, OneAutoAgentPerRepo, AutoAgents

\* The pass claims only in a repository that is clear.
LEMMA PassCheckout ==
    ASSUME Inv, SlotInv, CalmInv, CheckoutInv, SchedulerStep
    PROVE  CheckoutInv'
<1>1. /\ start[Sched].pc = "off" /\ UNCHANGED <<sessions>>
      /\ start \in [Starter -> StartRecord] /\ Sched \in Starter /\ sched \in SchedRecord
  BY DEF SchedulerStep, PassBegins, PumpLooks, PumpClaims, BaseClaims, PassEnds, PassReturns,
         SlotInv, PassBusy, Inv, TypeOK, Starter
<1>2. UNCHANGED runTask /\ AutoAgents' = AutoAgents
  BY <1>1 DEF sessions, AutoAgents, Agent, AtWork, Live
<1>3. ASSUME UNCHANGED start, sched'.pc # "handoff"
      PROVE  CheckoutInv'
  BY <1>1, <1>2, <1>3, CheckoutFrame
<1>4. CASE PassBegins \/ PassEnds \/ PassReturns
  BY <1>1, <1>3, <1>4 DEF PassBegins, PassEnds, PassReturns, Asleep, SchedRecord
<1>5. CASE PumpLooks
  <2> DEFINE heads == CustomHead(row, sched.skip)
             t == CHOOSE t \in heads : TRUE
  <2>1. CASE /\ ActiveWorkers < Cap /\ Cardinality(LiveRuns) < MaxLive /\ heads # {}
             /\ ~RepoBusy(t)
    <3>1. t \in Task /\ Waiting(row, t)
      BY <2>1 DEF CustomHead, CustomEligible
    <3>2. sched'.pc = "handoff" => sched'.head = t
      BY <1>1, <1>5, <2>1 DEF PumpLooks, SchedRecord
    <3> HIDE DEF t, heads
    <3>3. Clear(RepoOf[t])
      BY <2>1, <3>1, ClaimClear
    <3>4. start' = start
      BY <1>5 DEF PumpLooks
    <3> QED BY <1>1, <1>2, <3>2, <3>3, <3>4 DEF CheckoutInv, Clear, OneAutoAgentPerRepo, AutoAgents
  <2>2. CASE ~(/\ ActiveWorkers < Cap /\ Cardinality(LiveRuns) < MaxLive /\ heads # {}
               /\ ~RepoBusy(t))
    <3>1. UNCHANGED start /\ sched'.pc # "handoff"
      BY <1>1, <1>5, <2>2, AfterPumpType DEF PumpLooks, SchedRecord
    <3> QED BY <1>3, <3>1
  <2> QED BY <2>1, <2>2
<1>6. ASSUME NEW t \in Task, NEW moved, EnterStart(Sched, t, FALSE, moved),
             Clear(RepoOf[t]), sched'.pc # "handoff"
      PROVE  CheckoutInv'
  <2>1. start'[Sched].pc # "off" => start'[Sched].task = t
    BY <1>1, <1>6 DEF EnterStart, StartOver, NotStarting
  <2> QED BY <1>2, <1>6, <2>1 DEF CheckoutInv, Clear, OneAutoAgentPerRepo, AutoAgents
<1>7. ASSUME NEW ok \in BOOLEAN, PumpClaims(ok)
      PROVE  CheckoutInv'
  <2>1. sched.pc = "handoff" /\ sched.head \in Task /\ Clear(RepoOf[sched.head])
    BY <1>7 DEF PumpClaims, Inv, Named, CheckoutInv
  <2>2. sched'.pc # "handoff"
    BY <1>1, <1>7 DEF PumpClaims, SchedRecord
  <2>3. UNCHANGED start \/ EnterStart(Sched, sched.head, FALSE, Claimed(row, sched.head))
    BY <1>7 DEF PumpClaims
  <2> QED BY <1>3, <1>6, <2>1, <2>2, <2>3
<1>8. CASE BaseClaims
  <2>1. CASE ActiveWorkers < Cap /\ BaseHead(row) # {}
    <3> DEFINE t == CHOOSE t \in BaseHead(row) : TRUE
    <3>1. t \in BaseHead(row) /\ EnterStart(Sched, t, FALSE, Claimed(row, t))
      BY <1>8, <2>1 DEF BaseClaims
    <3>2. sched'.pc # "handoff"
      BY <1>1, <1>8, <2>1 DEF BaseClaims, SchedRecord
    <3> HIDE DEF t
    <3>3. /\ t \in Task /\ Waiting(row, t)
          /\ \A u \in Task : SameRepo(t, u) => ~Working(row, u)
      BY <3>1 DEF BaseHead, BaseEligible, HoldsForClaim
    <3> QED BY <1>6, <3>1, <3>2, <3>3, ClaimClear
  <2>2. CASE ~(ActiveWorkers < Cap /\ BaseHead(row) # {})
    BY <1>1, <1>3, <1>8, <2>2 DEF BaseClaims, SchedRecord
  <2> QED BY <2>1, <2>2
<1> QED BY <1>4, <1>5, <1>7, <1>8 DEF SchedulerStep

\* The scheduler's session comes into the repository its claim found clear.
LEMMA SpawnCheckout ==
    ASSUME Inv, SlotInv, CalmInv, CheckoutInv, Spawn(Sched)
    PROVE  CheckoutInv'
<1>1. /\ start \in [Starter -> StartRecord] /\ Sched \in Starter /\ sched \in SchedRecord
      /\ auto \subseteq Run
  BY DEF Inv, TypeOK, Starter
<1>2. PICK t \in Task, r \in Run :
        /\ start[Sched].task = t /\ start[Sched].run = r /\ runTask[r] = t
  <2>1. /\ start[Sched].pc = "row" /\ start[Sched].task \in Task /\ start[Sched].run \in Run
    BY <1>1 DEF Spawn, Inv, Named
  <2>2. Of(Sched, start[Sched].task)
    BY <2>1 DEF Of
  <2>3. StartOK(Sched, start[Sched].task)
    BY <1>1, <2>1, <2>2 DEF CalmInv, TurnOK
  <2> QED BY <2>1, <2>3 DEF StartOK
<1>3. Clear(RepoOf[t])
  BY <1>2 DEF CheckoutInv, Spawn
<1>4. /\ start'[Sched].pc = "off" /\ sched'.pc # "handoff"
      /\ UNCHANGED <<runTask, idle, dying, auto>>
  <2>1. start' = [start EXCEPT ![Sched] = NotStarting] /\ NotStarting.pc = "off"
    BY DEF Spawn, StartOver, NotStarting
  <2> QED BY <1>1, <2>1 DEF Spawn, Answered, SchedRecord
<1>5. \A q \in AutoAgents' : q = r \/ q \in AutoAgents
  BY <1>1, <1>2, <1>4 DEF Spawn, AutoAgents, Agent, AtWork, Live
<1>6. OneAutoAgentPerRepo'
  BY <1>2, <1>3, <1>4, <1>5 DEF CheckoutInv, Clear, OneAutoAgentPerRepo, AutoAgents
<1> QED BY <1>4, <1>6 DEF CheckoutInv

\* Every step keeps the checkouts.
LEMMA CheckoutStep ==
    ASSUME Inv, SlotInv, CalmInv, CheckoutInv, [Next]_vars
    PROVE  CheckoutInv'
<1>1. CASE UNCHANGED vars
  BY <1>1 DEF vars, sessions, CheckoutInv, Clear, OneAutoAgentPerRepo, AutoAgents, Agent,
     AtWork, Live
<1>2. CASE EventStep /\ ~Spawn(Sched)
  BY <1>2, FewerAgents, SameClaim, CheckoutFrame
<1> QED BY <1>1, <1>2, PassCheckout, SpawnCheckout DEF Next

\* Two turns no human asked for never edit one checkout: neither two claims,
\* nor a claim beside a turn that was claimed before and still works.
THEOREM OneTurnPerCheckout == ASSUME Patient PROVE Spec => []OneAutoAgentPerRepo
<1>1. Init => CheckoutInv
  <2> SUFFICES ASSUME Init PROVE CheckoutInv
    OBVIOUS
  <2>1. auto = {} /\ sched.pc = "begin" /\ start[Sched].pc = "off"
    BY DEF Init, Woken, Asleep, NotStarting, Starter
  <2> QED BY <2>1 DEF CheckoutInv, OneAutoAgentPerRepo
<1>2. Inv /\ SlotInv /\ CalmInv /\ CheckoutInv /\ [Next]_vars => CheckoutInv'
  BY CheckoutStep
<1>3. CheckoutInv => OneAutoAgentPerRepo
  BY DEF CheckoutInv
<1> QED BY <1>1, <1>2, <1>3, Calm, PTL DEF Spec

---------------------------------------------------------------------------
(* The orchestrator implements Turns *)

\* What there is of a turn, read off its starts and its newest run.
Phase(t) ==
    IF Starting(t) THEN "starts"
    ELSE IF ~Working(row, t) THEN "none"
    ELSE IF AtWork(latest[t]) THEN "works" ELSE "ends"

\* With every turn in order, that is what Turn says.
LEMMA TurnIsPhase ==
    ASSUME Inv, NEW t \in Task, TurnOK(t)
    PROVE  Turn[t] = Phase(t)
<1>1. CASE Starting(t)
  <2>1. PICK s \in Starter : Of(s, t) /\ start[s].pc \in {"gate", "base", "row"}
    BY <1>1 DEF Starting, Of
  <2>2. Quiet(t)
    BY <2>1 DEF TurnOK, StartOK
  <2>3. ~\E r \in Run : runTask[r] = t /\ Agent(r)
    BY <2>2 DEF Quiet, Agent, AtWork
  <2> QED BY <1>1, <2>3 DEF Turn, Phase
<1>2. CASE ~Starting(t) /\ ~Working(row, t)
  <2>1. ~\E r \in Run : runTask[r] = t /\ Agent(r)
    BY <1>2 DEF TurnOK, RunOK, Agent, AtWork
  <2> QED BY <1>2, <2>1 DEF Turn, Phase
<1>3. CASE ~Starting(t) /\ Working(row, t)
  <2>1. NewestDecides(t) /\ latest[t] \in Run /\ runTask[latest[t]] = t
    BY <1>3 DEF TurnOK, NewestDecides
  <2>2. CASE AtWork(latest[t])
    <3>1. Agent(latest[t])
      BY <1>3, <2>1, <2>2 DEF TurnOK, RunOK, AtWork, Agent
    <3> QED BY <1>3, <2>1, <2>2, <3>1 DEF Turn, Phase
  <2>3. CASE ~AtWork(latest[t])
    <3>1. ~\E r \in Run : runTask[r] = t /\ Agent(r)
      BY <2>3 DEF TurnOK, RunOK, Agent, AtWork
    <3> QED BY <1>3, <2>1, <2>3, <3>1 DEF Turn, Phase
  <2> QED BY <2>2, <2>3
<1> QED BY <1>1, <1>2, <1>3

\* A task that is left alone goes on as it was.
LEMMA PhaseLeft ==
    ASSUME Inv, NEW t \in Task, TurnOK(t), Left(t)
    PROVE  row'[t].status = row[t].status /\ Phase(t)' = Phase(t)
<1>1. Starting(t)' <=> Starting(t)
  BY StartsLeft DEF Starting, Of
<1>2. Working(row, t)' <=> Working(row, t)
  BY DEF Left, Working
<1>3. Working(row, t) /\ ~Starting(t) => (AtWork(latest[t])' <=> AtWork(latest[t]))
  BY DEF TurnOK, NewestDecides, Left, AtWork, Live
<1> QED BY <1>1, <1>2, <1>3 DEF Phase, Left

\* So it is of every task, before a step and after it.
LEMMA TurnsArePhases ==
    /\ Inv /\ CalmInv => \A t \in Task : Turn[t] = Phase(t)
    /\ (Inv /\ CalmInv => \A t \in Task : Turn[t] = Phase(t))'
<1>1. Inv /\ CalmInv => \A t \in Task : Turn[t] = Phase(t)
  BY TurnIsPhase DEF CalmInv
<1> QED BY <1>1, PTL

\* A step about the task t alone, with every turn in order before and after.
Calmly(t) == Inv /\ Inv' /\ SlotInv /\ CalmInv /\ CalmInv' /\ Touches(t)

Stutters(t) == row'[t].status = row[t].status /\ Phase(t)' = Phase(t)

\* It leaves the turns of the others.
LEMMA OthersStutter ==
    ASSUME NEW t \in Task, Calmly(t)
    PROVE  /\ \A u \in Task : Turn[u] = Phase(u) /\ Turn'[u] = Phase(u)'
           /\ \A u \in Task : u # t => Turn'[u] = Turn[u] /\ row'[u].status = row[u].status
<1>1. \A u \in Task : Turn[u] = Phase(u)
  BY TurnsArePhases DEF Calmly
<1>3. \A u \in Task : Turn'[u] = Phase(u)'
  BY TurnsArePhases DEF Calmly
<1>4. \A u \in Task : u # t => row'[u].status = row[u].status /\ Phase(u)' = Phase(u)
  BY PhaseLeft DEF Calmly, CalmInv, Touches
<1> QED BY <1>1, <1>3, <1>4

\* It is a step of the turn of t when status and phase move as one.
LEMMA TouchedTurn ==
    ASSUME NEW t \in Task, Calmly(t),
           NEW from, NEW to, NEW st, Phase(t) = from, Phase(t)' = to, row'[t].status = st
    PROVE  T!Step(t, from, to, st)
<1>1. Turn[t] = from /\ Turn'[t] = to
  BY OthersStutter
<1>2. \A u \in Task : u # t => Turn'[u] = Turn[u] /\ row'[u].status = row[u].status
  BY OthersStutter
<1>3. Turn' = [Turn EXCEPT ![t] = to]
  BY <1>1, <1>2 DEF Turn
<1>4. [u \in Task |-> row'[u].status] = [[u \in Task |-> row[u].status] EXCEPT ![t] = st]
  BY <1>2
<1> QED BY <1>1, <1>3, <1>4 DEF T!Step

\* A start that is entered gives the turn, or finds a terminal alive.
LEMMA EnterMove ==
    ASSUME NEW t \in Task, Calmly(t), NEW s \in Starter, NEW resume \in BOOLEAN,
           NEW moved \in [Task -> Row], moved[t].status = "running",
           EnterStart(s, t, resume, moved), ~Working(row, t),
           \A q \in Starter : Of(q, t) => q = s /\ start[q].pc = "kill"
    PROVE  T!Give(t) \/ T!Refuse(t)
<1>1. /\ row \in [Task -> Row] /\ start \in [Starter -> StartRecord]
      /\ row[t].status \in Status
  BY DEF Calmly, Inv, TypeOK, Row
<1>2. Phase(t) = "none" /\ row[t].status \in T!Resting
  BY <1>1 DEF Phase, Starting, Of, Working, T!Resting, Status
<1>3. CASE HasLive(t)
  <2>1. row'[t].status = "review" /\ start' = [start EXCEPT ![s] = NotStarting]
    BY <1>3, TransitionAt DEF EnterStart, StartOver, Status
  <2>2. start'[s].pc = "off" /\ \A q \in Starter : q # s => start'[q] = start[q]
    BY <1>1, <2>1 DEF NotStarting
  <2>3. Phase(t)' = "none"
    BY <2>1, <2>2 DEF Phase, Starting, Of, Working
  <2>4. T!Step(t, "none", "none", "review")
    BY <1>2, <2>1, <2>3, TouchedTurn
  <2> QED BY <1>2, <2>4 DEF T!Refuse
<1>4. CASE ~HasLive(t)
  <2> DEFINE new == [pc |-> IF resume THEN "gate" ELSE "base", task |-> t,
                     run |-> NoRun, resume |-> resume, abort |-> FALSE]
  <2>1. row' = moved /\ start' = [start EXCEPT ![s] = new]
    BY <1>4 DEF EnterStart
  <2>2. new.task = t /\ new.pc \in {"gate", "base"}
    OBVIOUS
  <2> HIDE DEF new
  <2>3. start'[s].task = t /\ start'[s].pc \in {"gate", "base"}
    BY <1>1, <2>1, <2>2
  <2>4. Phase(t)' = "starts"
    BY <2>3 DEF Phase, Starting
  <2>5. T!Step(t, "none", "starts", "running")
    BY <1>2, <2>1, <2>4, TouchedTurn
  <2> QED BY <1>2, <2>5 DEF T!Give
<1> QED BY <1>3, <1>4

\* The stretches of a start.
LEMMA StartMove ==
    ASSUME NEW t \in Task, Calmly(t), NEW s \in Starter, start[s].task = t, StartStep(s)
    PROVE  Stutters(t) \/ T!TurnStep(t)
<1>1. /\ row \in [Task -> Row] /\ start \in [Starter -> StartRecord]
      /\ start[s].pc \in {"gate", "base", "row"} /\ TurnOK(t) /\ TurnOK(t)'
      /\ row[t].status \in Status
  BY DEF Calmly, Inv, TypeOK, CalmInv, Row, StartStep, GateAborted, GatePassed, CreateRun, Spawn,
         SpawnFails
<1>2. Phase(t) = "starts" /\ StartOK(s, t) /\ \A q \in Starter : Of(q, t) => q = s
  BY <1>1 DEF Phase, Starting, TurnOK, Of
<1>3. ASSUME start' = [start EXCEPT ![s] = NotStarting]
      PROVE  ~Starting(t)'
  <2>1. start'[s].pc = "off" /\ \A q \in Starter : q # s => start'[q] = start[q]
    BY <1>1, <1>3 DEF NotStarting
  <2> QED BY <1>2, <2>1 DEF Starting, Of
<1>4. CASE GateAborted(s)
  <2>1. row' = row /\ AtRest(t)
    <3>1. AtRest(t)
      BY <1>2, <1>4 DEF GateAborted, StartOK
    <3> QED BY <1>4, <3>1 DEF GateAborted, Transition, CanMove, AtRest, Working
  <2>2. Phase(t)' = "none" /\ row[t].status \in T!Resting
    BY <1>1, <1>3, <1>4, <2>1
       DEF GateAborted, StartOver, Phase, AtRest, Working, T!Resting, Status
  <2>3. PICK st \in T!Resting : st = row[t].status
    BY <2>2
  <2>4. T!Step(t, "starts", "none", st)
    BY <1>2, <2>1, <2>2, <2>3, TouchedTurn
  <2>5. [u \in Task |-> row[u].status][t] = st
    BY <2>3
  <2> QED BY <2>4, <2>5 DEF T!TurnStep, T!Vanish, T!Step
<1>5. CASE GatePassed(s)
  <2>1. row' = row /\ start' = [start EXCEPT ![s].pc = "base"]
    BY <1>2, <1>5 DEF GatePassed, StartOK, store
  <2>2. start'[s].pc = "base" /\ start'[s].task = t
    BY <1>1, <2>1 DEF StartRecord
  <2> QED BY <1>2, <2>1, <2>2 DEF Stutters, Phase, Starting
<1>6. CASE CreateRun(s)
  <2>1. PICK r \in Run : row' = row /\ start' = [start EXCEPT ![s].pc = "row", ![s].run = r]
    BY <1>6 DEF CreateRun, store
  <2>2. start'[s].pc = "row" /\ start'[s].task = t
    BY <1>1, <2>1 DEF StartRecord
  <2> QED BY <1>2, <2>1, <2>2 DEF Stutters, Phase, Starting
<1>7. CASE Spawn(s) \/ SpawnFails(s)
  <2>1. start[s].pc = "row" /\ row[t].status = "running" /\ ~Starting(t)'
    BY <1>2, <1>3, <1>7 DEF Spawn, SpawnFails, StartOver, StartOK
  <2>2. CASE row'[t].status \in {"queued", "failed"}
    <3>1. Phase(t)' = "none"
      BY <2>1, <2>2 DEF Phase, Working
    <3>2. PICK st \in {"queued", "failed"} : st = row'[t].status
      BY <2>2
    <3>3. T!Step(t, "starts", "none", st)
      BY <1>2, <3>1, <3>2, TouchedTurn
    <3>4. [u \in Task |-> row[u].status][t] = "running"
      BY <2>1
    <3> QED BY <3>2, <3>3, <3>4 DEF T!TurnStep, T!Unstart
  <2>3. CASE row' = row
    <3>1. Working(row, t)' /\ NewestDecides(t)'
      BY <1>1, <2>1, <2>3 DEF TurnOK, Working
    <3>2. /\ latest' = latest /\ latest[t] \in Run /\ latest[t] = start[s].run
          /\ sess[latest[t]] = "none"
      BY <1>1, <1>2, <1>7, <2>1
         DEF Spawn, SpawnFails, StartOK, Calmly, SlotInv, OwnRun, Inv, Named
    <3>3. sess'[latest[t]] # "settling"
      <4>1. sess \in [Run -> {"none", "live", "evicted", "settling", "gone"}]
        BY DEF Calmly, Inv, TypeOK
      <4>2. \A out \in SUBSET {q \in LiveRuns : q \in idle} : latest[t] \notin out
        BY <3>2 DEF LiveRuns, Live
      <4> QED BY <1>7, <3>2, <4>1, <4>2 DEF Spawn, SpawnFails
    <3>4. Phase(t)' = "works"
      BY <2>1, <3>1, <3>2, <3>3 DEF Phase, NewestDecides
    <3>5. T!Step(t, "starts", "works", "running")
      BY <1>2, <2>1, <2>3, <3>4, TouchedTurn
    <3> QED BY <2>1, <3>5 DEF T!TurnStep, T!Work
  <2>4. row' = row \/ row'[t].status \in {"queued", "failed"}
    <3>1. ASSUME NEW to \in Status, row' = Transition(row, t, {"running"}, to)
          PROVE  row'[t].status = to
      BY <1>1, <2>1, <3>1, TransitionAt
    <3> QED BY <1>7, <3>1 DEF Spawn, SpawnFails, Status
  <2> QED BY <2>2, <2>3, <2>4
<1> QED BY <1>4, <1>5, <1>6, <1>7 DEF StartStep

\* The scheduler claims a waiting task.
LEMMA ClaimMove ==
    ASSUME NEW t \in Task, Calmly(t), Waiting(row, t),
           EnterStart(Sched, t, FALSE, Claimed(row, t))
    PROVE  T!TurnStep(t)
<1>1. row \in [Task -> Row] /\ Sched \in Starter /\ TurnOK(t)
  BY DEF Calmly, Inv, TypeOK, Starter, CalmInv
<1>2. Claimed(row, t) \in [Task -> Row] /\ Claimed(row, t)[t].status = "running"
  BY <1>1 DEF Claimed, Row, Status
<1>3. ~Working(row, t) /\ \A q \in Starter : ~Of(q, t)
  BY <1>1 DEF TurnOK, Working, Waiting
<1> QED BY <1>1, <1>2, <1>3, EnterMove DEF T!TurnStep

\* A human starts a task, or closes its terminal to do so.
LEMMA RequestMove ==
    ASSUME NEW t \in Task, Calmly(t), Patient, NEW h \in Human, NEW resume \in BOOLEAN,
           RunNow(h, t) \/ FollowUp(h, t, resume) \/ FollowUpKills(h, t, resume)
    PROVE  Stutters(t) \/ T!TurnStep(t)
<1>1. /\ Inv /\ TurnOK(t) /\ TurnOK(t)' /\ h \in Starter /\ start \in [Starter -> StartRecord]
      /\ Asks(t)
  BY DEF Calmly, Inv, TypeOK, Starter, CalmInv, RunNow, FollowUp, FollowUpKills
<1>2. \A s \in Starter : Of(s, t) => row[t].status = "running" /\ Quiet(t)
  BY <1>1, AskedSettled
<1>3. CASE RunNow(h, t) \/ FollowUp(h, t, resume)
  <2>1. PICK moved \in [Task -> Row], how \in BOOLEAN :
          EnterStart(h, t, how, moved) /\ moved[t].status = "running"
    BY <1>1, <1>3, RequestEnters
  <2>2. ~Working(row, t)
    BY <1>3 DEF RunNow, FollowUp, RunNowFrom, FollowUpFrom, CanMove, Working
  <2>3. \A q \in Starter : ~Of(q, t)
    BY <1>2, <2>2 DEF Working
  <2> QED BY <1>1, <2>1, <2>2, <2>3, EnterMove DEF T!TurnStep
<1>4. CASE FollowUpKills(h, t, resume)
  <2>1. PICK r \in Run :
          /\ runTask[r] = t /\ Live(r) /\ r \in idle
          /\ start' = [start EXCEPT ![h] = [pc |-> "kill", task |-> t, run |-> r,
                                           resume |-> resume, abort |-> FALSE]]
    BY <1>4 DEF FollowUpKills
  <2>2. start'[h].pc = "kill" /\ \A q \in Starter : q # h => start'[q] = start[q]
    BY <1>1, <2>1
  <2>3. ~Starting(t) /\ ~Starting(t)'
    BY <1>2, <2>1, <2>2 DEF Starting, Of, Quiet
  <2>4. ~Working(row, t) /\ row' = row
    BY <1>1, <1>4, <2>1 DEF TurnOK, RunOK, FollowUpKills, store
  <2> QED BY <2>3, <2>4 DEF Stutters, Phase, Working
<1> QED BY <1>3, <1>4

\* The follow-up goes on once its terminal is closed.
LEMMA GoesOnMove ==
    ASSUME NEW t \in Task, Calmly(t), NEW h \in Human, start[h].task = t, FollowUpGoesOn(h)
    PROVE  Stutters(t) \/ T!TurnStep(t)
<1>1. /\ Inv /\ TurnOK(t) /\ h \in Starter /\ start \in [Starter -> StartRecord]
      /\ start[h].pc = "kill"
  BY DEF Calmly, Inv, TypeOK, Starter, CalmInv, FollowUpGoesOn
<1>2. /\ \A q \in Starter : Of(q, t) => q = h
      /\ ~Working(row, t)
  BY <1>1 DEF TurnOK, Of, StartOK, Working
<1>3. CASE CanMove(row, t, FollowUpFrom)
  <2>1. PICK moved \in [Task -> Row], how \in BOOLEAN :
          EnterStart(h, t, how, moved) /\ moved[t].status = "running"
    BY <1>1, <1>3, GoesOnEnters
  <2> QED BY <1>1, <1>2, <2>1, EnterMove DEF T!TurnStep
<1>4. CASE ~CanMove(row, t, FollowUpFrom)
  <2>1. row' = row /\ start' = [start EXCEPT ![h] = NotStarting] /\ NotStarting.pc = "off"
    BY <1>4 DEF FollowUpGoesOn, FollowUpStarts, StartOver, NotStarting, store
  <2>2. start'[h].pc = "off" /\ \A q \in Starter : q # h => start'[q] = start[q]
    BY <1>1, <2>1
  <2>3. ~Starting(t) /\ ~Starting(t)'
    BY <1>1, <1>2, <2>2 DEF Starting, Of
  <2> QED BY <1>2, <2>1, <2>3 DEF Stutters, Phase, Working
<1> QED BY <1>3, <1>4

\* The Stop hook parks a turn, or ends it.
LEMMA StopMove ==
    ASSUME NEW t \in Task, Calmly(t), NEW r \in Run, runTask[r] = t,
           \/ StopArrives(r) \/ StopIgnored(r) \/ StopParks(r)
           \/ \E due \in BOOLEAN : StopLands(r, due)
    PROVE  Stutters(t) \/ T!TurnStep(t)
<1>1. /\ Inv /\ TurnOK(t) /\ row \in [Task -> Row] /\ row[t].status \in Status
      /\ UNCHANGED <<runTask, latest, sess, start>>
  BY DEF Calmly, Inv, TypeOK, CalmInv, Row, StopArrives, StopIgnored, StopParks, StopLands, sessions
<1>2. ASSUME UNCHANGED <<row, idle>>
      PROVE  Stutters(t)
  BY <1>1, <1>2 DEF Stutters, Phase, Starting, Working, AtWork, Live
<1>3. ASSUME Working(row, t), r \in stops
      PROVE  /\ ~Starting(t) /\ ~Starting(t)'
             /\ row[t].status \in T!InTurn
  BY <1>1, <1>3, NoStart DEF Starting, Of, Working, T!InTurn
<1>4. CASE StopArrives(r) \/ StopIgnored(r)
  BY <1>2, <1>4 DEF StopArrives, StopIgnored, store, sessions
<1>5. CASE StopParks(r)
  <2>1. PICK open \in BOOLEAN :
          /\ idle' = idle /\ r \in stops
          /\ row' = TransitionVerify(row, t, {"running", "waiting"}, "waiting", open)
    BY <1>5 DEF StopParks, sessions
  <2>2. CASE ~Working(row, t)
    <3>1. row' = row
      BY <2>1, <2>2 DEF TransitionVerify, CanMove, Working
    <3> QED BY <1>2, <2>1, <3>1
  <2>3. CASE Working(row, t)
    <3>1. row'[t].status = "waiting"
      BY <1>1, <2>1, <2>3, TransitionVerifyAt DEF Working, Status
    <3>2. PICK at \in {"works", "ends"} : Phase(t) = at
      BY <1>3, <2>1, <2>3 DEF Phase
    <3>3. Phase(t)' = at
      BY <1>1, <1>3, <2>1, <2>3, <3>1, <3>2 DEF Phase, Working, AtWork, Live
    <3>4. T!Step(t, at, at, "waiting")
      BY <3>1, <3>2, <3>3, TouchedTurn
    <3>5. [u \in Task |-> row[u].status][t] \in T!InTurn
      BY <1>3, <2>1, <2>3
    <3> QED BY <3>2, <3>4, <3>5 DEF T!TurnStep, T!Park, T!InTurn
  <2> QED BY <2>2, <2>3
<1>6. ASSUME NEW due \in BOOLEAN, StopLands(r, due)
      PROVE  Stutters(t) \/ T!TurnStep(t)
  <2>1. /\ r \in stops
        /\ row' = TransitionVerify(row, t, {"running", "waiting"}, "review", due)
        /\ idle' = IF Working(row, t) THEN idle \cup {r} ELSE idle
    BY <1>6 DEF StopLands, Working, CanMove
  <2>2. CASE ~Working(row, t)
    <3>1. row' = row
      BY <2>1, <2>2 DEF TransitionVerify, CanMove, Working
    <3> QED BY <1>2, <2>1, <2>2, <3>1
  <2>3. CASE Working(row, t)
    <3>1. row'[t].status = "review"
      BY <1>1, <2>1, <2>3, TransitionVerifyAt DEF Working, Status
    <3>2. Phase(t) \in {"works", "ends"} /\ Phase(t)' = "none"
      BY <1>3, <2>1, <2>3, <3>1 DEF Phase, Working
    <3>3. CASE Phase(t) = "works"
      <4>1. T!Step(t, "works", "none", "review")
        BY <3>1, <3>2, <3>3, TouchedTurn
      <4>2. [u \in Task |-> row[u].status][t] \in T!InTurn
        BY <1>3, <2>1, <2>3
      <4> QED BY <4>1, <4>2 DEF T!TurnStep, T!Finish, T!Resting
    <3>4. CASE Phase(t) = "ends"
      <4>1. T!Step(t, "ends", "none", "review")
        BY <3>1, <3>2, <3>4, TouchedTurn
      <4> QED BY <4>1 DEF T!TurnStep, T!Settle
    <3> QED BY <3>2, <3>3, <3>4
  <2> QED BY <2>2, <2>3
<1> QED BY <1>4, <1>5, <1>6

\* The wait of a turn for its subagents ends.
LEMMA WaitMove ==
    ASSUME NEW t \in Task, Calmly(t), WaitEnds(t)
    PROVE  T!TurnStep(t)
<1>1. /\ Inv /\ TurnOK(t) /\ row \in [Task -> Row]
      /\ UNCHANGED <<runTask, latest, sess, idle, start>>
      /\ row[t].status = "waiting" /\ row' = Transition(row, t, {"waiting"}, "running")
  BY DEF Calmly, Inv, TypeOK, CalmInv, WaitEnds, sessions
<1>2. row'[t].status = "running"
  BY <1>1, TransitionAt DEF Status
<1>3. \A s \in Starter : ~Of(s, t)
  BY <1>1, NoStart DEF WaitEnds
<1>4. ~Starting(t) /\ ~Starting(t)'
  BY <1>1, <1>3 DEF Starting, Of
<1>5. PICK at \in {"works", "ends"} : Phase(t) = at
  BY <1>1, <1>4 DEF Phase, Working
<1>6. Phase(t)' = at
  BY <1>1, <1>2, <1>4, <1>5 DEF Phase, Working, AtWork, Live
<1>7. T!Step(t, at, at, "running")
  BY <1>2, <1>5, <1>6, TouchedTurn
<1>8. [u \in Task |-> row[u].status][t] = "waiting"
  BY <1>1
<1> QED BY <1>5, <1>7, <1>8 DEF T!TurnStep, T!Park, T!InTurn

\* A session is let go or ends, and its exit is settled.
LEMMA ExitMove ==
    ASSUME NEW t \in Task, Calmly(t), NEW r \in Run, runTask[r] = t,
           \/ Dispose(r) \/ Exits(r)
           \/ \E clean \in BOOLEAN : ExitSettles(r, clean)
    PROVE  Stutters(t) \/ T!TurnStep(t)
<1>1. /\ Inv /\ TurnOK(t) /\ row \in [Task -> Row] /\ row[t].status \in Status
      /\ sess \in [Run -> {"none", "live", "evicted", "settling", "gone"}]
      /\ UNCHANGED <<latest, idle, start>>
      /\ \A q \in Run : q # r => sess'[q] = sess[q]
  BY DEF Calmly, Inv, TypeOK, CalmInv, Row, Dispose, Exits, ExitSettles
<1>2. ASSUME row' = row, Starting(t) \/ ~Working(row, t)
      PROVE  Stutters(t)
  BY <1>1, <1>2 DEF Stutters, Phase, Starting, Working
<1>3. CASE Dispose(r)
  <2>1. row' = row /\ ~Working(row, t)
    BY <1>1, <1>3 DEF Dispose, TurnOK, RunOK, store
  <2> QED BY <1>2, <2>1
<1>4. CASE Exits(r)
  <2>1. row' = row /\ sess[r] \in {"live", "evicted"} /\ sess'[r] = "settling"
    BY <1>1, <1>4 DEF Exits, store
  <2>2. CASE Working(row, t) /\ ~Starting(t) /\ latest[t] = r
    <3>1. Phase(t) = "works"
      BY <1>1, <2>1, <2>2 DEF TurnOK, NewestDecides, Phase
    <3>2. Phase(t)' = "ends"
      BY <1>1, <2>1, <2>2 DEF Phase, Starting, Working, AtWork, Live
    <3>3. PICK st \in T!InTurn : st = row[t].status
      BY <2>2 DEF Working, T!InTurn
    <3>4. T!Step(t, "works", "ends", st)
      BY <2>1, <3>1, <3>2, <3>3, TouchedTurn
    <3>5. [u \in Task |-> row[u].status][t] = st
      BY <3>3
    <3> QED BY <3>4, <3>5 DEF T!TurnStep, T!Die, T!Step
  <2>3. CASE Working(row, t) /\ ~Starting(t) /\ latest[t] # r
    <3>1. latest[t] \in Run
      BY <1>1, <2>3 DEF TurnOK, NewestDecides
    <3> QED BY <1>1, <2>1, <2>3, <3>1 DEF Stutters, Phase, Starting, Working, AtWork, Live
  <2> QED BY <1>2, <2>1, <2>2, <2>3
<1>5. ASSUME NEW clean \in BOOLEAN, ExitSettles(r, clean)
      PROVE  Stutters(t) \/ T!TurnStep(t)
  <2>1. sess[r] = "settling" /\ sess'[r] = "gone"
    BY <1>1, <1>5 DEF ExitSettles
  <2>2. PICK to \in {"review", "failed"}, open \in BOOLEAN :
          row' = IF runStatus[r] = "killed" \/ latest[t] # r THEN row
                 ELSE TransitionVerify(row, t, {"running", "waiting"}, to, open)
    BY <1>5 DEF ExitSettles, ExitMoves, ExitLeaves
  <2>3. CASE runStatus[r] # "killed" /\ latest[t] = r /\ Working(row, t)
    <3>1. row'[t].status = to
      BY <1>1, <2>2, <2>3, TransitionVerifyAt DEF Status, Working
    <3>2. ~Starting(t)
      BY <1>1, <2>1, <2>3 DEF TurnOK, StartOK, Starting, Of, Quiet, Ending
    <3>3. Phase(t) = "ends"
      BY <2>1, <2>3, <3>2 DEF Phase, AtWork, Live
    <3>4. Phase(t)' = "none"
      BY <1>1, <3>1, <3>2 DEF Phase, Starting, Working
    <3>5. T!Step(t, "ends", "none", to)
      BY <3>1, <3>3, <3>4, TouchedTurn
    <3> QED BY <3>5 DEF T!TurnStep, T!Settle
  <2>4. CASE ~(runStatus[r] # "killed" /\ latest[t] = r /\ Working(row, t))
    <3>1. row' = row
      BY <2>2, <2>4 DEF TransitionVerify, CanMove, Working
    <3>2. CASE Working(row, t) /\ ~Starting(t)
      <4>1. latest[t] \in Run /\ (AtWork(latest[t])' <=> AtWork(latest[t]))
        BY <1>1, <2>1, <3>2 DEF TurnOK, NewestDecides, AtWork, Live
      <4> QED BY <1>1, <3>1, <3>2, <4>1 DEF Stutters, Phase, Starting, Working
    <3> QED BY <1>2, <3>1, <3>2
  <2> QED BY <2>3, <2>4
<1> QED BY <1>3, <1>4, <1>5

\* A prompt into the idle terminal of a task in review.
LEMMA PromptMove ==
    ASSUME NEW t \in Task, Calmly(t), Patient, NEW r \in Run, runTask[r] = t,
           Prompt(r), Asks(t)
    PROVE  T!TurnStep(t)
<1>1. /\ Inv /\ TurnOK(t) /\ row \in [Task -> Row]
      /\ UNCHANGED <<latest, sess, start>>
      /\ row[t].status = "review" /\ row' = Transition(row, t, {"review"}, "running")
      /\ Live(r) /\ latest[t] = r /\ idle' = idle \ {r}
  BY DEF Calmly, Inv, TypeOK, CalmInv, Prompt
<1>2. row'[t].status = "running"
  BY <1>1, TransitionAt DEF Status
<1>3. ~Starting(t) /\ ~Starting(t)'
  BY <1>1, AskedSettled DEF Starting, Of
<1>4. Phase(t) = "none" /\ Phase(t)' = "works"
  BY <1>1, <1>2, <1>3 DEF Phase, Working, AtWork, Live
<1>5. T!Step(t, "none", "works", "running")
  BY <1>2, <1>4, TouchedTurn
<1>6. [u \in Task |-> row[u].status][t] = "review"
  BY <1>1
<1> QED BY <1>5, <1>6 DEF T!TurnStep, T!GoOn

\* A human takes a turn back: one that starts goes later, one at work at once.
LEMMA TakenMove ==
    ASSUME NEW t \in Task, Calmly(t), Patient, Asks(t), Working(row, t),
           NEW to \in T!Resting, row'[t].status = to, Starting(t)' <=> Starting(t)
    PROVE  T!TurnStep(t)
<1>1. Inv /\ TurnOK(t) /\ ~Working(row, t)'
  BY DEF Calmly, CalmInv, Working, T!Resting
<1>2. [u \in Task |-> row[u].status][t] \in T!InTurn
  BY DEF Working, T!InTurn
<1>3. CASE Starting(t)
  <2>1. T!Step(t, "starts", "starts", to)
    BY <1>3, TouchedTurn DEF Phase
  <2> QED BY <1>2, <2>1 DEF T!TurnStep, T!TakeBack
<1>4. CASE ~Starting(t)
  <2>1. latest[t] \in Run /\ runTask[latest[t]] = t
    BY <1>1, <1>4 DEF TurnOK, NewestDecides
  <2>2. AtWork(latest[t])
    BY <1>1, <1>4, <2>1, AskedSettled DEF TurnOK, NewestDecides, Ending
  <2>3. Phase(t) = "works" /\ Phase(t)' = "none"
    BY <1>1, <1>4, <2>2 DEF Phase
  <2>4. T!Step(t, "works", "none", to)
    BY <2>3, TouchedTurn
  <2> QED BY <1>2, <2>4 DEF T!TurnStep, T!Finish
<1> QED BY <1>3, <1>4

\* What a human does with a task at rest moves only its status.
LEMMA RestMove ==
    ASSUME NEW t \in Task, Calmly(t), Patient, Asks(t), ~Working(row, t),
           NEW to, row'[t].status = to, to \notin {"running", "waiting"},
           \A s \in Starter : start'[s] = start[s]
    PROVE  /\ T!Step(t, "none", "none", to)
           /\ to = row[t].status => Stutters(t)
<1>1. \A s \in Starter : ~Of(s, t)
  BY AskedSettled DEF Calmly, CalmInv, Working
<1>2. ~Starting(t) /\ ~Starting(t)'
  BY <1>1 DEF Starting, Of
<1>3. Phase(t) = "none" /\ Phase(t)' = "none"
  BY <1>2 DEF Phase, Working
<1> QED BY <1>3, TouchedTurn DEF Stutters

\* Cancel, Undo start and the killing of a terminal.
LEMMA CancelMove ==
    ASSUME NEW t \in Task, Calmly(t), Patient,
           \/ Cancel(t) \/ UndoStart(t)
           \/ \E r \in Run : runTask[r] = t /\ KillRun(r)
    PROVE  Stutters(t) \/ T!TurnStep(t)
<1>1. /\ Inv /\ TurnOK(t) /\ row \in [Task -> Row] /\ row[t].status \in Status
      /\ start \in [Starter -> StartRecord] /\ before[t] \in Status /\ Asks(t)
  BY DEF Calmly, Inv, TypeOK, CalmInv, Row, Cancel, UndoStart, KillRun
<1>2. AbortGate(t) => /\ Starting(t)' <=> Starting(t)
                      /\ ~Starting(t) => start' = start
  <2> SUFFICES ASSUME AbortGate(t)
               PROVE  /\ Starting(t)' <=> Starting(t)
                      /\ ~Starting(t) => start' = start
    OBVIOUS
  <2>1. \A s \in Starter : start'[s].pc = start[s].pc /\ start'[s].task = start[s].task
    BY <1>1 DEF AbortGate, StartRecord
  <2>2. ~Starting(t) => \A s \in Starter : start'[s] = start[s]
    BY DEF AbortGate, Starting
  <2>3. start' = [s \in Starter |-> start'[s]]
    BY DEF AbortGate
  <2>4. ~Starting(t) => start' = start
    BY <1>1, <2>2, <2>3
  <2> QED BY <2>1, <2>4 DEF Starting
<1>3. ~Working(row, t) => ~Starting(t)
  BY <1>1, AskedSettled DEF Starting, Of, Working
<1>4. ASSUME Working(row, t), row' = Transition(row, t, {"running", "waiting"}, "cancelled"),
             Starting(t)' <=> Starting(t)
      PROVE  T!TurnStep(t)
  <2>1. row'[t].status = "cancelled" /\ "cancelled" \in T!Resting
    BY <1>1, <1>4, TransitionAt DEF Working, Status, T!Resting
  <2> QED BY <1>1, <1>4, <2>1, TakenMove
<1>5. ASSUME ~Working(row, t), row' = Transition(row, t, {"running", "waiting"}, "cancelled"),
             start' = start
      PROVE  Stutters(t)
  <2>1. row' = row
    BY <1>5 DEF Transition, CanMove, Working
  <2> QED BY <1>1, <1>5, <2>1, RestMove DEF Working
<1>6. CASE Cancel(t)
  <2>1. CASE row[t].status \in {"draft", "queued"}
    <3>1. row' = Transition(row, t, {"draft", "queued"}, "cancelled") /\ start' = start
      BY <1>6, <2>1 DEF Cancel
    <3>2. row'[t].status = "cancelled" /\ ~Working(row, t)
      BY <1>1, <2>1, <3>1, TransitionAt DEF Status, Working
    <3>3. T!Step(t, "none", "none", "cancelled")
      BY <1>1, <3>1, <3>2, RestMove
    <3>4. [u \in Task |-> row[u].status][t] \in {"draft", "queued"}
      BY <2>1
    <3> QED BY <3>3, <3>4 DEF T!TurnStep, T!Decide
  <2>2. CASE row[t].status \notin {"draft", "queued"}
    BY <1>2, <1>3, <1>4, <1>5, <1>6, <2>2 DEF Cancel
  <2> QED BY <2>1, <2>2
<1>7. CASE UndoStart(t)
  <2>1. PICK held \in BOOLEAN : row' = [row EXCEPT ![t] = [Moved(@, before[t]) EXCEPT !.held = held]]
    BY <1>7 DEF UndoStart
  <2>2. row'[t].status = before[t]
    BY <1>1, <2>1 DEF Moved, Row
  <2>3. PICK to \in T!Resting : to = before[t]
    BY <1>1 DEF TurnOK, Status, T!Resting
  <2> QED BY <1>1, <1>2, <1>7, <2>2, <2>3, TakenMove DEF UndoStart
<1>8. CASE \E r \in Run : runTask[r] = t /\ KillRun(r)
  <2>1. row' = Transition(row, t, {"running", "waiting"}, "cancelled") /\ start' = start
    BY <1>8 DEF KillRun
  <2> QED BY <1>4, <1>5, <2>1 DEF Starting
<1> QED BY <1>6, <1>7, <1>8

\* Mark done, and the ways into and out of the queues.
LEMMA QueueMove ==
    ASSUME NEW t \in Task, Calmly(t), Patient,
           Complete(t) \/ QueueAdd(t) \/ Enqueue(t) \/ QueueRemove(t)
    PROVE  Stutters(t) \/ T!TurnStep(t)
<1>1. /\ Inv /\ TurnOK(t) /\ row \in [Task -> Row] /\ row[t].status \in Status
      /\ Asks(t) /\ start' = start
  BY DEF Calmly, Inv, TypeOK, CalmInv, Row, Complete, QueueAdd, Enqueue, QueueRemove
<1>2. ASSUME NEW from, from = row[t].status, ~Working(row, t),
             NEW to, row'[t].status = to,
             \/ to = from
             \/ to = "done" /\ from = "review"
             \/ to = "cancelled" /\ from = "queued"
             \/ to = "queued" /\ from \in EnqueueFrom
      PROVE  Stutters(t) \/ T!TurnStep(t)
  <2>1. [u \in Task |-> row[u].status][t] = from
    BY <1>2
  <2>2. to \notin {"running", "waiting"}
    BY <1>2 DEF Working
  <2>3. T!Step(t, "none", "none", to) /\ (to = from => Stutters(t))
    BY <1>1, <1>2, <2>2, RestMove
  <2> QED BY <1>2, <2>1, <2>3 DEF T!TurnStep, T!Decide, T!Requeue, EnqueueFrom
<1>3. ASSUME NEW table \in [Task -> Row], table[t].status = row[t].status, ~Working(row, t),
             NEW open \in BOOLEAN,
             \/ row' = Transition(table, t, EnqueueFrom, "queued")
             \/ row' = TransitionVerify(table, t, EnqueueFrom, "queued", open)
      PROVE  Stutters(t) \/ T!TurnStep(t)
  <2>1. \/ row'[t].status = row[t].status
        \/ row'[t].status = "queued" /\ row[t].status \in EnqueueFrom
    <3>1. "queued" \in Status /\ table[t].status = row[t].status
      BY <1>3 DEF Status
    <3>2. CASE row' = Transition(table, t, EnqueueFrom, "queued")
      BY <3>1, <3>2, TransitionAt
    <3>3. CASE row' = TransitionVerify(table, t, EnqueueFrom, "queued", open)
      <4>1. CASE row[t].status \in EnqueueFrom
        BY <3>1, <3>3, <4>1, TransitionVerifyAt
      <4>2. CASE row[t].status \notin EnqueueFrom
        BY <3>1, <3>3, <4>2 DEF TransitionVerify, CanMove
      <4> QED BY <4>1, <4>2
    <3>4. \/ row' = Transition(table, t, EnqueueFrom, "queued")
          \/ row' = TransitionVerify(table, t, EnqueueFrom, "queued", open)
      BY <1>3
    <3> QED BY <3>2, <3>3, <3>4
  <2> QED BY <1>2, <1>3, <2>1
<1>4. CASE Complete(t)
  <2>1. row[t].status = "review" /\ row' = Transition(row, t, {"review"}, "done")
    BY <1>4 DEF Complete
  <2>2. row'[t].status = "done" /\ ~Working(row, t)
    BY <1>1, <2>1, TransitionAt DEF Status, Working
  <2> QED BY <1>2, <2>1, <2>2
<1>5. CASE QueueAdd(t)
  <2>1. ~Working(row, t)
    BY <1>5 DEF QueueAdd, EnqueueFrom, Working
  <2>2. CASE row' = [row EXCEPT ![t].held = FALSE]
    <3>1. row'[t].status = row[t].status
      BY <1>1, <2>2 DEF Row
    <3> QED BY <1>2, <2>1, <3>1
  <2>3. CASE row' = Transition([row EXCEPT ![t].mark = Behind, ![t].held = FALSE],
                               t, EnqueueFrom, "queued")
    <3> DEFINE table == [row EXCEPT ![t].mark = Behind, ![t].held = FALSE]
    <3>1. Behind \in Nat
      BY <1>1, TaskAssumption, FS_CardinalityType, LimitsAssumption DEF Behind, Inv, TypeOK
    <3>2. table \in [Task -> Row] /\ table[t].status = row[t].status
      BY <1>1, <3>1 DEF Row
    <3> HIDE DEF table
    <3>3. row' = Transition(table, t, EnqueueFrom, "queued")
      BY <2>3 DEF table
    <3>4. PICK open \in BOOLEAN : TRUE
      OBVIOUS
    <3> QED BY <1>3, <2>1, <3>2, <3>3, <3>4
  <2> QED BY <1>5, <2>2, <2>3 DEF QueueAdd
<1>6. CASE Enqueue(t)
  <2> DEFINE table == [row EXCEPT ![t].mark = 0, ![t].held = FALSE]
  <2>1. PICK open \in {row[t].verify, FALSE} :
          row' = TransitionVerify(table, t, EnqueueFrom, "queued", open)
    BY <1>6 DEF Enqueue
  <2>2. ~Working(row, t) /\ open \in BOOLEAN
    BY <1>1, <1>6, <2>1 DEF Enqueue, EnqueueFrom, Working, Row
  <2>3. table \in [Task -> Row] /\ table[t].status = row[t].status
    BY <1>1 DEF Row
  <2> HIDE DEF table
  <2> QED BY <1>3, <2>1, <2>2, <2>3
<1>7. CASE QueueRemove(t)
  <2> DEFINE table == [row EXCEPT ![t].mark = 0]
  <2>1. row' = Transition(table, t, {"queued"}, "cancelled")
    BY <1>7 DEF QueueRemove
  <2>2. table \in [Task -> Row] /\ table[t].status = row[t].status
    BY <1>1 DEF Row
  <2> HIDE DEF table
  <2>3. \/ row'[t].status = "cancelled" /\ row[t].status = "queued"
        \/ row'[t].status = row[t].status /\ row[t].status # "queued"
    BY <2>1, <2>2, TransitionAt DEF Status
  <2>4. CASE Working(row, t)
    <3>1. row'[t].status = row[t].status
      BY <2>3, <2>4 DEF Working
    <3>2. UNCHANGED <<latest, sess, idle>>
      BY <1>7 DEF QueueRemove, sessions
    <3> QED BY <1>1, <2>4, <3>1, <3>2 DEF Stutters, Phase, Starting, Working, AtWork, Live
  <2>5. CASE ~Working(row, t)
    BY <1>2, <2>3, <2>5
  <2> QED BY <2>4, <2>5
<1> QED BY <1>4, <1>5, <1>6, <1>7

\* A restart ends every turn at once.
LEMMA RestartMove ==
    ASSUME Inv, Inv', CalmInv, CalmInv', Restart
    PROVE  T!Crash
<1>1. /\ row \in [Task -> Row] /\ row' \in [Task -> Row]
      /\ \A s \in Starter : start'[s].pc = "off"
  BY DEF Inv, TypeOK, Restart, NotStarting
<1>2. ASSUME NEW t \in Task
      PROVE  /\ row'[t].status = Booted(t).status
             /\ Working(row, t) => Booted(t).status \in {"review", "failed"}
             /\ ~Working(row, t) => Booted(t).status = row[t].status
  <2>1. PICK again \in SUBSET Task :
          row' = [u \in Task |-> [Booted(u) EXCEPT !.verify = u \in again]]
    BY DEF Restart
  <2> DEFINE open == t \in again
  <2>2. open \in BOOLEAN
    OBVIOUS
  <2>3. row'[t] = [Booted(t) EXCEPT !.verify = open]
    BY <2>1
  <2> HIDE DEF open
  <2>4. /\ Booted(t) \in Row
        /\ Working(row, t) => Booted(t).status \in {"review", "failed"}
        /\ ~Working(row, t) => Booted(t).status = row[t].status
    BY <1>1 DEF Booted, Moved, Row, Status, Working
  <2> QED BY <2>2, <2>3, <2>4 DEF Row
<1>3. ASSUME NEW t \in Task
      PROVE  Turn'[t] = "none"
  <2>1. ~Starting(t)'
    BY <1>1 DEF Starting
  <2>2. ~Working(row, t)'
    BY <1>2 DEF Working
  <2>3. Phase(t)' = "none"
    BY <2>1, <2>2 DEF Phase
  <2> QED BY <2>3, TurnsArePhases
<1>4. Turn' = [t \in Task |-> "none"]
  BY <1>3 DEF Turn
<1> DEFINE to == [t \in Task |-> IF Working(row, t) THEN Booted(t).status ELSE "review"]
<1>5. to \in [Task -> {"review", "failed"}]
  BY <1>2
<1>6. \A t \in Task : row'[t].status =
        IF row[t].status \in T!InTurn THEN to[t] ELSE row[t].status
  BY <1>2 DEF Working, T!InTurn
<1> HIDE DEF to
<1>7. [t \in Task |-> row'[t].status] =
        [t \in Task |-> IF [u \in Task |-> row[u].status][t] \in T!InTurn THEN to[t]
                        ELSE [u \in Task |-> row[u].status][t]]
  BY <1>6
<1> QED BY <1>4, <1>5, <1>7 DEF T!Crash

\* Every other step is one of a turn, or none.
LEMMA StepMoves ==
    ASSUME Patient, Inv, Inv', SlotInv, CalmInv, CalmInv', [Next]_vars, ~Restart
    PROVE  \/ \A t \in Task : Left(t)
           \/ \E t \in Task : Touches(t) /\ (Stutters(t) \/ T!TurnStep(t))
<1>1. CASE UNCHANGED vars
  BY <1>1, LeavesAll DEF vars, store, sessions
<1>2. CASE SchedulerStep
  BY <1>2, PassTouches, ClaimMove DEF Calmly
<1>3. CASE Tick
  BY <1>3, LeavesAll DEF Tick, store, sessions
<1>4. ASSUME NEW s \in Starter, StartStep(s)
      PROVE  \E t \in Task : Touches(t) /\ (Stutters(t) \/ T!TurnStep(t))
  <2>1. start[s].pc # "off"
    BY <1>4 DEF StartStep, GateAborted, GatePassed, CreateRun, Spawn, SpawnFails
  <2>2. PICK t \in Task : start[s].task = t
    BY <2>1 DEF Inv, Named
  <2>3. Touches(t)
    BY <1>4, <2>2, GateTurn, CreateTurn, SpawnTurn DEF StartStep
  <2> QED BY <1>4, <2>2, <2>3, StartMove DEF Calmly
<1>5. ASSUME NEW r \in Run, AgentStep(r) \/ TerminalStep(r)
      PROVE  \E t \in Task : Touches(t) /\ (Stutters(t) \/ T!TurnStep(t))
  <2>1. sess[r] # "none"
    BY <1>5 DEF AgentStep, TerminalStep, StopArrives, StopIgnored, StopParks, StopLands, Dispose,
       Exits, ExitSettles, Prompt, KillRun, AtWork, Live, SlotInv, RunsFresh
  <2>2. PICK t \in Task : runTask[r] = t
    BY <2>1 DEF Inv, Named
  <2>3. CASE StopArrives(r) \/ StopIgnored(r) \/ StopParks(r)
               \/ \E due \in BOOLEAN : StopLands(r, due)
    BY <2>2, <2>3, StopTurn, StopMove DEF Calmly
  <2>4. CASE Dispose(r) \/ Exits(r) \/ \E clean \in BOOLEAN : ExitSettles(r, clean)
    BY <2>2, <2>4, ExitTurn, SettleTurn, ExitMove DEF Calmly
  <2>5. CASE Prompt(r) /\ Asks(t)
    BY <2>2, <2>5, PromptTurn, PromptMove DEF Calmly
  <2>6. CASE KillRun(r)
    BY <2>2, <2>6, KillTurn, CancelMove DEF Calmly
  <2> QED BY <1>5, <2>2, <2>3, <2>4, <2>5, <2>6 DEF AgentStep, TerminalStep
<1>6. ASSUME NEW h \in Human, NEW t \in Task, RequestStep(h, t)
      PROVE  \E u \in Task : Touches(u) /\ (Stutters(u) \/ T!TurnStep(u))
  <2>1. ASSUME FollowUpGoesOn(h)
        PROVE  \E u \in Task : Touches(u) /\ (Stutters(u) \/ T!TurnStep(u))
    <3>1. PICK u \in Task : start[h].task = u
      BY <2>1 DEF FollowUpGoesOn, Inv, Named, Starter
    <3> QED BY <2>1, <3>1, GoesOnTurn, GoesOnMove DEF Calmly
  <2>2. ASSUME NEW resume \in BOOLEAN,
               RunNow(h, t) \/ FollowUp(h, t, resume) \/ FollowUpKills(h, t, resume)
        PROVE  Touches(t) /\ (Stutters(t) \/ T!TurnStep(t))
    <3>1. Touches(t)
      BY <2>2, RunTurn, KillsTurn
    <3> QED BY <2>2, <3>1, RequestMove DEF Calmly
  <2>3. PICK no \in BOOLEAN : TRUE
    OBVIOUS
  <2> QED BY <1>6, <2>1, <2>2, <2>3 DEF RequestStep
<1>7. ASSUME NEW t \in Task, TaskStep(t)
      PROVE  \/ \A u \in Task : Left(u)
             \/ Touches(t) /\ (Stutters(t) \/ T!TurnStep(t))
  <2>1. CASE ReviewEnds(t)
    <3>1. /\ \A u \in Task : row'[u].status = row[u].status /\ row'[u].held = row[u].held
          /\ UNCHANGED <<before, sessions, start, stops>>
      BY <2>1 DEF ReviewEnds, Inv, TypeOK, Row
    <3> QED BY <3>1 DEF Left, sessions
  <2>2. CASE WaitEnds(t)
    BY <2>2, WaitTurn, WaitMove DEF Calmly
  <2>3. CASE Cancel(t) \/ UndoStart(t)
    BY <2>3, CancelTurn, UndoTurn, CancelMove DEF Calmly
  <2>4. CASE Complete(t) \/ QueueAdd(t) \/ Enqueue(t) \/ QueueRemove(t)
    BY <2>4, QueueTurn, QueueMove DEF Calmly
  <2> QED BY <1>7, <2>1, <2>2, <2>3, <2>4 DEF TaskStep
<1> QED BY <1>1, <1>2, <1>3, <1>4, <1>5, <1>6, <1>7 DEF Next, EventStep

\* So every step maps to one of Turns.
LEMMA TurnsStep ==
    ASSUME Patient, Inv, Inv', SlotInv, CalmInv, CalmInv', [Next]_vars
    PROVE  [T!Next]_(T!turnVars)
<1>1. CASE Restart
  BY <1>1, RestartMove DEF T!Next
<1>2. ASSUME \A t \in Task : row'[t].status = row[t].status /\ Phase(t)' = Phase(t)
      PROVE  UNCHANGED T!turnVars
  <2>1. \A t \in Task : Turn'[t] = Turn[t]
    BY <1>2, TurnsArePhases
  <2>2. Turn' = Turn
    BY <2>1 DEF Turn
  <2>3. [t \in Task |-> row'[t].status] = [t \in Task |-> row[t].status]
    BY <1>2
  <2> QED BY <2>2, <2>3 DEF T!turnVars
<1>3. \A t \in Task : Left(t) => row'[t].status = row[t].status /\ Phase(t)' = Phase(t)
  BY PhaseLeft DEF CalmInv
<1>4. CASE ~Restart
  <2>1. CASE \A t \in Task : Left(t)
    BY <1>2, <1>3, <2>1
  <2>2. ASSUME NEW t \in Task, Touches(t), Stutters(t)
        PROVE  UNCHANGED T!turnVars
    <3>1. \A u \in Task : row'[u].status = row[u].status /\ Phase(u)' = Phase(u)
      BY <1>3, <2>2 DEF Touches, Stutters
    <3> QED BY <1>2, <3>1
  <2>3. ASSUME NEW t \in Task, T!TurnStep(t)
        PROVE  [T!Next]_(T!turnVars)
    BY <2>3 DEF T!Next
  <2> QED BY <1>4, <2>1, <2>2, <2>3, StepMoves
<1> QED BY <1>1, <1>4

\* The orchestrator implements the life of a turn: whatever the scheduler, the
\* starts, the hooks, the exits, the restarts and patient humans interleave,
\* each of their steps is a step of one task's turn, a crash, or none.
THEOREM TurnsRefined == ASSUME Patient PROVE Spec => TurnsImplemented
<1>1. Init => T!Init
  <2> SUFFICES ASSUME Init PROVE T!Init
    OBVIOUS
  <2>1. \A t \in Task : row[t].status \in {"draft", "queued"}
    BY DEF Init, NewRow
  <2>2. Inv /\ CalmInv
    BY InitInv, CalmInit
  <2>3. \A s \in Starter : start[s].pc = "off"
    BY DEF Init, NotStarting
  <2>4. \A t \in Task : Phase(t) = "none"
    BY <2>1, <2>3 DEF Phase, Starting, Working
  <2>5. \A t \in Task : Turn[t] = "none"
    BY <2>2, <2>4, TurnsArePhases
  <2>6. Turn = [t \in Task |-> "none"]
    BY <2>5 DEF Turn
  <2>7. [t \in Task |-> row[t].status] \in [Task -> {"draft", "queued"}]
    BY <2>1
  <2> QED BY <2>6, <2>7 DEF T!Init
<1>2. /\ Inv /\ SlotInv /\ CalmInv /\ (Inv /\ SlotInv /\ CalmInv)' /\ [Next]_vars
      => [T!Next]_(T!turnVars)
  BY TurnsStep
<1> QED BY <1>1, <1>2, Calm, PTL DEF Spec, TurnsImplemented, T!Spec

---------------------------------------------------------------------------
(* What the refinement gives *)

\* What a turn can be, and how a status goes with it.
TurnKinds == {"none", "starts", "works", "ends"}
Agree(st, at) == /\ st \in T!Resting \cup T!InTurn /\ at \in TurnKinds
                 /\ st \in T!InTurn => at # "none"
                 /\ at \in {"works", "ends"} => st \in T!InTurn

\* StatusTrue, with the types, is about each task by itself.
LEMMA TrueOfEach ==
    (T!TypeOK /\ T!StatusTrue) <=> \A t \in Task : Agree(row[t].status, Turn[t])
<1> DEFINE was == [u \in Task |-> row[u].status]
<1>1. \A t \in Task : was[t] = row[t].status
  OBVIOUS
<1>2. T!TypeOK <=> \A t \in Task : was[t] \in T!Resting \cup T!InTurn /\ Turn[t] \in TurnKinds
  <2>1. was \in [Task -> T!Resting \cup T!InTurn] <=>
           \A t \in Task : was[t] \in T!Resting \cup T!InTurn
    OBVIOUS
  <2>2. Turn \in [Task -> TurnKinds] <=> \A t \in Task : Turn[t] \in TurnKinds
    BY DEF Turn
  <2> QED BY <2>1, <2>2 DEF T!TypeOK, TurnKinds
<1>3. T!StatusTrue <=> \A t \in Task : /\ was[t] \in T!InTurn => Turn[t] # "none"
                                       /\ Turn[t] \in {"works", "ends"} => was[t] \in T!InTurn
  BY DEF T!StatusTrue
<1> QED BY <1>1, <1>2, <1>3 DEF Agree

\* A step of Turns is about one task.
LEMMA OneTask ==
    ASSUME NEW t \in Task, NEW from, NEW to, NEW st, T!Step(t, from, to, st)
    PROVE  /\ Turn[t] = from /\ Turn'[t] = to /\ row'[t].status = st
           /\ \A u \in Task \ {t} : Turn'[u] = Turn[u] /\ row'[u].status = row[u].status
<1> DEFINE was == [u \in Task |-> row[u].status]
           is == [u \in Task |-> row'[u].status]
<1>1. is = [was EXCEPT ![t] = st] /\ Turn' = [Turn EXCEPT ![t] = to] /\ Turn[t] = from
  BY DEF T!Step
<1>2. DOMAIN Turn = Task /\ DOMAIN was = Task
  BY DEF Turn
<1>3. \A u \in Task : is[u] = row'[u].status /\ was[u] = row[u].status
  OBVIOUS
<1> HIDE DEF was, is
<1>4. /\ is[t] = st /\ \A u \in Task \ {t} : is[u] = was[u]
      /\ Turn'[t] = to /\ \A u \in Task \ {t} : Turn'[u] = Turn[u]
  BY <1>1, <1>2
<1> QED BY <1>1, <1>3, <1>4

\* A step that leaves status and turn of its task in agreement.
LEMMA StepAgrees ==
    ASSUME \A u \in Task : Agree(row[u].status, Turn[u]),
           NEW t \in Task, NEW from, NEW to, NEW st, T!Step(t, from, to, st), Agree(st, to)
    PROVE  \A u \in Task : Agree(row'[u].status, Turn'[u])
<1>1. /\ Turn'[t] = to /\ row'[t].status = st
      /\ \A u \in Task \ {t} : Turn'[u] = Turn[u] /\ row'[u].status = row[u].status
  BY OneTask
<1> QED BY <1>1

\* So is the end of a turn that leaves the status alone.
LEMMA EndAgrees ==
    ASSUME \A u \in Task : Agree(row[u].status, Turn[u]),
           NEW t \in Task, T!Vanish(t) \/ T!Die(t)
    PROVE  \A u \in Task : Agree(row'[u].status, Turn'[u])
<1> DEFINE was == [u \in Task |-> row[u].status]
           is == [u \in Task |-> row'[u].status]
<1>1. /\ is = [was EXCEPT ![t] = was[t]]
      /\ \/ was[t] \in T!Resting /\ Turn' = [Turn EXCEPT ![t] = "none"]
         \/ was[t] \in T!InTurn /\ Turn' = [Turn EXCEPT ![t] = "ends"]
  BY DEF T!Vanish, T!Die, T!Step
<1>2. DOMAIN Turn = Task /\ DOMAIN was = Task
  BY DEF Turn
<1>3. \A u \in Task : is[u] = row'[u].status /\ was[u] = row[u].status
  OBVIOUS
<1> HIDE DEF was, is
<1>4. /\ \A u \in Task : is[u] = was[u]
      /\ \A u \in Task \ {t} : Turn'[u] = Turn[u]
      /\ \/ was[t] \in T!Resting /\ Turn'[t] = "none"
         \/ was[t] \in T!InTurn /\ Turn'[t] = "ends"
  BY <1>1, <1>2
<1>5. Agree(was[t], Turn'[t])
  BY <1>4 DEF Agree, TurnKinds, T!Resting, T!InTurn
<1> QED BY <1>3, <1>4, <1>5

\* Every action of Turns is one or the other.
LEMMA TurnStepAgrees ==
    ASSUME \A u \in Task : Agree(row[u].status, Turn[u]), NEW t \in Task, T!TurnStep(t)
    PROVE  \A u \in Task : Agree(row'[u].status, Turn'[u])
<1>1. CASE T!Vanish(t) \/ T!Die(t)
  BY <1>1, EndAgrees
<1>2. CASE ~(T!Vanish(t) \/ T!Die(t))
  <2>1. PICK from, to, st : T!Step(t, from, to, st) /\ Agree(st, to)
    <3>1. CASE T!Requeue(t) \/ T!Decide(t)
      BY <3>1 DEF T!Requeue, T!Decide, Agree, TurnKinds, T!Resting, T!InTurn
    <3>2. CASE T!Give(t) \/ T!Refuse(t) \/ T!GoOn(t)
      BY <3>2 DEF T!Give, T!Refuse, T!GoOn, Agree, TurnKinds, T!Resting, T!InTurn
    <3>3. CASE T!Work(t) \/ T!Unstart(t) \/ T!Park(t)
      BY <3>3 DEF T!Work, T!Unstart, T!Park, Agree, TurnKinds, T!Resting, T!InTurn
    <3>4. CASE T!Finish(t) \/ T!TakeBack(t)
      <4>1. PICK rest \in T!Resting : \/ T!Step(t, "works", "none", rest)
                                      \/ T!Step(t, "starts", "starts", rest)
        BY <3>4 DEF T!Finish, T!TakeBack
      <4>2. Agree(rest, "none") /\ Agree(rest, "starts")
        BY DEF Agree, TurnKinds, T!Resting, T!InTurn
      <4> QED BY <4>1, <4>2
    <3>5. CASE T!Settle(t)
      BY <3>5 DEF T!Settle, Agree, TurnKinds, T!Resting, T!InTurn
    <3> QED BY <1>2, <3>1, <3>2, <3>3, <3>4, <3>5 DEF T!TurnStep
  <2> QED BY <2>1, StepAgrees
<1> QED BY <1>1, <1>2

\* A status says the truth about the turn: a task reads as in a turn only while
\* there is one, and an agent works, or is being settled, only for such a task.
\* It holds of Turns whatever implements it, and so of the orchestrator.
THEOREM StatusIsTrue == ASSUME Patient PROVE Spec => []T!StatusTrue
<1> DEFINE Agrees == \A u \in Task : Agree(row[u].status, Turn[u])
<1>1. T!Init => Agrees
  <2> SUFFICES ASSUME T!Init, NEW t \in Task PROVE Agree(row[t].status, Turn[t])
    OBVIOUS
  <2>1. [u \in Task |-> row[u].status][t] = row[t].status
    OBVIOUS
  <2>2. row[t].status \in {"draft", "queued"} /\ Turn[t] = "none"
    BY <2>1 DEF T!Init
  <2> QED BY <2>2 DEF Agree, TurnKinds, T!Resting, T!InTurn
<1>2. Agrees /\ [T!Next]_(T!turnVars) => Agrees'
  <2> SUFFICES ASSUME Agrees, [T!Next]_(T!turnVars)
               PROVE  \A u \in Task : Agree(row'[u].status, Turn'[u])
    OBVIOUS
  <2>1. CASE \E t \in Task : T!TurnStep(t)
    BY <2>1, TurnStepAgrees
  <2>2. CASE T!Crash
    <3>1. ASSUME NEW u \in Task PROVE Agree(row'[u].status, Turn'[u])
      <4>1. PICK next \in [Task -> {"review", "failed"}] :
              [v \in Task |-> row'[v].status]
                = [v \in Task |-> IF [w \in Task |-> row[w].status][v] \in T!InTurn THEN next[v]
                                  ELSE [w \in Task |-> row[w].status][v]]
        BY <2>2 DEF T!Crash
      <4>2. row'[u].status = IF row[u].status \in T!InTurn THEN next[u] ELSE row[u].status
        <5>1. [v \in Task |-> row'[v].status][u] = row'[u].status
          OBVIOUS
        <5>2. [w \in Task |-> row[w].status][u] = row[u].status
          OBVIOUS
        <5> QED BY <4>1, <5>1, <5>2
      <4>3. Turn'[u] = "none" /\ next[u] \in {"review", "failed"}
        BY <2>2 DEF T!Crash
      <4> QED BY <4>2, <4>3 DEF Agree, TurnKinds, T!Resting, T!InTurn
    <3> QED BY <3>1
  <2>3. CASE UNCHANGED T!turnVars
    <3>1. Turn' = Turn /\ [v \in Task |-> row'[v].status] = [v \in Task |-> row[v].status]
      BY <2>3 DEF T!turnVars
    <3>2. ASSUME NEW u \in Task PROVE row'[u].status = row[u].status
      <4>1. /\ [v \in Task |-> row'[v].status][u] = row'[u].status
            /\ [v \in Task |-> row[v].status][u] = row[u].status
        OBVIOUS
      <4> QED BY <3>1, <4>1
    <3> QED BY <3>1, <3>2
  <2> QED BY <2>1, <2>2, <2>3 DEF T!Next
<1>3. Agrees => T!StatusTrue
  BY TrueOfEach
<1> QED BY <1>1, <1>2, <1>3, TurnsRefined, PTL DEF TurnsImplemented, T!Spec
=============================================================================
