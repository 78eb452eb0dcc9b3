---------------------------- MODULE MCParts_proofs ----------------------------
(***************************************************************************)
(* The theorems about the parts, as the runs of MCParts see them: what is  *)
(* proved of a part for any constants holds of its instance, whatever      *)
(* values a configuration gives to the constants that are left open.       *)
(*                                                                         *)
(* Those of TaskWaits, which MCParts extends, and of Worktrees, of which   *)
(* all constants are left open, are proved here.                           *)
(*                                                                         *)
(* That no task ever comes after itself is kept as a certificate for each  *)
(* task: a set of tasks closed under the edges, with all the task comes    *)
(* after in it and the task itself outside.  A new edge is let in by such  *)
(* a set (Reach).                                                          *)
(***************************************************************************)
EXTENDS MCParts, FiniteSetTheorems, TLAPS

---------------------------------------------------------------------------
(* Graphs without cycles *)

\* The edges as a function; sets closed under one; and the certificate of each task.
EdgeMap == [t \in Task |-> Edges(t)]

ClosedIn(E, S) == \A t \in S : E[t] \subseteq S

Acyclic(E) == \A t \in Task : \E S \in SUBSET Task :
                 ClosedIn(E, S) /\ E[t] \subseteq S /\ t \notin S

\* Without some of its edges a graph has no cycle either.
LEMMA AcyclicShrinks ==
    ASSUME NEW E, NEW F, Acyclic(E), \A t \in Task : F[t] \subseteq E[t]
    PROVE  Acyclic(F)
BY DEF Acyclic, ClosedIn

\* One task may come after whatever cannot reach it.
LEMMA AcyclicGrows ==
    ASSUME NEW E, NEW F, Acyclic(E), NEW t \in Task, NEW R \in SUBSET Task,
           ClosedIn(E, R), t \notin R, F[t] \subseteq R,
           \A u \in Task \ {t} : F[u] \subseteq E[u]
    PROVE  Acyclic(F)
<1> SUFFICES ASSUME NEW v \in Task
             PROVE  \E S \in SUBSET Task : ClosedIn(F, S) /\ F[v] \subseteq S /\ v \notin S
  BY DEF Acyclic
<1>1. ClosedIn(F, R)
  BY DEF ClosedIn
<1>2. CASE v = t
  BY <1>1, <1>2
<1>3. CASE v # t
  <2>1. PICK S \in SUBSET Task : ClosedIn(E, S) /\ E[v] \subseteq S /\ v \notin S
    BY DEF Acyclic
  <2>2. CASE v \in R
    <3>1. ClosedIn(F, S \cap R) /\ F[v] \subseteq S \cap R
      BY <1>3, <2>1, <2>2 DEF ClosedIn
    <3> QED BY <2>1, <3>1
  <2>3. CASE v \notin R
    <3>1. ClosedIn(F, S \cup R) /\ F[v] \subseteq S \cup R
      BY <1>1, <1>3, <2>1 DEF ClosedIn
    <3> QED BY <2>1, <2>3, <3>1
  <2> QED BY <2>2, <2>3
<1> QED BY <1>2, <1>3

\* The edges lead to tasks.
LEMMA EdgesType ==
    TypeOK => EdgeMap \in [Task -> SUBSET Task]
BY NoTaskAssumption DEF TypeOK, EdgeMap, Edges

\* What is reached from a set is closed, and holds it.
LEMMA ReachClosed ==
    ASSUME TypeOK, NEW on \in SUBSET Task
    PROVE  /\ Reach(on) \in SUBSET Task /\ on \subseteq Reach(on)
           /\ ClosedIn(EdgeMap, Reach(on))
<1>1. \A t \in Task : Edges(t) \subseteq Task /\ EdgeMap[t] = Edges(t)
  BY EdgesType DEF EdgeMap
<1> QED BY <1>1 DEF Reach, Closed, ClosedIn

\* NoWaitCycle in terms of such sets.
LEMMA CycleFree ==
    TypeOK => (NoWaitCycle <=> Acyclic(EdgeMap))
<1> SUFFICES ASSUME TypeOK
             PROVE  NoWaitCycle <=> Acyclic(EdgeMap)
  OBVIOUS
<1>1. \A t \in Task : Edges(t) \in SUBSET Task /\ EdgeMap[t] = Edges(t)
  BY EdgesType DEF EdgeMap
<1>2. \A S \in SUBSET Task : Closed(S) <=> ClosedIn(EdgeMap, S)
  BY <1>1 DEF Closed, ClosedIn
<1>3. ASSUME NEW t \in Task
      PROVE  (Edges(t) # {} => t \notin Reach(Edges(t)))
             <=> \E S \in SUBSET Task : Closed(S) /\ Edges(t) \subseteq S /\ t \notin S
  <2>1. Edges(t) = {} => Closed({}) /\ Edges(t) \subseteq {} /\ {} \in SUBSET Task
    BY DEF Closed
  <2> QED BY <2>1 DEF Reach
<1> QED BY <1>1, <1>2, <1>3 DEF NoWaitCycle, Acyclic

---------------------------------------------------------------------------
(* The inductive invariant *)

\* The pieces of a split come into being together, and without dependencies.
SplitOnce ==
    /\ \A c, d \in Task : Parent[c] # NoTask /\ Parent[d] = Parent[c] =>
          (status[c] = "unborn" <=> status[d] = "unborn")
    /\ \A t \in Task : status[t] = "unborn" => dependsOn[t] = {}

\* The invariant of NoWaitCycle, WaitKept and ParentLands.
Inv == TypeOK /\ ParkKept /\ SplitOnce /\ NoWaitCycle

\* A step that adds no edge.
LEMMA NoNewEdges ==
    ASSUME Inv, TypeOK', \A t \in Task : Edges(t)' \subseteq Edges(t)
    PROVE  NoWaitCycle'
<1>1. Acyclic(EdgeMap)
  BY CycleFree DEF Inv
<1>2. \A t \in Task : EdgeMap[t] = Edges(t) /\ EdgeMap'[t] = Edges(t)'
  BY DEF EdgeMap
<1>3. Acyclic(EdgeMap')
  BY <1>1, <1>2, AcyclicShrinks
<1>4. Acyclic(EdgeMap)'
  BY <1>3 DEF Acyclic, ClosedIn
<1>5. (TypeOK => (NoWaitCycle <=> Acyclic(EdgeMap)))'
  BY CycleFree, PTL
<1> QED BY <1>4, <1>5

\* A step after which t comes after tasks that cannot reach it.
LEMMA NewEdges ==
    ASSUME Inv, TypeOK', NEW t \in Task, NEW R \in SUBSET Task,
           ClosedIn(EdgeMap, R), t \notin R, Edges(t)' \subseteq R,
           \A u \in Task \ {t} : Edges(u)' \subseteq Edges(u)
    PROVE  NoWaitCycle'
<1>1. Acyclic(EdgeMap)
  BY CycleFree DEF Inv
<1>2. \A u \in Task : EdgeMap[u] = Edges(u) /\ EdgeMap'[u] = Edges(u)'
  BY DEF EdgeMap
<1>3. Acyclic(EdgeMap')
  BY <1>1, <1>2, AcyclicGrows
<1>4. Acyclic(EdgeMap)'
  BY <1>3 DEF Acyclic, ClosedIn
<1>5. (TypeOK => (NoWaitCycle <=> Acyclic(EdgeMap)))'
  BY CycleFree, PTL
<1> QED BY <1>4, <1>5

---------------------------------------------------------------------------
(* The steps *)

\* The rows of the calls, and where a task may be moved.
Calls == [Task -> [Caller -> {"none", "told", "kill"}]]
Moves == {"queued", "running", "review", "settled", "failed"}

\* A move changes the status of the task, and of no other but a blocked parent
\* that waits for nobody.
LEMMA MovedStatuses ==
    ASSUME TypeOK, NEW t \in Task, NEW to \in Moves,
           NEW st \in AfterMove([status EXCEPT ![t] = to], t)
    PROVE  /\ st \in [Task -> Statuses] /\ st[t] = to
           /\ \A u \in Task \ {t} :
                 \/ st[u] = status[u]
                 \/ /\ u = Parent[t] /\ status[u] = "blocked" /\ waitFor[u] = NoTask
                    /\ st[u] \in {"review", "settled"}
<1> DEFINE moved == [status EXCEPT ![t] = to]
<1>1. /\ moved \in [Task -> Statuses] /\ moved[t] = to
      /\ \A u \in Task \ {t} : moved[u] = status[u]
  BY DEF TypeOK, Moves, Statuses
<1>2. CASE st = moved
  BY <1>1, <1>2
<1>3. CASE st # moved
  <2>1. /\ Parent[t] # NoTask /\ Resolves(moved, Parent[t])
        /\ \E s \in {"review", "settled"} : st = [moved EXCEPT ![Parent[t]] = s]
    BY <1>3 DEF AfterMove
  <2>2. Parent[t] \in Task /\ moved[Parent[t]] = "blocked" /\ waitFor[Parent[t]] = NoTask
    BY <2>1, ParentAssumption DEF Resolves
  <2>3. Parent[t] # t
    BY <1>1, <2>2 DEF Moves
  <2> HIDE DEF moved
  <2> QED BY <1>1, <2>1, <2>2, <2>3 DEF Statuses
<1> QED BY <1>2, <1>3

\* A move of a task that has a row keeps the invariant.
LEMMA MoveStep ==
    ASSUME Inv, NEW t \in Task, Exists(t), NEW to \in Moves, Move(t, to),
           dependsOn' = dependsOn, calls' \in Calls
    PROVE  Inv' /\ \A u \in Task \ {t} : waitFor'[u] = waitFor[u]
<1>1. TypeOK /\ ParkKept /\ SplitOnce
  BY DEF Inv
<1>2. /\ status' \in [Task -> Statuses] /\ status'[t] = to
      /\ \A u \in Task \ {t} :
            \/ status'[u] = status[u]
            \/ /\ u = Parent[t] /\ status[u] = "blocked" /\ waitFor[u] = NoTask
               /\ status'[u] \in {"review", "settled"}
  BY <1>1, MovedStatuses DEF Move
<1>3. /\ waitFor' \in [Task -> Task \cup {NoTask}] /\ waitFor'[t] = NoTask
      /\ request' \in [Task -> Task \cup {NoTask}] /\ request'[t] = NoTask
      /\ \A u \in Task \ {t} : waitFor'[u] = waitFor[u] /\ request'[u] = request[u]
  BY <1>1 DEF Move, TypeOK
<1>4. parked' = Without(t) /\ late' = late \ {t}
  BY DEF Move
<1>5. TypeOK'
  BY <1>1, <1>2, <1>3, <1>4 DEF TypeOK, Calls, Without
<1>6. ParkKept'
  <2>1. ASSUME NEW u \in Task
        PROVE  /\ waitFor'[u] # NoTask => status'[u] = "blocked" /\ request'[u] = NoTask
               /\ request'[u] # NoTask => status'[u] = "running"
    BY <1>1, <1>2, <1>3 DEF ParkKept
  <2>2. \A u, v \in Task : <<u, v>> \in parked' <=> <<u, v>> \in parked /\ u # t /\ v # t
    BY <1>4 DEF Without
  <2>3. ASSUME NEW u \in Task, NEW v \in Task
        PROVE  /\ <<u, v>> \in parked' => /\ waitFor'[u] # NoTask /\ waitFor'[v] # NoTask
                                          /\ <<v, u>> \notin parked'
               /\ waitFor'[u] # NoTask /\ waitFor'[v] # NoTask /\ u # v =>
                     <<u, v>> \in parked' \/ <<v, u>> \in parked'
               /\ \A w \in Task : <<u, v>> \in parked' /\ <<v, w>> \in parked' => <<u, w>> \in parked'
    BY <1>1, <1>3, <2>2 DEF ParkKept
  <2> QED BY <2>1, <2>3 DEF ParkKept
<1>7. SplitOnce'
  BY <1>1, <1>2 DEF SplitOnce, Exists, Moves
<1>8. \A u \in Task : Edges(u)' \subseteq Edges(u)
  BY <1>1, <1>2, <1>3 DEF Edges, Exists, Moves
<1>9. NoWaitCycle'
  BY <1>5, <1>8, NoNewEdges
<1> QED BY <1>3, <1>5, <1>6, <1>7, <1>9 DEF Inv

\* What WaitKept says of a step beside ParkKept: who waited and does not, or for
\* another, had its wait ended.
Released == \A t \in Task : waitFor[t] # NoTask /\ waitFor'[t] # waitFor[t] =>
                ~Undisturbed(t) \/ status'[t] = "gone"

\* A step that leaves the rows and the requests alone.
LEMMA CallStep ==
    ASSUME Inv, UNCHANGED <<status, dependsOn, waitFor, request, parked>>,
           late' \in SUBSET Task, calls' \in Calls
    PROVE  Inv' /\ Released
<1>1. TypeOK' /\ ParkKept' /\ SplitOnce' /\ Released
  BY DEF Inv, TypeOK, Calls, ParkKept, SplitOnce, Released
<1>2. \A t \in Task : Edges(t)' \subseteq Edges(t)
  BY DEF Edges, Exists
<1> QED BY <1>1, <1>2, NoNewEdges DEF Inv

\* A dependency is declared.
LEMMA SetDependsOnStep ==
    ASSUME Inv, NEW t \in Task, NEW on \in SUBSET Task, SetDependsOn(t, on)
    PROVE  Inv' /\ Released
<1>1. TypeOK /\ ParkKept /\ SplitOnce
  BY DEF Inv
<1>2. /\ dependsOn' = [dependsOn EXCEPT ![t] = on] /\ status[t] = "queued"
      /\ UNCHANGED <<status, waits, calls>> /\ t \notin Reach(on)
  BY DEF SetDependsOn, DependencyCycle
<1>3. TypeOK' /\ ParkKept' /\ SplitOnce' /\ Released
  BY <1>1, <1>2 DEF TypeOK, ParkKept, SplitOnce, Released, waits
<1>4. Reach(on) \in SUBSET Task /\ on \subseteq Reach(on) /\ ClosedIn(EdgeMap, Reach(on))
  BY <1>1, ReachClosed
<1>5. Edges(t)' = on
  BY <1>1, <1>2 DEF Edges, Exists, waits, TypeOK, ParkKept
<1>6. \A u \in Task \ {t} : Edges(u)' \subseteq Edges(u)
  BY <1>1, <1>2 DEF Edges, Exists, waits, TypeOK
<1>7. NoWaitCycle'
  BY <1>2, <1>3, <1>4, <1>5, <1>6, NewEdges
<1> QED BY <1>3, <1>7 DEF Inv

\* A working agent asks to wait.
LEMMA AskWaitStep ==
    ASSUME Inv, NEW t \in Task, NEW u \in Task, AskWait(t, u)
    PROVE  Inv' /\ Released
<1>1. TypeOK /\ ParkKept /\ SplitOnce
  BY DEF Inv
<1>2. /\ request' = [request EXCEPT ![t] = u] /\ status[t] = "running"
      /\ UNCHANGED <<status, dependsOn, waitFor, late, parked, calls>> /\ t \notin Reach({u})
  BY DEF AskWait, DependencyCycle
<1>3. TypeOK' /\ ParkKept' /\ SplitOnce' /\ Released
  <2>1. TypeOK' /\ SplitOnce' /\ Released
    BY <1>1, <1>2 DEF TypeOK, SplitOnce, Released
  <2>2. ParkKept'
    BY <1>1, <1>2 DEF TypeOK, ParkKept
  <2> QED BY <2>1, <2>2
<1>4. Reach({u}) \in SUBSET Task /\ u \in Reach({u}) /\ ClosedIn(EdgeMap, Reach({u}))
  BY <1>1, ReachClosed
<1>5. PICK S \in SUBSET Task : ClosedIn(EdgeMap, S) /\ Edges(t) \subseteq S /\ t \notin S
  BY <1>1, CycleFree DEF Inv, Acyclic, EdgeMap
<1>6. /\ S \cup Reach({u}) \in SUBSET Task /\ t \notin S \cup Reach({u})
      /\ ClosedIn(EdgeMap, S \cup Reach({u}))
  BY <1>2, <1>4, <1>5 DEF ClosedIn
<1>7. dependsOn[t] \subseteq Edges(t) /\ Edges(t)' = dependsOn[t] \cup {u}
  BY <1>1, <1>2, NoTaskAssumption DEF Edges, Exists, TypeOK, ParkKept
<1>8. \A v \in Task \ {t} : Edges(v)' \subseteq Edges(v)
  BY <1>1, <1>2 DEF Edges, Exists, TypeOK
<1>9. NoWaitCycle'
  <2>1. Edges(t)' \subseteq S \cup Reach({u})
    BY <1>4, <1>5, <1>7
  <2> QED BY <1>3, <1>6, <1>8, <2>1, NewEdges
<1> QED BY <1>3, <1>9 DEF Inv

\* A turn that asked to wait is parked: the edge it asked for becomes a wait.
LEMMA ParkStep ==
    ASSUME Inv, NEW t \in Task, TurnEnds(t), request[t] # NoTask
    PROVE  Inv' /\ Released
<1>1. TypeOK /\ ParkKept /\ SplitOnce
  BY DEF Inv
<1>2. /\ status[t] = "running" /\ waitFor[t] = NoTask
      /\ status' = [status EXCEPT ![t] = "blocked"]
      /\ waitFor' = [waitFor EXCEPT ![t] = request[t]]
      /\ request' = [request EXCEPT ![t] = NoTask]
      /\ parked' = parked \cup ({u \in Task : waitFor[u] # NoTask} \X {t})
      /\ UNCHANGED <<late, dependsOn, calls>>
  BY <1>1 DEF TurnEnds, ParkKept
<1>3. TypeOK'
  BY <1>1, <1>2 DEF TypeOK, Statuses
<1>4. SplitOnce' /\ Released
  BY <1>1, <1>2 DEF TypeOK, SplitOnce, Released
<1>5. ParkKept'
  <2>1. ASSUME NEW u \in Task
        PROVE  /\ waitFor'[u] # NoTask => status'[u] = "blocked" /\ request'[u] = NoTask
               /\ request'[u] # NoTask => status'[u] = "running"
               /\ waitFor'[u] # NoTask <=> u = t \/ waitFor[u] # NoTask
    BY <1>1, <1>2 DEF TypeOK, ParkKept
  <2>2. \A u, v \in Task :
           <<u, v>> \in parked' <=> <<u, v>> \in parked \/ (v = t /\ waitFor[u] # NoTask)
    BY <1>2
  <2>3. \A u \in Task : <<u, t>> \notin parked /\ <<t, u>> \notin parked
    BY <1>1, <1>2 DEF ParkKept
  <2>4. ASSUME NEW u \in Task, NEW v \in Task
        PROVE  /\ <<u, v>> \in parked' => /\ waitFor'[u] # NoTask /\ waitFor'[v] # NoTask
                                          /\ <<v, u>> \notin parked'
               /\ waitFor'[u] # NoTask /\ waitFor'[v] # NoTask /\ u # v =>
                     <<u, v>> \in parked' \/ <<v, u>> \in parked'
               /\ \A w \in Task : <<u, v>> \in parked' /\ <<v, w>> \in parked' => <<u, w>> \in parked'
    <3>1. <<u, v>> \in parked' => waitFor'[u] # NoTask /\ waitFor'[v] # NoTask
      <4>1. <<u, v>> \in parked => waitFor[u] # NoTask /\ waitFor[v] # NoTask
        BY <1>1 DEF ParkKept
      <4> QED BY <2>1, <2>2, <4>1
    <3>2. <<u, v>> \in parked' => <<v, u>> \notin parked'
      BY <1>1, <1>2, <2>2, <2>3 DEF ParkKept
    <3>3. waitFor'[u] # NoTask /\ waitFor'[v] # NoTask /\ u # v =>
             <<u, v>> \in parked' \/ <<v, u>> \in parked'
      BY <1>1, <2>1, <2>2 DEF ParkKept
    <3>4. ASSUME NEW w \in Task, <<u, v>> \in parked', <<v, w>> \in parked'
          PROVE  <<u, w>> \in parked'
      BY <1>1, <1>2, <2>2, <2>3, <3>4 DEF ParkKept
    <3> QED BY <3>1, <3>2, <3>3, <3>4
  <2> QED BY <2>1, <2>4 DEF ParkKept
<1>6. \A u \in Task : Edges(u)' \subseteq Edges(u)
  BY <1>1, <1>2 DEF Edges, Exists, TypeOK
<1> QED BY <1>3, <1>4, <1>5, <1>6, NoNewEdges DEF Inv

\* A split is accepted: none of its pieces had come into being.
LEMMA AcceptSplitStep ==
    ASSUME Inv, NEW top \in Task, AcceptSplit(top)
    PROVE  Inv' /\ Released
<1>1. TypeOK /\ ParkKept /\ SplitOnce
  BY DEF Inv
<1>2. /\ status[top] \in {"queued", "review", "failed", "blocked"}
      /\ status' = [t \in Task |-> IF t = top THEN "blocked"
                                   ELSE IF t \in Pieces(top) THEN "queued" ELSE status[t]]
      /\ UNCHANGED <<dependsOn, waits, calls>>
  BY DEF AcceptSplit
<1>3. \A c \in Pieces(top) : status[c] = "unborn" /\ c # top
  <2>1. PICK c \in Task : Parent[c] = top /\ status[c] = "unborn"
    BY DEF AcceptSplit
  <2> QED BY <1>1, <1>2, <2>1, NoTaskAssumption DEF SplitOnce, Pieces
<1>4. TypeOK'
  BY <1>1, <1>2 DEF TypeOK, Statuses, waits
<1>5. ParkKept'
  BY <1>1, <1>2, <1>3 DEF ParkKept, waits
<1>6. SplitOnce'
  <2>1. ASSUME NEW c \in Task, NEW d \in Task, Parent[c] # NoTask, Parent[d] = Parent[c]
        PROVE  status'[c] = "unborn" <=> status'[d] = "unborn"
    BY <1>1, <1>2, <1>3, <2>1 DEF SplitOnce, Pieces
  <2> QED BY <1>1, <1>2, <2>1 DEF SplitOnce
<1>7. Released
  BY <1>2 DEF Released, waits
<1>8. \A t \in Task : Edges(t)' \subseteq Edges(t)
  BY <1>1, <1>2, <1>3 DEF Edges, Exists, SplitOnce, ParkKept, waits
<1> QED BY <1>4, <1>5, <1>6, <1>7, <1>8, NoNewEdges DEF Inv

\* A row is deleted, a request is withdrawn, or the server restarts.
LEMMA LossStep ==
    ASSUME Inv, \/ \E t \in Task : Delete(t) \/ Withdraw(t)
                \/ Restart
    PROVE  Inv' /\ Released
<1>1. TypeOK /\ ParkKept /\ SplitOnce
  BY DEF Inv
<1>2. ASSUME NEW t \in Task, Delete(t)
      PROVE  Inv' /\ Released
  <2>1. TypeOK' /\ SplitOnce' /\ Released
    BY <1>1, <1>2 DEF Delete, Exists, TypeOK, Statuses, Without, SplitOnce, Released
  <2>2. ParkKept'
    <3>1. \A u, v \in Task : <<u, v>> \in parked' <=> <<u, v>> \in parked /\ u # t /\ v # t
      BY <1>2 DEF Delete, Without
    <3>2. /\ waitFor'[t] = NoTask /\ request'[t] = NoTask
          /\ \A u \in Task \ {t} : /\ waitFor'[u] = waitFor[u] /\ request'[u] = request[u]
                                   /\ status'[u] = status[u]
      BY <1>1, <1>2 DEF Delete, TypeOK
    <3>3. ASSUME NEW u \in Task, NEW v \in Task
          PROVE  /\ <<u, v>> \in parked' => /\ waitFor'[u] # NoTask /\ waitFor'[v] # NoTask
                                            /\ <<v, u>> \notin parked'
                 /\ waitFor'[u] # NoTask /\ waitFor'[v] # NoTask /\ u # v =>
                       <<u, v>> \in parked' \/ <<v, u>> \in parked'
                 /\ \A w \in Task : <<u, v>> \in parked' /\ <<v, w>> \in parked' => <<u, w>> \in parked'
      BY <1>1, <3>1, <3>2 DEF ParkKept
    <3>4. \A u \in Task : /\ waitFor'[u] # NoTask => status'[u] = "blocked" /\ request'[u] = NoTask
                          /\ request'[u] # NoTask => status'[u] = "running"
      BY <1>1, <3>2 DEF ParkKept
    <3> QED BY <3>3, <3>4 DEF ParkKept
  <2>3. \A u \in Task : Edges(u)' \subseteq Edges(u)
    BY <1>1, <1>2 DEF Delete, Edges, Exists, TypeOK
  <2> QED BY <2>1, <2>2, <2>3, NoNewEdges DEF Inv
<1>3. ASSUME NEW t \in Task, Withdraw(t)
      PROVE  Inv' /\ Released
  <2>1. TypeOK' /\ ParkKept' /\ SplitOnce' /\ Released
    BY <1>1, <1>3 DEF Withdraw, TypeOK, ParkKept, SplitOnce, Released
  <2>2. \A u \in Task : Edges(u)' \subseteq Edges(u)
    BY <1>1, <1>3 DEF Withdraw, Edges, Exists, TypeOK
  <2> QED BY <2>1, <2>2, NoNewEdges DEF Inv
<1>4. ASSUME Restart
      PROVE  Inv' /\ Released
  <2>1. TypeOK' /\ SplitOnce' /\ Released
    BY <1>1, <1>4 DEF Restart, TypeOK, Statuses, SplitOnce, Released
  <2>2. ParkKept'
    BY <1>1, <1>4 DEF Restart, TypeOK, ParkKept
  <2>3. \A u \in Task : Edges(u)' \subseteq Edges(u)
    BY <1>1, <1>4 DEF Restart, Edges, Exists, TypeOK
  <2> QED BY <2>1, <2>2, <2>3, NoNewEdges DEF Inv
<1> QED BY <1>2, <1>3, <1>4

\* A call that ends a wait is answered or goes on.
LEMMA ResumeStepInv ==
    ASSUME Inv, NEW t \in Task, NEW c \in Caller, ResumeStep(t, c)
    PROVE  Inv' /\ Released
<1>1. calls \in Calls /\ TypeOK
  BY DEF Inv, TypeOK, Calls
<1>2. CASE ResumeKills(t, c)
  <2>1. calls' \in Calls /\ late' \in SUBSET Task
    BY <1>1, <1>2 DEF ResumeKills, Calls, waits, TypeOK
  <2> QED BY <1>2, <2>1, CallStep DEF ResumeKills, waits
<1>3. CASE ResumeMoves(t, c)
  <2>1. calls' \in Calls /\ ~Undisturbed(t)
    BY <1>1, <1>3 DEF ResumeMoves, Answered, Calls, Undisturbed
  <2>2. Inv' /\ \A u \in Task \ {t} : waitFor'[u] = waitFor[u]
    BY <1>3, <2>1, MoveStep DEF ResumeMoves, Moves
  <2> QED BY <2>1, <2>2 DEF Released
<1>4. CASE ResumeFails(t, c)
  <2>1. calls' \in Calls /\ ~Undisturbed(t)
    BY <1>1, <1>4 DEF ResumeFails, Answered, Calls, Undisturbed
  <2>2. CASE status[t] = "blocked"
    <3>1. Inv' /\ \A u \in Task \ {t} : waitFor'[u] = waitFor[u]
      BY <1>4, <2>1, <2>2, MoveStep DEF ResumeFails, Moves, Exists
    <3> QED BY <2>1, <3>1 DEF Released
  <2>3. CASE status[t] # "blocked"
    BY <1>1, <1>4, <2>1, <2>3, CallStep DEF ResumeFails, waits, TypeOK
  <2> QED BY <2>2, <2>3
<1> QED BY <1>2, <1>3, <1>4 DEF ResumeStep

\* A move of a task that is not parked.
LEMMA FreeMoveStep ==
    ASSUME Inv, NEW t \in Task, status[t] \in Statuses \ {"unborn", "gone"}, waitFor[t] = NoTask,
           NEW to \in Moves, Move(t, to), UNCHANGED <<dependsOn, calls>>
    PROVE  Inv' /\ Released
<1>1. calls' \in Calls /\ Exists(t)
  BY DEF Inv, TypeOK, Calls, Exists
<1>2. Inv' /\ \A u \in Task \ {t} : waitFor'[u] = waitFor[u]
  BY <1>1, MoveStep
<1> QED BY <1>2 DEF Released

\* Every step keeps the invariant, and ends no wait but by a call for it.
LEMMA NextInv ==
    ASSUME Inv, [Next]_waitVars
    PROVE  Inv' /\ Released
<1>1. \A t \in Task : status[t] # "blocked" => waitFor[t] = NoTask
  BY DEF Inv, ParkKept
<1>2. ASSUME NEW t \in Task, HumanStep(t)
      PROVE  Inv' /\ Released
  <2>1. CASE HumanStarts(t) \/ Requeue(t) \/ Complete(t) \/ Cancel(t) \/ Unblock(t)
    BY <1>1, <2>1, FreeMoveStep DEF HumanStarts, Requeue, Complete, Cancel, Unblock, Moves, Statuses
  <2>2. CASE EndWait(t)
    <3>1. calls' \in Calls /\ late' \in SUBSET Task
      BY <2>2 DEF EndWait, Inv, TypeOK, Calls, Caller, waits
    <3> QED BY <2>2, <3>1, CallStep DEF EndWait, waits
  <2> QED BY <1>2, <2>1, <2>2, LossStep, AcceptSplitStep, SetDependsOnStep DEF HumanStep
<1>3. ASSUME NEW t \in Task, AgentStep(t)
      PROVE  Inv' /\ Released
  <2>1. CASE (TurnEnds(t) /\ request[t] = NoTask) \/ TurnFails(t)
    BY <1>1, <2>1, FreeMoveStep DEF TurnEnds, TurnFails, Moves, Statuses
  <2> QED BY <1>3, <2>1, ParkStep, LossStep, AskWaitStep DEF AgentStep
<1>4. ASSUME NEW t \in Task, Claim(t)
      PROVE  Inv' /\ Released
  BY <1>1, <1>4, FreeMoveStep DEF Claim, Moves, Statuses
<1>5. ASSUME NEW t \in Task, Timeout(t) \/ ResumeFires(t)
      PROVE  Inv' /\ Released
  <2>1. calls' \in Calls /\ late' \in SUBSET Task
    BY <1>5 DEF Timeout, ResumeFires, Inv, TypeOK, Calls, Caller, waits
  <2> QED BY <1>5, <2>1, CallStep DEF Timeout, ResumeFires, waits
<1>6. CASE UNCHANGED waitVars
  <2>1. calls' \in Calls /\ late' \in SUBSET Task
    BY <1>6 DEF Inv, TypeOK, Calls, waitVars, waits
  <2> QED BY <1>6, <2>1, CallStep DEF waitVars, waits
<1> QED BY <1>2, <1>3, <1>4, <1>5, <1>6, LossStep, ResumeStepInv DEF Next

\* Nothing is declared or asked for in the beginning.
LEMMA InitInv ==
    Init => Inv
<1> SUFFICES ASSUME Init
             PROVE  Inv
  OBVIOUS
<1>1. TypeOK
  BY DEF Init, TypeOK, Statuses, Caller
<1>2. ParkKept
  BY DEF Init, ParkKept
<1>3. SplitOnce
  BY DEF Init, SplitOnce
<1>4. Acyclic(EdgeMap)
  <2>1. \A t \in Task : EdgeMap[t] = {}
    BY DEF Init, EdgeMap, Edges
  <2>2. ClosedIn(EdgeMap, {}) /\ {} \in SUBSET Task
    BY DEF ClosedIn
  <2> QED BY <2>1, <2>2 DEF Acyclic
<1> QED BY <1>1, <1>2, <1>3, <1>4, CycleFree DEF Inv

\* The invariant holds in every state.
LEMMA Invariant == Spec => []Inv
<1>1. Inv /\ [Next]_waitVars => Inv'
  BY NextInv
<1> QED BY <1>1, InitInv, PTL DEF Spec

---------------------------------------------------------------------------
(* The theorems *)

\* Every variable keeps its type.
THEOREM Typed == Spec => []TypeOK
<1>1. Inv => TypeOK
  BY DEF Inv
<1> QED BY <1>1, Invariant, PTL

\* No task comes after itself, through any chain of dependencies, waits and
\* requests, in whatever order they are declared, asked for and parked.
THEOREM NoCycle == Spec => []NoWaitCycle
<1>1. Inv => NoWaitCycle
  BY DEF Inv
<1> QED BY <1>1, Invariant, PTL

\* A parked wait ends by a call made for it, or with its row; until then the
\* sweep finds it in its place.
THEOREM WaitsKept == Spec => WaitKept
<1>1. Inv /\ [Next]_waitVars => ParkKept' /\ Released
  <2>1. Inv' => ParkKept'
    BY DEF Inv
  <2> QED BY <2>1, NextInv
<1>2. Released <=> \A t \in Task : waitFor[t] # NoTask /\ waitFor'[t] # waitFor[t] =>
           ~Undisturbed(t) \/ status'[t] = "gone"
  BY DEF Released
<1> QED BY <1>1, <1>2, Invariant, PTL DEF Spec, WaitKept

---------------------------------------------------------------------------
(* Split parents *)

\* No piece is deleted, and none is a parent itself: deleting the last piece at
\* work strands its parent, and a parent that lands does not resolve its own.
FlatAssumption ==
    /\ \A t \in Handled \cap Task : Parent[t] = NoTask
    /\ \A t \in Task : Parent[t] # NoTask => Parent[Parent[t]] = NoTask

\* A move resolves the parent it leaves with nothing to wait for.
LEMMA MoveLands ==
    ASSUME FlatAssumption, Inv, ParentLands, NEW t \in Task, NEW to \in Moves, Move(t, to)
    PROVE  ParentLands'
<1>1. TypeOK /\ ParkKept
  BY DEF Inv
<1>2. /\ status' \in [Task -> Statuses] /\ status'[t] = to
      /\ \A u \in Task \ {t} :
            \/ status'[u] = status[u]
            \/ /\ u = Parent[t] /\ status[u] = "blocked" /\ waitFor[u] = NoTask
               /\ status'[u] \in {"review", "settled"}
  BY <1>1, MovedStatuses DEF Move
<1>3. \A u \in Task \ {t} : waitFor'[u] = waitFor[u]
  BY <1>1 DEF Move, TypeOK
<1> SUFFICES ASSUME NEW top \in Task, Resolves(status, top)'
             PROVE  Pieces(top) = {}
  BY DEF ParentLands, Pieces
<1>4. /\ status'[top] = "blocked" /\ waitFor'[top] = NoTask
      /\ \A c \in Pieces(top) : status'[c] \in {"settled", "gone"}
  BY DEF Resolves, Pieces
<1>5. top # t /\ status[top] = "blocked" /\ waitFor[top] = NoTask
  BY <1>2, <1>3, <1>4 DEF Moves
<1>6. CASE t \notin Pieces(top)
  <2>1. \A c \in Pieces(top) : status[c] \in {"settled", "gone"} \/ c = Parent[t]
    BY <1>2, <1>4, <1>6 DEF Pieces
  <2>2. \A c \in Pieces(top) : c = Parent[t] => FALSE
    BY <1>5, NoTaskAssumption DEF Pieces, FlatAssumption
  <2>3. Resolves(status, top)
    BY <1>5, <2>1, <2>2 DEF Resolves
  <2> QED BY <2>3 DEF ParentLands
<1>7. CASE t \in Pieces(top)
  <2> DEFINE moved == [status EXCEPT ![t] = to]
  <2>1. Parent[t] = top /\ to = "settled" /\ top # NoTask
    BY <1>2, <1>4, <1>7, NoTaskAssumption DEF Pieces, Moves
  <2>2. /\ moved[t] = to /\ \A u \in Task \ {t} : moved[u] = status[u]
    BY <1>1 DEF TypeOK
  <2>3. \A c \in Pieces(top) \ {t} : status[c] \in {"settled", "gone"}
    BY <1>2, <1>4, <1>5, <2>1 DEF Pieces
  <2>4. Resolves(moved, top)
    BY <1>5, <2>1, <2>2, <2>3 DEF Resolves, Pieces
  <2>5. status' \in {[moved EXCEPT ![top] = s] : s \in {"review", "settled"}}
    BY <2>1, <2>2, <2>4 DEF Move, AfterMove
  <2>6. moved \in [Task -> Statuses]
    BY <1>1 DEF TypeOK, Moves, Statuses
  <2> HIDE DEF moved
  <2>7. status'[top] \in {"review", "settled"}
    BY <2>5, <2>6
  <2> QED BY <1>4, <2>7
<1> QED BY <1>6, <1>7

\* Every step leaves no parent behind.
LEMMA LandsNext ==
    ASSUME FlatAssumption, Inv, ParentLands, [Next]_waitVars
    PROVE  ParentLands'
<1>1. TypeOK /\ ParkKept /\ SplitOnce
  BY DEF Inv
<1>2. ASSUME \E t \in Task, to \in Moves : Move(t, to)
      PROVE  ParentLands'
  BY <1>2, MoveLands
<1>3. ASSUME UNCHANGED <<status, waitFor>>
      PROVE  ParentLands'
  BY <1>3 DEF ParentLands, Resolves, Pieces
<1>4. ASSUME NEW top \in Task, AcceptSplit(top)
      PROVE  ParentLands'
  <2>1. /\ status[top] \in {"queued", "review", "failed", "blocked"}
        /\ status' = [t \in Task |-> IF t = top THEN "blocked"
                                     ELSE IF t \in Pieces(top) THEN "queued" ELSE status[t]]
        /\ waitFor' = waitFor
    BY <1>4 DEF AcceptSplit, waits
  <2>2. PICK c \in Task : Parent[c] = top /\ status[c] = "unborn"
    BY <1>4 DEF AcceptSplit
  <2>3. Parent[top] = NoTask /\ c # top
    BY <2>1, <2>2, NoTaskAssumption DEF FlatAssumption
  <2>4. ASSUME NEW o \in Task, Resolves(status, o)'
        PROVE  Pieces(o) = {}
    <3>1. o # top
      BY <2>1, <2>2, <2>3, <2>4 DEF Resolves, Pieces
    <3>2. \A d \in Pieces(o) : status'[d] = status[d]
      BY <2>1, <2>3, <3>1, NoTaskAssumption DEF Pieces
    <3>3. status[o] = "blocked"
      BY <2>1, <2>4, <3>1 DEF Resolves
    <3> QED BY <2>1, <2>4, <3>2, <3>3 DEF Resolves, ParentLands, Pieces
  <2> QED BY <2>4 DEF ParentLands, Pieces
<1>5. ASSUME NEW t \in Task, Delete(t)
      PROVE  ParentLands'
  <2>1. /\ Parent[t] = NoTask
        /\ status' = [status EXCEPT ![t] = "gone"] /\ waitFor' = [waitFor EXCEPT ![t] = NoTask]
    BY <1>5 DEF Delete, FlatAssumption
  <2>2. ASSUME NEW o \in Task, Resolves(status, o)'
        PROVE  Pieces(o) = {}
    <3>1. o # t /\ \A d \in Pieces(o) : d # t
      BY <1>1, <2>1, <2>2, NoTaskAssumption DEF Resolves, Pieces, TypeOK
    <3>2. Resolves(status, o)
      BY <1>1, <2>1, <2>2, <3>1 DEF Resolves, Pieces, TypeOK
    <3> QED BY <3>2 DEF ParentLands
  <2> QED BY <2>2 DEF ParentLands, Pieces
<1>6. ASSUME NEW t \in Task, TurnEnds(t), request[t] # NoTask
      PROVE  ParentLands'
  <2>1. /\ status[t] = "running"
        /\ status' = [status EXCEPT ![t] = "blocked"]
        /\ waitFor' = [waitFor EXCEPT ![t] = request[t]]
    BY <1>6 DEF TurnEnds
  <2>2. ASSUME NEW o \in Task, Resolves(status, o)'
        PROVE  Pieces(o) = {}
    <3>1. o # t /\ \A d \in Pieces(o) : d # t
      BY <1>1, <1>6, <2>1, <2>2 DEF Resolves, Pieces, TypeOK
    <3>2. Resolves(status, o)
      BY <1>1, <2>1, <2>2, <3>1 DEF Resolves, Pieces, TypeOK
    <3> QED BY <3>2 DEF ParentLands
  <2> QED BY <2>2 DEF ParentLands, Pieces
<1>7. ASSUME Restart
      PROVE  ParentLands'
  <2>1. ASSUME NEW o \in Task, Resolves(status, o)'
        PROVE  Pieces(o) = {}
    <3>1. Resolves(status, o)
      BY <1>1, <1>7, <2>1 DEF Restart, Resolves, Pieces, TypeOK
    <3> QED BY <3>1 DEF ParentLands
  <2> QED BY <2>1 DEF ParentLands, Pieces
<1>8. ASSUME NEW t \in Task, HumanStep(t)
      PROVE  ParentLands'
  BY <1>2, <1>3, <1>4, <1>5, <1>8
  DEF HumanStep, HumanStarts, Requeue, Complete, Cancel, Unblock, EndWait, SetDependsOn, Moves, waits
<1>9. ASSUME NEW t \in Task, AgentStep(t)
      PROVE  ParentLands'
  <2>1. CASE TurnEnds(t)
    BY <1>2, <1>6, <2>1 DEF TurnEnds, Moves
  <2> QED BY <1>2, <1>3, <1>9, <2>1 DEF AgentStep, TurnFails, Withdraw, AskWait, Moves
<1>10. ASSUME NEW t \in Task, NEW c \in Caller, ResumeStep(t, c)
      PROVE  ParentLands'
  BY <1>2, <1>3, <1>10 DEF ResumeStep, ResumeKills, ResumeMoves, ResumeFails, Moves, waits
<1> QED
  BY <1>2, <1>3, <1>7, <1>8, <1>9, <1>10
  DEF Next, Claim, Timeout, ResumeFires, Moves, waits, waitVars

\* A split parent does not stay blocked once its pieces are settled, whatever
\* they or the parent wait for meanwhile.
THEOREM ParentsLand ==
    ASSUME FlatAssumption
    PROVE  Spec => []ParentLands
<1>1. Init => ParentLands
  BY DEF Init, ParentLands, Resolves
<1>2. Inv /\ ParentLands /\ [Next]_waitVars => ParentLands'
  BY LandsNext
<1> QED BY <1>1, <1>2, Invariant, PTL DEF Spec

---------------------------------------------------------------------------
(* Resumes and slots *)

\* The only step that puts a call of the scheduler on its way.
LEMMA OnlyFires ==
    ASSUME TypeOK, Next, NEW t \in Task,
           calls[t]["scheduler"] = "none", calls'[t]["scheduler"] # "none"
    PROVE  ResumeFires(t)
<1>1. calls \in Calls
  BY DEF TypeOK, Calls
<1>2. calls' # calls
  OBVIOUS
<1>3. ASSUME NEW u \in Task, HumanStep(u)
      PROVE  FALSE
  <2>1. EndWait(u)
    BY <1>2, <1>3 DEF HumanStep, HumanStarts, Requeue, Complete, Cancel, Delete, AcceptSplit, Unblock,
                      SetDependsOn
  <2> QED BY <1>1, <2>1 DEF EndWait, Calls, Caller
<1>4. ASSUME NEW u \in Task, NEW c \in Caller, ResumeStep(u, c)
      PROVE  FALSE
  BY <1>1, <1>4 DEF ResumeStep, ResumeKills, ResumeMoves, ResumeFails, Answered, Calls, Caller
<1>5. ASSUME Restart
      PROVE  FALSE
  BY <1>5 DEF Restart, Caller
<1>6. ASSUME NEW u \in Task, ResumeFires(u), u # t
      PROVE  FALSE
  BY <1>1, <1>6 DEF ResumeFires, Calls, Caller
<1> QED
  BY <1>2, <1>3, <1>4, <1>5, <1>6
  DEF Next, AgentStep, TurnEnds, TurnFails, Withdraw, AskWait, Claim, Timeout

\* What ResumesWithinCap says of a step.
CapStep == \A t \in Task : calls[t]["scheduler"] = "none" /\ calls'[t]["scheduler"] # "none"
             => Cardinality({u \in Task : status[u] = "running" \/ calls'[u]["scheduler"] # "none"})
                  <= Cap

\* A resume on its way is counted with the working sessions: the pass never
\* takes more than Cap slots.
THEOREM WithinCap == Spec => ResumesWithinCap
<1>1. ASSUME TypeOK, Next, NEW t \in Task,
             calls[t]["scheduler"] = "none", calls'[t]["scheduler"] # "none"
      PROVE  Cardinality({u \in Task : status[u] = "running" \/ calls'[u]["scheduler"] # "none"})
                <= Cap
  <2> DEFINE busy == {u \in Task : status[u] = "running"} \cup InFlight("scheduler")
             next == {u \in Task : status[u] = "running" \/ calls'[u]["scheduler"] # "none"}
  <2>1. ResumeFires(t)
    BY <1>1, OnlyFires
  <2>2. next = busy \cup {t}
    BY <1>1, <2>1 DEF ResumeFires, InFlight, TypeOK, Caller
  <2>3. Cardinality(busy) < Cap
    BY <2>1 DEF ResumeFires, SlotFree
  <2>4. busy \in SUBSET Task
    BY DEF InFlight
  <2> HIDE DEF busy, next
  <2>5. IsFiniteSet(busy) /\ Cardinality(busy) \in Nat
    BY <2>4, CapAssumption, FS_Subset, FS_CardinalityType
  <2>6. Cardinality(next) <= Cardinality(busy) + 1 /\ Cardinality(next) \in Nat
    BY <2>2, <2>5, FS_AddElement
  <2>7. Cardinality(next) <= Cap
    BY <2>3, <2>5, <2>6, CapAssumption
  <2> QED BY <2>7 DEF next
<1>2. TypeOK /\ [Next]_waitVars => [calls' # calls => CapStep]_waitVars
  BY <1>1 DEF CapStep
<1>3. CapStep <=> \A t \in Task : calls[t]["scheduler"] = "none" /\ calls'[t]["scheduler"] # "none"
             => Cardinality({u \in Task : status[u] = "running" \/ calls'[u]["scheduler"] # "none"})
                  <= Cap
  BY DEF CapStep
<1> QED BY <1>2, <1>3, Typed, PTL DEF Spec, ResumesWithinCap

---------------------------------------------------------------------------
(* The parts side by side *)

\* A behaviour of the parts side by side is one of each part: it takes its own
\* steps while it is the one at work, and none otherwise.
LEMMA PartsBehave ==
    /\ PartsSpec => H!Spec
    /\ PartsSpec => A!Spec
    /\ PartsSpec => J!Spec
    /\ PartsSpec => V!VerifySpec
    /\ PartsSpec => P!Spec
    /\ PartsSpec => W!Spec
    /\ PartsSpec => D!Spec
    /\ PartsSpec => Spec
<1>1. PartsInit => H!Init /\ A!Init /\ J!Init /\ V!Init /\ P!Init /\ W!Init /\ D!Init /\ Init
  BY DEF PartsInit
<1>2. [PartsNext]_partVars =>
         [H!Next]_(H!vars) /\ [A!Next]_(A!approvalVars) /\ [J!Next]_(J!jobVars)
  BY DEF PartsNext, partVars, slotVars, approvalVars, jobVars, H!vars, A!approvalVars, J!jobVars
<1>3. [PartsNext]_partVars => [V!VerifyNext]_(V!verifyVars)
  BY DEF PartsNext, partVars, loopVars, V!verifyVars
<1>4. [PartsNext]_partVars => [P!Next]_(P!vars)
  BY DEF PartsNext, partVars, pauseVars, P!vars
<1>5. [PartsNext]_partVars => [W!Next]_(W!treeVars)
  BY DEF PartsNext, partVars, treeVars, W!treeVars
<1>6. [PartsNext]_partVars => [D!Next]_(D!vars)
  BY DEF PartsNext, partVars, mailVars, D!vars
<1>7. [PartsNext]_partVars => [Next]_waitVars
  BY DEF PartsNext, partVars
<1> QED
  BY <1>1, <1>2, <1>3, <1>4, <1>5, <1>6, <1>7, PTL
  DEF PartsSpec, H!Spec, A!Spec, J!Spec, V!VerifySpec, P!Spec, W!Spec, D!Spec, Spec

---------------------------------------------------------------------------
(* Heavy slots *)

\* No slot is left free while a ticket could have it.
THEOREM SlotsBusy == PartsSpec => []NoSlotIdle
<1>1. H!Spec => []H!NoSlotIdle
  BY PartsAssumption, H!Busy
<1>2. H!NoSlotIdle => NoSlotIdle
  BY DEF NoSlotIdle
<1> QED BY <1>1, <1>2, PartsBehave, PTL

\* Every open poll belongs to a ticket that still waits.
THEOREM SlotsAnswer == PartsSpec => []PollsAnswered
<1>1. H!Spec => []H!PollsAnswered
  BY PartsAssumption, H!Answered
<1>2. H!PollsAnswered => PollsAnswered
  BY DEF PollsAnswered
<1> QED BY <1>1, <1>2, PartsBehave, PTL

\* No lease outlives the process of its run.
THEOREM SlotsFreed == PartsSpec => []LeaseOfLiveRun
<1>1. H!Spec => []H!LeaseOfLiveRun
  BY PartsAssumption, H!LeasesDie
<1>2. H!LeaseOfLiveRun => LeaseOfLiveRun
  BY DEF LeaseOfLiveRun
<1> QED BY <1>1, <1>2, PartsBehave, PTL

\* Slots are granted within the count in force, and in the order of the queue.
THEOREM SlotsInOrder == PartsSpec => GrantsInOrder
<1>1. H!Spec => H!GrantsInOrder
  BY PartsAssumption, H!Grants
<1> QED BY <1>1, PartsBehave, PTL DEF GrantsInOrder

---------------------------------------------------------------------------
(* Approvals *)

\* What the server pushes was approved, is still what was described, and is
\* pushed once.
THEOREM ApprovalsPushOnce == PartsSpec => PushedAsApproved
<1>1. A!Spec => A!PushedAsApproved
  BY PartsAssumption, A!PushesOnce
<1> QED BY <1>1, PartsBehave, PTL DEF PushedAsApproved

\* No poll stands open on an answer nobody is about to tell.
THEOREM ApprovalsHeard == PartsSpec => []PollsHear
<1>1. A!Spec => []A!PollsHear
  BY PartsAssumption, A!Hears
<1>2. A!PollsHear => PollsHear
  BY DEF PollsHear
<1> QED BY <1>1, <1>2, PartsBehave, PTL

---------------------------------------------------------------------------
(* Jobs *)

\* A job reads running exactly while a run of it is alive.
THEOREM JobsAlive == PartsSpec => []RunningIsLive
<1>1. J!Spec => []J!RunningIsLive
  BY PartsAssumption, J!RunningAlive
<1>2. J!RunningIsLive => RunningIsLive
  BY DEF RunningIsLive
<1> QED BY <1>1, <1>2, PartsBehave, PTL

\* On its own a job runs once for a slot of its schedule.
THEOREM JobsOnce == PartsSpec => OncePerSlot
<1>1. J!Spec => J!OncePerSlot
  BY PartsAssumption, J!Once
<1> QED BY <1>1, PartsBehave, PTL DEF OncePerSlot

---------------------------------------------------------------------------
(* Verify *)

\* No round is left that nobody works on, in a pause or out of it, where no session
\* ends with code 0 in its turn and humans wait for what a pause left.
THEOREM RoundsStayAlive ==
    ASSUME Detours \subseteq {"pause"}
    PROVE  PartsSpec => []RoundAlive
<1>1. V!VerifySpec => []V!RoundAlive
  BY PartsAssumption, V!RoundsLive
<1>2. V!RoundAlive => RoundAlive
  BY DEF RoundAlive
<1> QED BY <1>1, <1>2, PartsBehave, PTL

\* No change lands that its reviewer has not found clean, where no pause and no
\* session that ends with code 0 in its turn puts the task in review unread.
THEOREM LandingsReviewed ==
    ASSUME Detours \cap {"pause", "exit", "late"} = {}
    PROVE  PartsSpec => LandsReviewed
<1>1. V!VerifySpec => V!LandsReviewed
  BY PartsAssumption, V!Reviews
<1> QED BY <1>1, PartsBehave, PTL DEF LandsReviewed

\* Nor one its checks have not passed.
THEOREM LandingsChecked ==
    ASSUME Detours \cap {"pause", "exit", "late"} = {}
    PROVE  PartsSpec => LandsChecked
<1>1. V!VerifySpec => V!LandsChecked
  BY PartsAssumption, V!Checks
<1> QED BY <1>1, PartsBehave, PTL DEF LandsChecked

---------------------------------------------------------------------------
(* Pause all *)

\* No pause loses a turn, where Continue waits for what it cut and no restart
\* catches a start or a retry on its way.
THEOREM PausesKeepTurns ==
    ASSUME ~Hurried, ~Forced
    PROVE  PartsSpec => []TurnKept
<1>1. P!Spec => []P!TurnKept
  BY PartsAssumption, P!TurnsSurvive
<1>2. P!TurnKept => TurnKept
  BY DEF TurnKept
<1> QED BY <1>1, <1>2, PartsBehave, PTL

\* Nor a round.
THEOREM PausesKeepRounds ==
    ASSUME ~Hurried
    PROVE  PartsSpec => []RoundKept
<1>1. P!Spec => []P!RoundKept
  BY PartsAssumption, P!RoundsSurvive
<1>2. P!RoundKept => RoundKept
  BY DEF RoundKept
<1> QED BY <1>1, <1>2, PartsBehave, PTL

\* Nor what its agent had written: no other task is claimed in its checkout.
THEOREM PausesKeepWork ==
    ASSUME ~Hurried, ~Forced
    PROVE  PartsSpec => CutWorkUndisturbed
<1>1. P!Spec => P!CutWorkUndisturbed
  BY PartsAssumption, P!CutWorkStays
<1> QED BY <1>1, PartsBehave, PTL DEF CutWorkUndisturbed

---------------------------------------------------------------------------
(* Worktrees: the types *)

\* The rows, and where a land or a removal can be.
Stages == {"none", "asked", "prepares", "fetches", "rebases", "rebasing", "squashes", "checks",
           "pushes", "settles", "confirms", "sweeps"}
LandRow == [at : Stages, seen : W!Tree, try : 0 .. Tries]
DirRow == [there : BOOLEAN, dirty : SUBSET Patch]
BranchRow == [there : BOOLEAN, base : W!Tree, own : SUBSET Patch]
HeadRow == [on : BOOLEAN, onto : W!Tree, side : SUBSET Patch]
TreesTyped == W!TypeOK /\ land \in LandRow

\* The steps of a land keep its row one.
LEMMA LandRows ==
    ASSUME W!TriesAssumption
    PROVE  /\ W!NoLand \in LandRow
           /\ \A l \in LandRow, w \in Stages : [l EXCEPT !.at = w] \in LandRow
           /\ \A now \in W!Tree : [at |-> "fetches", seen |-> now, try |-> 1] \in LandRow
           /\ \A l \in LandRow : l.try < Tries =>
                 [l EXCEPT !.at = "fetches", !.try = @ + 1] \in LandRow
<1>1. {} \in W!Tree /\ 0 \in 0 .. Tries /\ 1 \in 0 .. Tries
  BY DEF W!Tree, W!TriesAssumption
<1>2. W!NoLand \in LandRow
  BY <1>1 DEF LandRow, Stages, W!NoLand
<1>3. ASSUME NEW l \in LandRow, NEW w \in Stages
      PROVE  [l EXCEPT !.at = w] \in LandRow
  BY DEF LandRow
<1>4. ASSUME NEW now \in W!Tree
      PROVE  [at |-> "fetches", seen |-> now, try |-> 1] \in LandRow
  BY <1>1 DEF LandRow, Stages
<1>5. ASSUME NEW l \in LandRow, l.try < Tries
      PROVE  [l EXCEPT !.at = "fetches", !.try = @ + 1] \in LandRow
  <2>1. l.try \in 0 .. Tries
    BY DEF LandRow
  <2>2. l.try + 1 \in 0 .. Tries
    BY <1>5, <2>1 DEF W!TriesAssumption
  <2> QED BY <2>2 DEF LandRow, Stages
<1> QED BY <1>2, <1>3, <1>4, <1>5

\* A push that is tried again keeps what the land saw when it began.
LEMMA LandRetried ==
    \A l \in LandRow : /\ [l EXCEPT !.at = "fetches", !.try = @ + 1].at = "fetches"
                       /\ [l EXCEPT !.at = "fetches", !.try = @ + 1].seen = l.seen
BY DEF LandRow

\* The steps of git keep the rows of the worktree, the branch and the head.
LEMMA TreeRows ==
    /\ W!NoDir \in DirRow /\ W!NoBranch \in BranchRow /\ W!Attached \in HeadRow
    /\ \A d \in DirRow : /\ d.dirty \in SUBSET Patch
                        /\ [d EXCEPT !.there = TRUE] \in DirRow
                        /\ \A s \in SUBSET Patch : [d EXCEPT !.dirty = s] \in DirRow
    /\ \A s \in BranchRow : s.base \in W!Tree /\ s.own \in SUBSET Patch
    /\ \A s \in BranchRow, v \in SUBSET Patch : [s EXCEPT !.own = v] \in BranchRow
    /\ \A s \in BranchRow, u \in W!Tree, v \in SUBSET Patch :
          [s EXCEPT !.base = u, !.own = v] \in BranchRow
    /\ \A u \in W!Tree, v \in SUBSET Patch :
          /\ [there |-> TRUE, base |-> u, own |-> v] \in BranchRow
          /\ [on |-> TRUE, onto |-> u, side |-> v] \in HeadRow
    /\ \A h \in HeadRow : h.onto \in W!Tree /\ h.side \in SUBSET Patch
    /\ \A h \in HeadRow, v \in SUBSET Patch : [h EXCEPT !.side = v] \in HeadRow
BY DEF DirRow, BranchRow, HeadRow, W!NoDir, W!NoBranch, W!Attached, W!Tree

\* The types hold at first.
LEMMA TreeInit == W!TriesAssumption => (W!Init => TreesTyped)
<1> SUFFICES ASSUME W!TriesAssumption, W!Init PROVE TreesTyped OBVIOUS
<1>1. W!NoLand \in LandRow BY LandRows
<1>2. W!NoDir \in DirRow /\ W!NoBranch \in BranchRow /\ W!Attached \in HeadRow
  BY TreeRows
<1>3. /\ main \in W!Tree /\ track \in W!Tree /\ red \in SUBSET W!Tree /\ vetted \in SUBSET W!Tree
      /\ written \in SUBSET Patch
  BY DEF W!Init, W!Tree
<1>4. land.at = "none" /\ land.seen \in W!Tree /\ land.try \in 0 .. Tries /\ cuts \in 0 .. MaxCuts
  BY DEF W!Init, W!NoLand, W!Tree, W!TriesAssumption
<1> QED BY <1>1, <1>2, <1>3, <1>4 DEF W!Init, TreesTyped, W!TypeOK, DirRow, BranchRow,
    HeadRow

\* Every step keeps the types.
LEMMA TreeStep ==
    ASSUME W!TriesAssumption, TreesTyped, [W!Next]_treeVars
    PROVE  TreesTyped'
<1>0. dir \in DirRow /\ branch \in BranchRow /\ detached \in HeadRow
  BY DEF TreesTyped, W!TypeOK, DirRow, BranchRow, HeadRow
<1>1. land' \in LandRow
  <2> USE LandRows DEF TreesTyped, Stages, W!At
  <2>1. CASE W!LandPrepares 
    <3>1. branch'.base \cup branch'.own \in W!Tree
      <4>1. W!EnsuredBranch \in BranchRow
        BY <1>0, TreeRows DEF W!EnsuredBranch, W!TypeOK, W!Tree
      <4>2. branch' \in BranchRow
        BY <1>0, <2>1, <4>1, TreeRows DEF W!LandPrepares
      <4> QED BY <4>2, TreeRows DEF W!Tree
    <3> QED BY <2>1, <3>1 DEF W!LandPrepares
  <2>2. CASE W!LandPushes BY <2>2 DEF W!LandPushes
  <2>3. CASE W!FollowUp \/ W!Starts \/ W!Spawns \/ W!Writes \/ W!Commits \/ W!TurnEnds
               \/ W!Cancel \/ W!RoundSettles
               \/ W!OthersLand \/ W!Evict \/ W!MarkPublished \/ UNCHANGED treeVars
    BY <2>3 DEF W!FollowUp, W!Starts, W!Spawns, W!Writes, W!Commits, W!TurnEnds, W!Cancel,
        W!RoundSettles, W!OthersLand, W!Evict, W!MarkPublished, treeVars
  <2>4. CASE W!Publish \/ W!LandBegins \/ W!LandFetches \/ W!LandRebases \/ W!LandRebased
    BY <2>4 DEF W!Publish, W!LandBegins, W!LandFetches, W!LandRebases, W!LandRebased
  <2>5. CASE W!LandConflicts \/ W!LandSquashes \/ W!LandChecks \/ W!LandFails \/ W!LandSettles
    BY <2>5 DEF W!LandConflicts, W!LandSquashes, W!LandChecks, W!LandFails, W!LandSettles
  <2>6. CASE W!LandCleans \/ W!SweepLooks \/ W!SweepRemoves \/ W!Restart
    BY <2>6 DEF W!LandCleans, W!SweepLooks, W!SweepRemoves, W!Restart
  <2> QED BY <2>1, <2>2, <2>3, <2>4, <2>5, <2>6 DEF W!Next
<1>2. /\ W!Landing' \/ land'.at \in {"none", "asked", "settles", "confirms", "sweeps"}
      /\ land'.seen \in W!Tree /\ land'.try \in 0 .. Tries
  BY <1>1 DEF LandRow, W!Landing, Stages
<1>3. dir' \in DirRow /\ written' \in SUBSET Patch
  <2> USE <1>0, TreeRows DEF TreesTyped, W!TypeOK
  <2>1. CASE W!Writes
    <3>1. PICK x \in Patch \ written : dir' = [dir EXCEPT !.dirty = @ \cup {x}]
                                     /\ written' = written \cup {x}
      BY <2>1 DEF W!Writes
    <3>2. dir.dirty \cup {x} \in SUBSET Patch
      OBVIOUS
    <3> QED BY <3>1, <3>2
  <2>2. CASE W!Commits
    BY <2>2 DEF W!Commits
  <2>3. CASE W!Spawns \/ W!LandPrepares
    <3>1. W!EnsuredDir \in DirRow /\ {} \in SUBSET Patch
      BY DEF W!EnsuredDir
    <3>2. /\ dir' = W!EnsuredDir \/ dir' = [W!EnsuredDir EXCEPT !.dirty = {}]
          /\ written' = written
      BY <2>3 DEF W!Spawns, W!LandPrepares
    <3>3. [W!EnsuredDir EXCEPT !.dirty = {}] \in DirRow
      BY <3>1 DEF DirRow
    <3> QED BY <3>1, <3>2, <3>3
  <2>4. CASE W!LandCleans \/ W!SweepRemoves \/ W!Evict
    <3>1. dir' = W!NoDir /\ written' = written
      BY <2>4 DEF W!LandCleans, W!SweepRemoves, W!Evict
    <3> QED BY <3>1
  <2>5. CASE UNCHANGED <<dir, written>> BY <2>5
  <2> QED BY <2>1, <2>2, <2>3, <2>4, <2>5 DEF W!Next, treeVars, W!FollowUp, W!Starts,
      W!TurnEnds, W!Cancel, W!RoundSettles, W!Publish, W!LandBegins, W!LandFetches,
      W!LandRebases, W!LandRebased, W!LandConflicts, W!LandSquashes, W!LandChecks,
      W!LandPushes, W!LandFails, W!LandSettles, W!MarkPublished, W!SweepLooks, W!OthersLand,
      W!Restart
<1>4. branch' \in BranchRow /\ detached' \in HeadRow
  <2> USE <1>0, TreeRows
  <2>0. \A s, v \in SUBSET Patch : s \cup v \in SUBSET Patch /\ s \ v \in SUBSET Patch
    OBVIOUS
  <2>1. {} \in SUBSET Patch /\ {} \in W!Tree /\ main \in W!Tree /\ track \in W!Tree
    BY DEF TreesTyped, W!TypeOK, W!Tree
  <2>2. dir.dirty \cup branch.own \in SUBSET Patch /\ branch.own \cup dir.dirty \in SUBSET Patch
        /\ detached.side \cup dir.dirty \in SUBSET Patch
    BY <2>0
  <2>3. CASE W!Commits
    <3>1. \/ detached' = [detached EXCEPT !.side = detached.side \cup dir.dirty] /\ branch' = branch
          \/ branch' = [branch EXCEPT !.own = branch.own \cup dir.dirty] /\ detached' = detached
      BY <2>3 DEF W!Commits, W!Committed
    <3> QED BY <2>2, <3>1
  <2>4. CASE W!Spawns \/ W!LandPrepares
    <3>1. W!EnsuredBranch \in BranchRow
      BY <2>1 DEF W!EnsuredBranch
    <3>2. W!EnsuredBranch.own \cup dir.dirty \in SUBSET Patch
      BY <2>0, <3>1
    <3>3. /\ \/ branch' = branch \/ branch' = W!EnsuredBranch
             \/ branch' = [W!EnsuredBranch EXCEPT !.own = W!EnsuredBranch.own \cup dir.dirty]
          /\ detached' = detached \/ detached' = W!Attached
      BY <2>4 DEF W!Spawns, W!LandPrepares
    <3> QED BY <3>1, <3>2, <3>3
  <2>5. CASE W!LandCleans \/ W!SweepRemoves \/ W!Evict
    <3>1. /\ \/ branch' = W!NoBranch \/ branch' = [branch EXCEPT !.own = branch.own]
             \/ branch' = [branch EXCEPT !.own = branch.own \cup dir.dirty]
          /\ detached' = W!Attached
      BY <2>5 DEF W!LandCleans, W!SweepRemoves, W!Evict
    <3> QED BY <2>2, <3>1
  <2>6. CASE W!LandRebases \/ W!LandConflicts
    BY <2>1, <2>6 DEF W!LandRebases, W!LandConflicts
  <2>7. CASE W!LandRebased \/ W!Restart
    <3>1. (branch.own \cup detached.side) \ detached.onto \in SUBSET Patch
      BY <2>0
    <3>2. W!Rebased = [branch EXCEPT !.base = detached.onto,
                                   !.own = (branch.own \cup detached.side) \ detached.onto]
      BY DEF W!Rebased
    <3>3. W!Rebased \in BranchRow
      BY <3>1, <3>2
    <3> QED BY <2>7, <3>3 DEF W!LandRebased, W!Restart
  <2>8. CASE UNCHANGED <<branch, detached>>
    BY <2>8
  <2> QED
    BY <2>3, <2>4, <2>5, <2>6, <2>7, <2>8
    DEF W!Next, treeVars, W!FollowUp, W!Starts, W!Writes, W!TurnEnds, W!Cancel,
        W!RoundSettles, W!Publish, W!LandBegins, W!LandFetches, W!LandSquashes,
        W!LandChecks, W!LandPushes, W!LandFails, W!LandSettles,
        W!MarkPublished, W!SweepLooks, W!OthersLand
<1>8. main' \in W!Tree /\ track' \in W!Tree
  <2>1. W!Head \in W!Tree /\ \A x \in Foreign : main \cup {x} \in W!Tree
    BY DEF W!Head, W!Tree, TreesTyped, W!TypeOK
  <2> QED
    BY <2>1 DEF W!EnsuredTrack, TreesTyped, W!TypeOK, W!Next, treeVars, W!FollowUp,
        W!Starts, W!Spawns, W!Writes, W!Commits, W!TurnEnds, W!Cancel, W!RoundSettles,
        W!Publish, W!LandBegins, W!LandPrepares, W!LandFetches, W!LandRebases,
        W!LandRebased, W!LandConflicts, W!LandSquashes, W!LandChecks, W!LandPushes,
        W!LandFails, W!LandSettles, W!MarkPublished, W!LandCleans, W!SweepLooks,
        W!SweepRemoves, W!Evict, W!OthersLand, W!Restart
<1>5. /\ landing' \in {"draft", "running", "review", "failed", "cancelled", "published"}
      /\ agent' \in {"none", "starts", "ensures", "works"}
      /\ open' \in BOOLEAN
  BY DEF TreesTyped, W!TypeOK, W!Next, treeVars, W!FollowUp, W!Starts, W!Spawns, W!Writes,
      W!Commits, W!TurnEnds, W!Cancel, W!RoundSettles, W!Publish, W!LandBegins,
      W!LandPrepares, W!LandFetches, W!LandRebases, W!LandRebased, W!LandConflicts,
      W!LandSquashes, W!LandChecks, W!LandPushes, W!LandFails, W!LandSettles,
      W!MarkPublished, W!LandCleans, W!SweepLooks, W!SweepRemoves, W!Evict, W!OthersLand,
      W!Restart
<1>6. cuts' \in 0 .. MaxCuts
  <2>1. cuts' = cuts \/ (cuts < MaxCuts /\ cuts' = cuts + 1)
    BY DEF W!Next, treeVars, W!FollowUp, W!Starts, W!Spawns, W!Writes, W!Commits,
        W!TurnEnds, W!Cancel, W!RoundSettles, W!Publish, W!LandBegins, W!LandPrepares,
        W!LandFetches, W!LandRebases, W!LandRebased, W!LandConflicts, W!LandSquashes,
        W!LandChecks, W!LandPushes, W!LandFails, W!LandSettles, W!MarkPublished,
        W!LandCleans, W!SweepLooks, W!SweepRemoves, W!Evict, W!OthersLand, W!Restart
  <2> QED BY <2>1 DEF TreesTyped, W!TypeOK, W!TriesAssumption
<1>7. red' \in SUBSET W!Tree /\ vetted' \in SUBSET W!Tree
  <2>1. W!Head \in W!Tree /\ W!Head \cup dir.dirty \in W!Tree
    BY DEF TreesTyped, W!TypeOK, W!Head, W!Tree
  <2> QED
  BY <2>1 DEF TreesTyped, W!TypeOK, W!Next, treeVars, W!FollowUp, W!Starts, W!Spawns,
      W!Writes, W!Commits, W!TurnEnds, W!Cancel, W!RoundSettles, W!Publish, W!LandBegins,
      W!LandPrepares, W!LandFetches, W!LandRebases, W!LandRebased, W!LandConflicts,
      W!LandSquashes, W!LandChecks, W!LandPushes, W!LandFails, W!LandSettles,
      W!MarkPublished, W!LandCleans, W!SweepLooks, W!SweepRemoves, W!Evict, W!OthersLand,
      W!Restart
<1> QED BY <1>1, <1>2, <1>3, <1>4, <1>5, <1>6, <1>7, <1>8 DEF TreesTyped, W!TypeOK, DirRow,
    BranchRow, HeadRow

\* A land under way, before it settles, and one past the rebase that was left.
Landed == land.at \in {"fetches", "rebases", "squashes", "checks", "pushes", "settles"}
InLand == W!Landing \/ land.at = "asked"

\* What the branch is based on, was fetched, or is rebased onto has landed.
OnMain == branch.base \subseteq main /\ track \subseteq main /\ detached.onto \subseteq main

\* What is not committed is in a directory, and a directory is of a branch.
OnBranch ==
    /\ ~dir.there => dir.dirty = {}
    /\ dir.there => branch.there
    /\ ~branch.there => branch.own = {}

\* A rebase under way or left half done holds no work of its own: it begins in
\* a clean directory, with no agent, and none starts on it.
HalfDone ==
    /\ detached.side = {}
    /\ detached.on => agent = "none" /\ dir.there /\ dir.dirty = {}
    /\ W!Landing /\ land.at # "prepares" => dir.there /\ dir.dirty = {}
    /\ Landed => ~detached.on

\* No agent is at work in a directory that a land or a removal is about to take.
Alone ==
    /\ InLand => agent = "none" /\ landing = "review"
    /\ land.at = "confirms" => landing = "published"
    /\ land.at = "sweeps" => agent # "works" /\ landing \in {"published", "cancelled"}
    /\ agent # "none" => landing \in {"running", "cancelled"}

\* A task that reads published has landed, with all it wrote to tracked files.
Delivered == landing = "published" => written \ NewFile \subseteq main /\ main \cap Patch # {}

\* The invariant of WorkKept and PublishedIsLanded.
KeepInv == TreesTyped /\ OnMain /\ OnBranch /\ HalfDone /\ Alone /\ W!WorkKept /\ Delivered

\* The tree of the branch; with what is not committed it was judged, or there is
\* nothing in it to land.
BranchTree == branch.base \cup branch.own
Cleared(dirty) == branch.own \cup dirty \subseteq branch.base \/ BranchTree \cup dirty \in vetted

\* A land is of a task in review with no round open, in a clean directory.
ReviewStands ==
    /\ InLand => landing = "review" /\ ~open /\ agent = "none"
    /\ agent # "none" => landing \in {"running", "cancelled"}
    /\ Landed => ~detached.on
    /\ land.at = "rebasing" => detached.on /\ detached.side = {}
    /\ (Landed /\ land.at # "settles") \/ land.at = "rebasing" => dir.dirty = {}

\* A rebase goes forward only.
RebaseAhead ==
    /\ OnMain
    /\ land.at = "rebases" => branch.base \subseteq track
    /\ land.at = "rebasing" => branch.base \subseteq detached.onto

\* The tree a land began with was judged.
SeenCleared ==
    land.at \in {"fetches", "rebases", "rebasing", "squashes", "checks", "pushes"} =>
        branch.own \subseteq branch.base \/ land.seen \in vetted

\* So is what the branch has whenever a land may begin, and what it gets back
\* when a rebase is given up; not while a land has rebased and not yet checked.
RestCleared ==
    /\ detached.on => Cleared({})
    /\ ~detached.on /\ landing = "review" /\ ~open /\ land.at \notin {"squashes", "checks"} =>
          Cleared(dir.dirty)

\* The invariant of LandsJudged.
JudgeInv == TreesTyped /\ (~dir.there => dir.dirty = {})
            /\ ReviewStands /\ RebaseAhead /\ SeenCleared /\ RestCleared

\* Every step keeps the work where nothing starts on a removal, a land that is
\* asked for, or a rebase left half done.
LEMMA KeepStep ==
    ASSUME W!TriesAssumption, LandDetours \subseteq {"cut"}, KeepInv, [W!Next]_treeVars
    PROVE  KeepInv'
<1>1. TreesTyped'
  BY TreeStep DEF KeepInv
<1>0. /\ dir \in DirRow /\ branch \in BranchRow /\ detached \in HeadRow /\ land \in LandRow
      /\ written \in SUBSET Patch
  BY DEF KeepInv, TreesTyped, W!TypeOK, DirRow, BranchRow, HeadRow
<1>2. (OnMain /\ OnBranch /\ HalfDone /\ Alone /\ W!WorkKept /\ Delivered)'
  <2> USE <1>0 DEF KeepInv, OnMain, OnBranch, HalfDone, Alone, W!WorkKept, Delivered, DirRow,
      BranchRow, HeadRow, LandRow, Stages, Landed, InLand, W!Landing, W!At
  <2>1. CASE W!FollowUp
    BY <2>1 DEF W!FollowUp
  <2>2. CASE W!Starts
    BY <2>2 DEF W!Starts
  <2>3. CASE W!Spawns
    BY <2>3 DEF W!Spawns, W!EnsuredDir, W!EnsuredBranch, W!EnsuredTrack, W!NoDir
  <2>4. CASE W!Writes
    BY <2>4 DEF W!Writes
  <2>5. CASE W!Commits
    BY <2>5 DEF W!Commits, W!Committed
  <2>6. CASE W!TurnEnds
    BY <2>6 DEF W!TurnEnds
  <2>7. CASE W!Cancel
    BY <2>7 DEF W!Cancel
  <2>8. CASE W!RoundSettles
    BY <2>8 DEF W!RoundSettles
  <2>9. CASE W!Publish
    BY <2>9 DEF W!Publish
  <2>10. CASE W!LandBegins
    BY <2>10 DEF W!LandBegins
  <2>11. CASE W!LandPrepares
    <3>0. W!EnsuredDir \in DirRow /\ W!EnsuredDir.there
      BY DEF W!EnsuredDir, W!NoDir
    <3>5. W!EnsuredBranch \in BranchRow /\ W!EnsuredBranch.there
      BY TreeRows DEF W!EnsuredBranch, TreesTyped, W!TypeOK, W!Tree
    <3>1. /\ dir'.there /\ dir'.dirty = {}
          /\ detached' = W!Attached /\ main' = main /\ written' = written
          /\ land'.at = "fetches" /\ agent' = agent /\ landing' = landing
      BY <2>11, <3>0 DEF W!LandPrepares
    <3>6. branch'.there
      BY <2>11, <3>5 DEF W!LandPrepares
    <3>2. branch'.base \subseteq main /\ track' \subseteq main
      BY <2>11 DEF W!LandPrepares, W!EnsuredBranch, W!EnsuredTrack
    <3>3. branch.own \cup dir.dirty \subseteq branch'.own
      BY <2>11 DEF W!LandPrepares, W!EnsuredBranch
    <3>4. landing # "published" /\ agent = "none"
      BY <2>11 DEF W!LandPrepares
    <3>7. ~detached'.on /\ detached'.side = {} /\ detached'.onto = {}
      BY <3>1 DEF W!Attached
    <3>8. OnMain' /\ OnBranch'
      BY <3>1, <3>2, <3>6, <3>7
    <3>9. HalfDone' /\ Alone'
      BY <3>1, <3>4, <3>6, <3>7, <2>11 DEF W!LandPrepares
    <3>10. W!WorkKept' /\ Delivered'
      BY <3>1, <3>3, <3>4
    <3> QED BY <3>8, <3>9, <3>10
  <2>12. CASE W!LandFetches
    BY <2>12 DEF W!LandFetches
  <2>13. CASE W!LandRebases
    BY <2>13 DEF W!LandRebases
  <2>14. CASE W!LandRebased
    BY <2>14 DEF W!LandRebased, W!Rebased, W!Attached
  <2>15. CASE W!LandConflicts
    BY <2>15 DEF W!LandConflicts, W!NoLand, W!Attached
  <2>16. CASE W!LandSquashes
    BY <2>16 DEF W!LandSquashes, W!NoLand
  <2>17. CASE W!LandChecks
    BY <2>17 DEF W!LandChecks, W!NoLand
  <2>18. CASE W!LandPushes
    <3>1. /\ UNCHANGED <<landing, agent, open, dir, branch, detached, vetted, written>>
          /\ ~detached.on /\ land.at = "pushes"
      BY <2>18 DEF W!LandPushes
    <3>3. land'.at \in {"settles", "fetches", "none"}
      <4>1. \/ land' = [land EXCEPT !.at = "settles"] \/ land' = W!NoLand
            \/ land' = [land EXCEPT !.at = "fetches", !.try = @ + 1]
        BY <2>18 DEF W!LandPushes
      <4>2. CASE land' = [land EXCEPT !.at = "settles"]
        BY <4>2
      <4>3. CASE land' = W!NoLand
        BY <4>3 DEF W!NoLand
      <4>4. CASE land' = [land EXCEPT !.at = "fetches", !.try = @ + 1]
        BY <1>0, <4>4, LandRetried
      <4> QED BY <4>1, <4>2, <4>3, <4>4
    <3>2. main \subseteq main' /\ track' \subseteq main'
      BY <2>18, <3>1 DEF W!LandPushes, W!Head
    <3> QED BY <3>1, <3>2, <3>3
  <2>19. CASE W!LandFails
    BY <2>19 DEF W!LandFails, W!NoLand
  <2>20. CASE W!LandSettles
    BY <2>20 DEF W!LandSettles, W!NoLand, W!Shipped, W!Head
  <2>21. CASE W!MarkPublished
    BY <2>21 DEF W!MarkPublished, W!Shipped, W!Head
  <2>22. CASE W!LandCleans
    BY <2>22 DEF W!LandCleans, W!NoLand, W!NoDir, W!NoBranch, W!Attached
  <2>23. CASE W!SweepLooks
    BY <2>23 DEF W!SweepLooks, W!NoLand
  <2>24. CASE W!SweepRemoves
    BY <2>24 DEF W!SweepRemoves, W!NoLand, W!NoDir, W!NoBranch, W!Attached
  <2>25. CASE W!Evict
    BY <2>25 DEF W!Evict, W!NoDir, W!Attached
  <2>26. CASE W!OthersLand
    BY <2>26 DEF W!OthersLand
  <2>27. CASE W!Restart
    <3>1. /\ UNCHANGED <<dir, main, track, written>>
          /\ land'.at = "none" /\ agent' = "none"
          /\ landing' = IF landing = "running" THEN "failed" ELSE landing
      BY <2>27 DEF W!Restart, W!NoLand
    <3>2. CASE UNCHANGED <<branch, detached>>
      BY <3>1, <3>2
    <3>3. CASE branch' = W!Rebased /\ detached' = W!Attached
      <4>1. /\ branch'.there = branch.there /\ branch'.base = detached.onto
            /\ branch'.own = (branch.own \cup detached.side) \ detached.onto
        BY <3>3 DEF W!Rebased
      <4> QED BY <3>1, <3>3, <4>1 DEF W!Attached
    <3> QED BY <2>27, <3>2, <3>3 DEF W!Restart
  <2>28. CASE UNCHANGED treeVars
    BY <2>28 DEF treeVars
  <2> QED BY <2>1, <2>2, <2>3, <2>4, <2>5, <2>6, <2>7, <2>8, <2>9, <2>10, <2>11, <2>12,
      <2>13, <2>14, <2>15, <2>16, <2>17, <2>18, <2>19, <2>20, <2>21, <2>22, <2>23, <2>24,
      <2>25, <2>26, <2>27, <2>28 DEF W!Next
<1> QED BY <1>1, <1>2 DEF KeepInv

\* A land that squashes pushes the tree it began with, checks it again, or has
\* nothing to do.
LEMMA SquashRows ==
    ASSUME land \in LandRow, W!LandSquashes
    PROVE  \/ land'.at = "none" /\ branch.own \subseteq branch.base
           \/ land'.at = "checks" /\ land'.seen = land.seen
           \/ land'.at = "pushes" /\ land'.seen = land.seen /\ W!Head = land.seen
  BY DEF W!LandSquashes, W!NoLand, W!ChecksAgain, LandRow

\* A removal takes the branch of a published task, and commits what it finds for
\* any other.
LEMMA SweptBranch ==
    ASSUME branch \in BranchRow, W!SweepRemoves
    PROVE  \/ landing = "published" /\ branch'.base = {} /\ branch'.own = {}
           \/ /\ branch'.base = branch.base
              /\ branch'.own = IF detached.on THEN branch.own ELSE branch.own \cup dir.dirty
<1> DEFINE rest == IF detached.on THEN branch.own ELSE branch.own \cup dir.dirty
<1>1. CASE landing = "published"
  BY <1>1 DEF W!SweepRemoves, W!NoBranch
<1>2. CASE landing # "published"
  <2>1. branch' = [branch EXCEPT !.own = rest]
    BY <1>2 DEF W!SweepRemoves
  <2>2. [branch EXCEPT !.own = rest].own = rest /\ [branch EXCEPT !.own = rest].base = branch.base
    <3> HIDE DEF rest
    <3> QED BY DEF BranchRow
  <2>3. branch'.base = branch.base /\ branch'.own = rest
    BY <2>1, <2>2
  <2> QED BY <2>3
<1> QED BY <1>1, <1>2

\* Every step keeps what was judged where no agent starts on a land that is asked
\* for, and none is cut between its rebase and its checks.
LEMMA JudgeStep ==
    ASSUME W!TriesAssumption, LandDetours \subseteq {"cleanup", "rebase"},
           JudgeInv, [W!Next]_treeVars
    PROVE  JudgeInv'
<1>1. TreesTyped'
  BY TreeStep DEF JudgeInv
<1>0. /\ dir \in DirRow /\ branch \in BranchRow /\ detached \in HeadRow /\ land \in LandRow
      /\ written \in SUBSET Patch
  BY DEF JudgeInv, TreesTyped, W!TypeOK, DirRow, BranchRow, HeadRow
<1>2. ((~dir.there => dir.dirty = {}) /\ ReviewStands /\ RebaseAhead /\ SeenCleared /\ RestCleared)'
  <2> USE <1>0 DEF JudgeInv, OnMain, ReviewStands, RebaseAhead, SeenCleared, RestCleared,
      Cleared, BranchTree, DirRow, BranchRow, HeadRow, LandRow, Stages, Landed, InLand,
      W!Landing, W!At
  <2>1. CASE W!FollowUp
    BY <2>1 DEF W!FollowUp
  <2>2. CASE W!Starts
    BY <2>2 DEF W!Starts
  <2>3. CASE W!Spawns
    BY <2>3 DEF W!Spawns, W!EnsuredDir, W!EnsuredBranch, W!EnsuredTrack, W!NoDir
  <2>4. CASE W!Writes
    BY <2>4 DEF W!Writes
  <2>5. CASE W!Commits
    BY <2>5 DEF W!Commits, W!Committed
  <2>6. CASE W!TurnEnds
    BY <2>6 DEF W!TurnEnds
  <2>7. CASE W!Cancel
    BY <2>7 DEF W!Cancel
  <2>8. CASE W!RoundSettles
    BY <2>8 DEF W!RoundSettles, W!Head
  <2>9. CASE W!Publish
    BY <2>9 DEF W!Publish
  <2>10. CASE W!LandBegins
    BY <2>10 DEF W!LandBegins
  <2>11. CASE W!LandPrepares
    BY <2>11 DEF W!LandPrepares, W!EnsuredDir, W!EnsuredBranch, W!EnsuredTrack, W!NoDir,
        W!Attached
  <2>12. CASE W!LandFetches
    BY <2>12 DEF W!LandFetches
  <2>13. CASE W!LandRebases
    <3>1. /\ UNCHANGED <<landing, agent, open, dir, branch, main, track, vetted>>
          /\ land.at = "rebases" /\ ~detached.on /\ land'.seen = land.seen
      BY <2>13 DEF W!LandRebases
    <3>2. Cleared(dir.dirty) /\ dir.dirty = {}
      BY <3>1
    <3>3. CASE land' = [land EXCEPT !.at = "squashes"] /\ detached' = detached
      BY <3>1, <3>3
    <3>4. CASE /\ detached' = [on |-> TRUE, onto |-> track, side |-> {}]
               /\ land' = [land EXCEPT !.at = "rebasing"]
      BY <3>1, <3>2, <3>4
    <3> QED BY <2>13, <3>3, <3>4 DEF W!LandRebases
  <2>14. CASE W!LandRebased
    <3>1. /\ branch'.base = detached.onto
          /\ branch'.own = (branch.own \cup detached.side) \ detached.onto
          /\ detached' = W!Attached /\ ~detached'.on /\ detached'.onto = {}
      BY <2>14 DEF W!LandRebased, W!Rebased, W!Attached
    <3>2. land'.at = "squashes" /\ land'.seen = land.seen /\ land.at = "rebasing"
      BY <2>14 DEF W!LandRebased
    <3>3. UNCHANGED <<landing, agent, open, dir, main, track, vetted>>
      BY <2>14 DEF W!LandRebased
    <3>4. ReviewStands' /\ RebaseAhead' /\ (~dir.there => dir.dirty = {})'
      BY <3>1, <3>2, <3>3
    <3>5. SeenCleared'
      <4>1. CASE branch.own \subseteq branch.base
        <5>1. branch'.own \subseteq branch'.base
          BY <3>1, <4>1, <3>2
        <5> QED BY <5>1
      <4>2. CASE land.seen \in vetted
        BY <3>2, <3>3, <4>2
      <4> QED BY <3>2, <4>1, <4>2
    <3>6. RestCleared'
      BY <3>1, <3>2
    <3> QED BY <3>4, <3>5, <3>6
  <2>15. CASE W!LandConflicts
    <3>1. /\ ~detached'.on /\ detached'.onto = {} /\ land'.at = "none"
          /\ land.at = "rebasing" /\ detached.on /\ dir.dirty = {}
          /\ UNCHANGED <<dir, branch, main, track, vetted>>
      BY <2>15 DEF W!LandConflicts, W!NoLand, W!Attached
    <3>2. \/ landing' = "running" /\ agent' = "starts"
          \/ UNCHANGED <<landing, agent, open>>
      BY <2>15 DEF W!LandConflicts
    <3> QED BY <3>1, <3>2
  <2>16. CASE W!LandSquashes
    <3>1. /\ UNCHANGED <<landing, agent, open, dir, branch, detached, main, track, vetted>>
          /\ ~detached.on /\ dir.dirty = {} /\ land.at = "squashes"
      BY <2>16 DEF W!LandSquashes
    <3>2. \/ land'.at = "none" /\ branch.own \subseteq branch.base
          \/ land'.at = "checks" /\ land'.seen = land.seen
          \/ land'.at = "pushes" /\ land'.seen = land.seen /\ W!Head = land.seen
      BY <2>16, SquashRows
    <3>3. CASE land'.at = "none" /\ branch.own \subseteq branch.base
      BY <3>1, <3>3
    <3>4. CASE land'.at = "checks" /\ land'.seen = land.seen
      BY <3>1, <3>4
    <3>5. CASE land'.at = "pushes" /\ land'.seen = land.seen /\ W!Head = land.seen
      BY <3>1, <3>5 DEF W!Head
    <3> QED BY <3>2, <3>3, <3>4, <3>5
  <2>17. CASE W!LandChecks
    <3>1. /\ UNCHANGED <<landing, agent, dir, branch, detached, main, track>>
          /\ land.at = "checks" /\ ~detached.on /\ dir.dirty = {}
      BY <2>17 DEF W!LandChecks
    <3>2. CASE /\ land' = [land EXCEPT !.at = "pushes"]
               /\ vetted' = vetted \cup {W!Head} /\ open' = open
      <4>1. BranchTree \cup dir.dirty = W!Head
        BY <3>1 DEF W!Head
      <4> QED BY <3>1, <3>2, <4>1
    <3>3. CASE land' = W!NoLand /\ open' = (landing = "review") /\ vetted' = vetted
      BY <3>1, <3>3 DEF W!NoLand
    <3> QED BY <2>17, <3>2, <3>3 DEF W!LandChecks
  <2>18. CASE W!LandPushes
    <3>1. /\ UNCHANGED <<landing, agent, open, dir, branch, detached, vetted>>
          /\ ~detached.on /\ land.at = "pushes" /\ dir.dirty = {}
          /\ main \subseteq main' /\ track' \subseteq main'
      BY <2>18 DEF W!LandPushes, W!Head
    <3>2. /\ land'.at \in {"settles", "fetches", "none"}
          /\ land'.at = "fetches" => land'.seen = land.seen
      <4>1. \/ land' = [land EXCEPT !.at = "settles"] \/ land' = W!NoLand
            \/ land' = [land EXCEPT !.at = "fetches", !.try = @ + 1]
        BY <2>18 DEF W!LandPushes
      <4>2. CASE land' = [land EXCEPT !.at = "settles"]
        BY <4>2
      <4>3. CASE land' = W!NoLand
        BY <4>3 DEF W!NoLand
      <4>4. CASE land' = [land EXCEPT !.at = "fetches", !.try = @ + 1]
        BY <1>0, <4>4, LandRetried
      <4> QED BY <4>1, <4>2, <4>3, <4>4
    <3>3. ReviewStands' /\ RebaseAhead' /\ SeenCleared' /\ (~dir.there => dir.dirty = {})'
      BY <3>1, <3>2
    <3>4. RestCleared'
      BY <3>1, <3>2
    <3> QED BY <3>3, <3>4
  <2>19. CASE W!LandFails
    BY <2>19 DEF W!LandFails, W!NoLand
  <2>20. CASE W!LandSettles
    BY <2>20 DEF W!LandSettles, W!NoLand
  <2>21. CASE W!MarkPublished
    BY <2>21 DEF W!MarkPublished
  <2>22. CASE W!LandCleans
    BY <2>22 DEF W!LandCleans, W!NoLand, W!NoDir, W!NoBranch, W!Attached
  <2>23. CASE W!SweepLooks
    BY <2>23 DEF W!SweepLooks, W!NoLand
  <2>24. CASE W!SweepRemoves
    <3>1. /\ UNCHANGED <<landing, agent, open, main, track, vetted>>
          /\ land'.at = "none" /\ ~detached'.on /\ detached'.onto = {} /\ dir'.dirty = {}
      BY <2>24 DEF W!SweepRemoves, W!NoLand, W!NoDir, W!Attached
    <3>2. \/ landing = "published" /\ branch'.base = {} /\ branch'.own = {}
          \/ /\ branch'.base = branch.base
             /\ branch'.own = IF detached.on THEN branch.own ELSE branch.own \cup dir.dirty
      BY <2>24, SweptBranch
    <3>3. ReviewStands' /\ RebaseAhead' /\ SeenCleared' /\ (~dir.there => dir.dirty = {})'
      BY <3>1, <3>2, <2>24 DEF W!SweepRemoves
    <3>4. RestCleared'
      <4>1. CASE landing = "published"
        BY <3>1, <4>1
      <4>2. CASE detached.on /\ branch'.base = branch.base /\ branch'.own = branch.own
        BY <3>1, <4>2
      <4>3. CASE /\ ~detached.on /\ branch'.base = branch.base
                 /\ branch'.own = branch.own \cup dir.dirty
        <5>1. land.at = "sweeps"
          BY <2>24 DEF W!SweepRemoves
        <5> QED BY <3>1, <4>3, <5>1
      <4> QED BY <3>2, <4>1, <4>2, <4>3
    <3> QED BY <3>3, <3>4
  <2>25. CASE W!Evict
    BY <2>25 DEF W!Evict, W!NoDir, W!Attached
  <2>26. CASE W!OthersLand
    BY <2>26 DEF W!OthersLand
  <2>27. CASE W!Restart
    BY <2>27 DEF W!Restart, W!NoLand
  <2>28. CASE UNCHANGED treeVars
    BY <2>28 DEF treeVars
  <2> QED BY <2>1, <2>2, <2>3, <2>4, <2>5, <2>6, <2>7, <2>8, <2>9, <2>10, <2>11, <2>12,
      <2>13, <2>14, <2>15, <2>16, <2>17, <2>18, <2>19, <2>20, <2>21, <2>22, <2>23, <2>24,
      <2>25, <2>26, <2>27, <2>28 DEF W!Next
<1> QED BY <1>1, <1>2 DEF JudgeInv

\* Both hold at first.
LEMMA TreesBegin == W!TriesAssumption => (W!Init => KeepInv /\ JudgeInv)
<1> SUFFICES ASSUME W!TriesAssumption, W!Init PROVE KeepInv /\ JudgeInv
  OBVIOUS
<1>1. TreesTyped
  BY TreeInit
<1>2. /\ ~dir.there /\ dir.dirty = {} /\ branch.base = {} /\ branch.own = {} /\ ~branch.there
      /\ ~detached.on /\ detached.onto = {} /\ detached.side = {} /\ land.at = "none"
      /\ landing = "draft" /\ agent = "none" /\ written = {} /\ track = {} /\ main = {}
  BY DEF W!Init, W!NoDir, W!NoBranch, W!Attached, W!NoLand
<1>3. KeepInv
  BY <1>1, <1>2 DEF KeepInv, OnMain, OnBranch, HalfDone, Alone, W!WorkKept, Delivered, Landed,
      InLand, W!Landing
<1>4. JudgeInv
  BY <1>1, <1>2 DEF JudgeInv, OnMain, ReviewStands, RebaseAhead, SeenCleared, RestCleared,
      Cleared, Landed, InLand, W!Landing
<1> QED BY <1>3, <1>4

\* It holds of every behaviour of the parts.
LEMMA KeepsTrees ==
    ASSUME LandDetours \subseteq {"cut"}
    PROVE  PartsSpec => []KeepInv
<1>1. W!Init => KeepInv
  BY PartsAssumption, TreesBegin
<1>2. KeepInv /\ [W!Next]_(W!treeVars) => KeepInv'
  BY PartsAssumption, KeepStep DEF treeVars, W!treeVars
<1> QED BY <1>1, <1>2, PartsBehave, PTL DEF W!Spec

\* Nothing the agent has written is lost, but for a new file it adds after a
\* land, whatever land, removal or restart comes over it, where no turn starts on a worktree that is being removed, on a
\* land that is asked for, or on a rebase left half done.
THEOREM LandsKeepWork ==
    ASSUME LandDetours \subseteq {"cut"}
    PROVE  PartsSpec => []WorkKept
<1>1. KeepInv => WorkKept
  BY DEF KeepInv, WorkKept
<1> QED BY <1>1, KeepsTrees, PTL

\* Nor is a task published without what it wrote to tracked files or committed.
THEOREM PublishesAll ==
    ASSUME LandDetours \subseteq {"cut"}
    PROVE  PartsSpec => PublishedIsLanded
<1> DEFINE Step == landing' = "published" /\ landing # "published"
                    => (written \ NewFile) \cup branch.own \subseteq main
<1>1. KeepInv /\ [W!Next]_(W!treeVars) => [Step]_(W!treeVars)
  <2> SUFFICES ASSUME KeepInv, [W!Next]_(W!treeVars), landing' = "published", landing # "published"
               PROVE  (written \ NewFile) \cup branch.own \subseteq main
    OBVIOUS
  <2>1. W!LandSettles \/ W!MarkPublished
    BY DEF W!Next, W!treeVars, W!FollowUp, W!Starts, W!Spawns, W!Writes, W!Commits,
        W!TurnEnds, W!Cancel, W!RoundSettles, W!Publish, W!LandBegins, W!LandPrepares,
        W!LandFetches, W!LandRebases, W!LandRebased, W!LandConflicts, W!LandSquashes,
        W!LandChecks, W!LandPushes, W!LandFails, W!LandCleans, W!SweepLooks,
        W!SweepRemoves, W!Evict, W!OthersLand, W!Restart
  <2>2. ~detached.on /\ W!Shipped
    BY <2>1 DEF W!LandSettles, W!MarkPublished, KeepInv, HalfDone, Landed
  <2> QED BY <2>2 DEF W!Shipped, W!Head, KeepInv, W!WorkKept, OnMain, HalfDone
<1> QED BY <1>1, KeepsTrees, PartsBehave, PTL DEF W!Spec, PublishedIsLanded, W!PublishedIsLanded

\* What lands was judged, by a round or by the checks of the land, where no turn
\* starts on a land that is asked for and none ends between rebase and checks.
THEOREM LandingsJudged ==
    ASSUME LandDetours \subseteq {"cleanup", "rebase"}
    PROVE  PartsSpec => LandsJudged
<1> DEFINE Step == land.at = "pushes" /\ main' # main /\ main' \cap Foreign = main \cap Foreign =>
                       main' \in vetted
<1>1. W!Init => JudgeInv
  BY PartsAssumption, TreesBegin
<1>2. JudgeInv /\ [W!Next]_(W!treeVars) => JudgeInv'
  BY PartsAssumption, JudgeStep DEF treeVars, W!treeVars
<1>3. JudgeInv /\ [W!Next]_(W!treeVars) => [Step]_(W!treeVars)
  <2> SUFFICES ASSUME JudgeInv, [W!Next]_(W!treeVars), land.at = "pushes", main' # main,
                      main' \cap Foreign = main \cap Foreign
               PROVE  main' \in vetted
    OBVIOUS
  <2>1. W!LandPushes
    BY DEF W!Next, W!treeVars, W!FollowUp, W!Starts, W!Spawns, W!Writes, W!Commits,
        W!TurnEnds, W!Cancel, W!RoundSettles, W!Publish, W!LandBegins, W!LandPrepares,
        W!LandFetches, W!LandRebases, W!LandRebased, W!LandConflicts, W!LandSquashes,
        W!LandChecks, W!LandFails, W!LandSettles, W!MarkPublished, W!LandCleans,
        W!SweepLooks, W!SweepRemoves, W!Evict, W!OthersLand, W!Restart
  <2>2. branch.base = main /\ main' = W!Head
    BY <2>1 DEF W!LandPushes
  <2>3. ~detached.on /\ dir.dirty = {} /\ Cleared(dir.dirty)
    BY DEF JudgeInv, ReviewStands, RestCleared, Landed, InLand, W!Landing
  <2> QED BY <2>2, <2>3 DEF W!Head, Cleared, BranchTree
<1> QED BY <1>1, <1>2, <1>3, PartsBehave, PTL DEF W!Spec, LandsJudged, W!LandsJudged

---------------------------------------------------------------------------
(* Dispatches *)

\* Every message is handed over once, and with the next turn at the latest.
THEOREM MessagesHandedOver == PartsSpec => HandedOver
<1>1. D!Spec => D!HandedOver
  BY PartsAssumption, D!HandsOver
<1> QED BY <1>1, PartsBehave, PTL DEF HandedOver

---------------------------------------------------------------------------
(* The types of all parts *)

\* Every variable of the part at work keeps its type.
THEOREM PartsKeepTypes ==
    ASSUME ~Hurried
    PROVE  PartsSpec => []PartsTyped
<1>1. W!Spec => []TreesTyped
  <2>1. W!Init => TreesTyped
    BY PartsAssumption, TreeInit
  <2>2. TreesTyped /\ [W!Next]_(W!treeVars) => TreesTyped'
    BY PartsAssumption, TreeStep DEF treeVars, W!treeVars
  <2> QED BY <2>1, <2>2, PTL DEF W!Spec
<1>2. /\ Spec => []TypeOK
      /\ P!Spec => []P!TypeOK
      /\ V!VerifySpec => []V!TypeOK
      /\ H!Spec => []H!TypeOK
      /\ A!Spec => []A!TypeOK
      /\ J!Spec => []J!TypeOK
      /\ D!Spec => []D!TypeOK
  BY PartsAssumption, Typed, P!Typed, V!Typed, H!Typed, A!Typed, J!Typed, D!Typed
<1>3. TypeOK /\ P!TypeOK /\ V!TypeOK /\ H!TypeOK /\ A!TypeOK /\ J!TypeOK /\ TreesTyped /\ D!TypeOK
         => PartsTyped
  BY DEF PartsTyped, TreesTyped
<1> QED BY <1>1, <1>2, <1>3, PartsBehave, PTL
=============================================================================
