---------------------------- MODULE HeavySlots ----------------------------
(***************************************************************************)
(* The heavy work slots of server/src/heavy.ts: one semaphore for the      *)
(* repository checks the server runs and the leases worker agents take     *)
(* over HTTP.  Everything in the class is synchronous, so an action is one *)
(* call of it together with the route, runner or sweep that makes it.      *)
(*                                                                         *)
(* A worker run holds at most one lease ticket, so a lease is named by its *)
(* holder; a name is free again once its ticket is gone, as the code makes *)
(* a fresh id.  Time is left out: a rule that fires after so many seconds  *)
(* may fire whenever the rest of its condition holds.                      *)
(***************************************************************************)
EXTENDS Integers, FiniteSets

CONSTANTS
    Worker,      \* worker runs
    Lease,       \* lease tickets (polled, held back by the memory fuse)
    AgentCheck,  \* checks a worker asks for over the agent API
    StageCheck,  \* checks the server runs on a task's change
    By,          \* the worker run (or the run of the task) of each ticket
    Slots        \* the slot counts the setting can give

Check == AgentCheck \cup StageCheck
Ticket == Lease \cup Check

TicketAssumption == /\ Lease \cap Check = {}
                    /\ AgentCheck \cap StageCheck = {}
                    /\ IsFiniteSet(Ticket)
                    /\ By \in [Ticket -> Worker]
OneLeaseAssumption == \A t, u \in Lease : By[t] = By[u] => t = u
SlotsAssumption == Slots \subseteq Nat \ {0} /\ Slots # {}

VARIABLES
    queue,    \* the waiting tickets in line: pairs of one and one no older
    held,     \* tickets that hold a slot
    told,     \* held leases whose agent was told (delivered)
    polling,  \* leases with an open long poll (waiters)
    max,      \* the slot count in force
    memory,   \* the memory fuse holds new automatic work
    turn      \* what each worker run is doing

vars == <<queue, held, told, polling, max, memory, turn>>

\* The queue is kept as the order its tickets stand in: <<u, t>> is in it when
\* both wait and u came no later than t.
Waiting(q) == {t \in Ticket : <<t, t>> \in q}

InLine(q) ==
    /\ q \subseteq Waiting(q) \X Waiting(q)
    /\ \A t, u \in Waiting(q) :
          /\ <<t, u>> \in q \/ <<u, t>> \in q
          /\ <<t, u>> \in q /\ <<u, t>> \in q => t = u
          /\ \A v \in Waiting(q) : <<t, u>> \in q /\ <<u, v>> \in q => <<t, v>> \in q

\* A ticket goes to the end of the line; tickets leave it wherever they stand.
Joined(q, t) == q \cup ((Waiting(q) \cup {t}) \X {t})
Without(q, ts) == {pair \in q : pair[1] \notin ts /\ pair[2] \notin ts}

Queued == Waiting(queue)

TypeOK ==
    /\ InLine(queue)
    /\ held \subseteq Ticket \ Queued
    /\ told \subseteq held \cap Lease
    /\ polling \subseteq Lease
    /\ max \in Slots /\ memory \in BOOLEAN
    /\ turn \in [Worker -> {"dead", "idle", "on", "parked"}]

Init ==
    /\ queue = {} /\ held = {} /\ told = {} /\ polling = {}
    /\ max \in Slots /\ memory = FALSE
    /\ turn = [w \in Worker |-> "dead"]

---------------------------------------------------------------------------
(* pump *)

\* A lease waits for the fuse as well as for a slot.
Grantable(t, hold) == ~(t \in Lease /\ hold)

\* The tickets a pump over q would admit before t.
Before(q, t, hold) == {u \in Waiting(q) \ {t} : <<u, t>> \in q /\ Grantable(u, hold)}

\* Mutant of Granted: the slot that makes the count full is given twice.
GrantedOneMore(q, h, m, hold) ==
    {t \in Waiting(q) : /\ Grantable(t, hold)
                        /\ Cardinality(h) + Cardinality(Before(q, t, hold)) <= m}

\* Mutant of Granted: a lease the fuse holds back keeps its turn.
GrantedHeadOnly(q, h, m, hold) ==
    {t \in Waiting(q) :
        /\ \A u \in Waiting(q) : <<u, t>> \in q => Grantable(u, hold)
        /\ Cardinality(h) + Cardinality(Before(q, t, hold)) < m}

\* Mutant of Granted: the queue is served from its end.
GrantedNewest(q, h, m, hold) ==
    {t \in Waiting(q) :
        /\ Grantable(t, hold)
        /\ Cardinality(h) + Cardinality({u \in Waiting(q) \ {t} :
               <<t, u>> \in q /\ Grantable(u, hold)}) < m}

\* The tickets a pump admits: in order of age, those the fuse holds back left
\* where they are, while a slot is free.
Granted(q, h, m, hold) ==
    {t \in Waiting(q) : /\ Grantable(t, hold)
                        /\ Cardinality(h) + Cardinality(Before(q, t, hold)) < m}

\* Mutant of Pump: the open polls of the admitted tickets are not answered.
PumpSilent(q, h, polls, m, hold) ==
    LET in == Granted(q, h, m, hold)
    IN  /\ queue' = Without(q, in)
        /\ held' = h \cup in
        /\ told' = told \cap h
        /\ polling' = polls

\* A pump over the queue q and the holders h, which answers the open polls of
\* the tickets it admits.
Pump(q, h, polls, m, hold) ==
    LET in == Granted(q, h, m, hold)
    IN  /\ queue' = Without(q, in)
        /\ held' = h \cup in
        /\ told' = (told \cap h) \cup (polls \cap in)
        /\ polling' = polls \ in

\* release: the tickets go wherever they are, their open polls are answered,
\* and the slots are passed on.
Drop(ts) == Pump(Without(queue, ts), held \ ts, polling \ ts, max, memory)

LeasesOf(w) == {t \in Lease : By[t] = w}

---------------------------------------------------------------------------
(* The agent routes *)

\* A fresh ticket and its first long poll, of no time at all when waitMs is 0;
\* a lease admitted at once is told of either way.
TakeTicket(t, waits) ==
    LET in == Granted(Joined(queue, t), held, max, memory)
    IN  /\ queue' = Without(Joined(queue, t), in)
        /\ held' = held \cup in
        /\ told' = told \cup (in \cap (polling \cup {t}))
        /\ polling' = (polling \cup IF waits THEN {t} ELSE {}) \ in

\* POST acquire of a run that has no ticket.
Acquire(t, waits) ==
    /\ t \in Lease /\ turn[By[t]] # "dead"
    /\ t \notin held \cup Queued
    /\ TakeTicket(t, waits)
    /\ UNCHANGED <<max, memory, turn>>

\* Another poll of a ticket (GET, or an acquire that returns the first one).
Poll(t) ==
    /\ t \in Lease /\ turn[By[t]] # "dead"
    /\ \/ t \in Queued \ polling /\ polling' = polling \cup {t} /\ UNCHANGED told
       \/ t \in held /\ told' = told \cup {t} /\ UNCHANGED polling
    /\ UNCHANGED <<queue, held, max, memory, turn>>

\* The long poll ends without a grant.
PollEnds(t) ==
    /\ t \in polling
    /\ polling' = polling \ {t}
    /\ UNCHANGED <<queue, held, told, max, memory, turn>>

\* POST release.
Release(t) ==
    /\ t \in Lease \cap (held \cup Queued) /\ turn[By[t]] # "dead"
    /\ Drop({t})
    /\ UNCHANGED <<max, memory, turn>>

---------------------------------------------------------------------------
(* Checks: CommandRunner.runCheck takes a slot and gives it back *)

\* The agent's route refuses a check while its task holds a lease; the server's
\* own check stage asks nobody.
AskCheck(c) ==
    /\ c \in Check \ (held \cup Queued)
    /\ c \in AgentCheck => /\ turn[By[c]] # "dead"
                           /\ \A t \in held \cap Lease : By[t] # By[c]
    /\ Pump(Joined(queue, c), held, polling, max, memory)
    /\ UNCHANGED <<max, memory, turn>>

\* A waiting check is given up: its task left the state it was for.
AbortCheck(c) ==
    /\ c \in Check \cap Queued
    /\ c \in AgentCheck => turn[By[c]] \in {"dead", "idle"}
    /\ Drop({c})
    /\ UNCHANGED <<max, memory, turn>>

\* The check's process ended, was stopped or ran into its timeout.
EndCheck(c) ==
    /\ c \in Check \cap held
    /\ Drop({c})
    /\ UNCHANGED <<max, memory, turn>>

---------------------------------------------------------------------------
(* Turns of the workers *)

TurnBegins(w) ==
    /\ turn[w] \in {"dead", "idle", "parked"}
    /\ turn' = [turn EXCEPT ![w] = "on"]
    /\ UNCHANGED <<queue, held, told, polling, max, memory>>

\* A Stop that parks the task in waiting: the turn still uses the lease.
TurnParks(w) ==
    /\ turn[w] = "on"
    /\ turn' = [turn EXCEPT ![w] = "parked"]
    /\ UNCHANGED <<queue, held, told, polling, max, memory>>

\* A Stop that ends the turn: releaseForRun.
TurnEnds(w) ==
    /\ turn[w] \in {"on", "parked"}
    /\ turn' = [turn EXCEPT ![w] = "idle"]
    /\ Drop(LeasesOf(w))
    /\ UNCHANGED <<max, memory>>

\* Mutant of RunExits: only the Stop hook releases a run's lease.
RunExitsKeeping(w) ==
    /\ turn[w] # "dead"
    /\ turn' = [turn EXCEPT ![w] = "dead"]
    /\ UNCHANGED <<queue, held, told, polling, max, memory>>

\* handleExit: the leases of the run die with it.
RunExits(w) ==
    /\ turn[w] # "dead"
    /\ turn' = [turn EXCEPT ![w] = "dead"]
    /\ Drop(LeasesOf(w))
    /\ UNCHANGED <<max, memory>>

---------------------------------------------------------------------------
(* Housekeeping *)

\* A waiting lease nobody polls.
Abandon(t) ==
    /\ t \in (Lease \cap Queued) \ polling
    /\ Drop({t})
    /\ UNCHANGED <<max, memory, turn>>

\* A granted lease no poll ever picked up.
Unclaim(t) ==
    /\ t \in (Lease \cap held) \ told
    /\ Drop({t})
    /\ UNCHANGED <<max, memory, turn>>

\* Mutant of Expire: a lease its agent knows of is never taken back.
ExpireUntold(t) == Unclaim(t)

\* A lease held for an hour.
Expire(t) ==
    /\ t \in Lease \cap held
    /\ Drop({t})
    /\ UNCHANGED <<max, memory, turn>>

\* refreshSettings: a changed count pumps.  Holders past a lowered one stay.
Resize(n) ==
    /\ n # max /\ max' = n
    /\ Pump(queue, held, polling, n, memory)
    /\ UNCHANGED <<memory, turn>>

\* The memory sweep trips or clears the fuse, and pumps.
FuseMoves ==
    /\ memory' = ~memory
    /\ Pump(queue, held, polling, max, memory')
    /\ UNCHANGED <<max, turn>>

\* stopAll, and a new process.
Restart(n) ==
    /\ queue' = {} /\ held' = {} /\ told' = {} /\ polling' = {}
    /\ max' = n /\ memory' = FALSE
    /\ turn' = [w \in Worker |-> "dead"]

---------------------------------------------------------------------------

LeaseStep(t) == \/ (\E waits \in BOOLEAN : Acquire(t, waits))
                \/ Poll(t) \/ PollEnds(t) \/ Release(t)
                \/ Abandon(t) \/ Unclaim(t) \/ Expire(t)

CheckStep(c) == AskCheck(c) \/ AbortCheck(c) \/ EndCheck(c)

WorkerStep(w) == TurnBegins(w) \/ TurnParks(w) \/ TurnEnds(w) \/ RunExits(w)

Next == \/ \E t \in Lease : LeaseStep(t)
        \/ \E c \in Check : CheckStep(c)
        \/ \E w \in Worker : WorkerStep(w)
        \/ \E n \in Slots : Resize(n) \/ Restart(n)
        \/ FuseMoves

Spec == Init /\ [][Next]_vars

\* A check ends (it has a timeout, and its process is killed past it), and the
\* 5 s tick takes back a lease held for an hour.  Nothing is assumed of an
\* agent: it may poll for ever and never release.
Fairness == /\ \A c \in Check : WF_vars(EndCheck(c))
            /\ \A t \in Lease : WF_vars(Expire(t))

FairSpec == Spec /\ Fairness

---------------------------------------------------------------------------
(* Properties *)

\* No slot is left free while a ticket could have it: whatever frees a slot,
\* raises the count or clears the fuse pumps.
NoSlotIdle == Cardinality(held) < max
                => \A t \in Queued : ~Grantable(t, memory)

\* No grant takes the holders past the count in force, also after the count
\* was lowered under holders that stay; and first come, first served: a ticket
\* is admitted before an older one only when the fuse holds the older one back.
GrantsInOrder ==
    [][~(held' \subseteq held) =>
        /\ Cardinality(held') <= max'
        /\ \A t \in held' \ held, u \in Queued :
              (t \in Queued => <<u, t>> \in queue) /\ u \in Waiting(queue')
                  => ~Grantable(u, memory')]_vars

\* Every open poll belongs to a ticket that still waits: who was admitted or
\* dropped has been answered.
PollsAnswered == polling \subseteq Queued

\* No lease outlives the process of its run.
LeaseOfLiveRun == \A t \in Lease \cap (held \cup Queued) : turn[By[t]] # "dead"

\* A waiting check at last gets its slot or is given up, even behind a lease of
\* its own task that was granted while the check waited.
CheckGetsSlot == \A c \in Check : []<>(c \notin Queued)
=============================================================================
