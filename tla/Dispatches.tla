----------------------------- MODULE Dispatches -----------------------------
(***************************************************************************)
(* Messages between the sessions of related tasks: POST /api/agent/dispatch*)
(* of routes/agent.ts, deliverDispatches, followUp and startWorker of      *)
(* orchestrator.ts, tm_dispatches of storage/sqlite.ts, and the human's    *)
(* cancel of routes/tasks.ts.                                              *)
(*                                                                         *)
(* A message that needs action starts a turn of its target when the target *)
(* is free; one for information rides on the next turn the target takes    *)
(* for another reason.  A start is in two phases: the old terminal is told *)
(* to go and waited for (kill), then everything up to the spawn (gate).    *)
(* Two starts of one task at a time are Orchestrator's subject and left    *)
(* out; running stands for waiting too, both hold messages and checkouts.  *)
(***************************************************************************)
EXTENDS Integers, FiniteSets

CONSTANTS
    Task, RepoOf,   \* tasks and their checkouts, all of direct repositories
    Msg, From, To,  \* the messages agents may send
    Wakes,          \* those whose intent is needs_action; the others are fyi
    Cap,            \* orchestrator.concurrency
    RunCap,         \* DISPATCH_RUN_CAP
    PairCap,        \* DISPATCH_PAIR_CAP
    MaxMoves        \* bound: moves of humans, reviewer and supervisor

\* What the constants must satisfy; MCParts has TLC evaluate it.
MessageAssumption ==
    /\ From \in [Msg -> Task] /\ To \in [Msg -> Task] /\ Wakes \subseteq Msg
    /\ \A m \in Msg : From[m] # To[m]

BoundsAssumption == RunCap \in Nat /\ MaxMoves \in Nat

VARIABLES
    status,   \* tm_tasks.status; finished is done, published and cancelled
    ran,      \* tasks with a worker run
    session,  \* the newest terminal of each task; dying was killed at work
    start,    \* the start in flight of each task: who asked, what it carries
    msg,      \* tm_dispatches.status; unsent has no row
    used,     \* the messages the present run of each task has sent
    heard,    \* (history) how often an agent, or the task as a note, got each
    left      \* moves left

vars == <<status, ran, session, start, msg, used, heard, left>>

NoStart == [at |-> "none", by |-> "nobody", carries |-> {}]

TypeOK ==
    /\ status \in [Task -> {"draft", "queued", "running", "review", "finished",
                            "failed", "gone"}]
    /\ ran \in SUBSET Task
    /\ session \in [Task -> {"none", "works", "idle", "dying"}]
    /\ start \in [Task -> [at : {"none", "kill", "gate"},
                           by : {"nobody", "claim", "reviewer", "human", "dispatch"},
                           carries : SUBSET Wakes]]
    /\ msg \in [Msg -> {"unsent", "pending", "delivered", "failed", "cancelled"}]
    /\ used \in [Task -> 0 .. RunCap]
    /\ heard \in [Msg -> Nat] /\ left \in 0 .. MaxMoves

Init ==
    /\ status \in [Task -> {"draft", "queued"}]
    /\ ran = {}
    /\ session = [t \in Task |-> "none"] /\ start = [t \in Task |-> NoStart]
    /\ msg = [m \in Msg |-> "unsent"] /\ used = [t \in Task |-> 0]
    /\ heard = [m \in Msg |-> 0] /\ left = MaxMoves

---------------------------------------------------------------------------
(* What delivery looks at *)

Works(t) == session[t] = "works"
Starting(t) == start[t].at # "none"
SameRepo(t) == {u \in Task \ {t} : RepoOf[u] = RepoOf[t]}

\* dispatchTurnsInFlight
InFlight == {t \in Task : start[t].by = "dispatch"}

\* activeWorkers: terminals at work and turns certain to become one.
ActiveWorkers ==
    Cardinality({t \in Task : session[t] \in {"works", "dying"}})
      + Cardinality(InFlight \cup {t \in Task : start[t].at = "gate"})

\* Mutant of Busy: an idle session of the target counts.
BusyWhileOpen(t) == session[t] # "none"

\* A terminal of the target is neither idle nor gone, whatever its run reads.
Busy(t) == session[t] \in {"works", "dying"}

\* repoBusy: an agent of another task is at work in the checkout.
RepoBusy(t) == \E u \in SameRepo(t) : Works(u)

\* A turn may be started for the messages of t.
Free(t) ==
    /\ status[t] \notin {"running", "queued", "gone"} /\ ~Starting(t)
    /\ status[t] = "draft" => t \in ran
    /\ ~Busy(t) /\ ~RepoBusy(t) /\ InFlight \cap SameRepo(t) = {}

Pending(box, t) == {m \in Msg : box[m] = "pending" /\ To[m] = t}
Requests(box, t) == Pending(box, t) \cap Wakes
Notes(box, t) == Pending(box, t) \ Wakes

\* settleDispatch, of a message still pending only.
Settled(box, S, to) == [m \in Msg |-> IF m \in S /\ box[m] = "pending" THEN to ELSE box[m]]

Heard(S) == [m \in Msg |-> heard[m] + IF m \in S THEN 1 ELSE 0]

---------------------------------------------------------------------------
(* Starts *)

\* followUp, up to its first long await: a terminal that is idle is told to go
\* and waited for, any other start moves the task at once.
Begun(t, by, S) ==
    [at |-> IF session[t] = "idle" /\ by # "claim" THEN "kill" ELSE "gate",
     by |-> by, carries |-> S]

Moved(S, to) == [t \in Task |-> IF t \in S THEN to ELSE status[t]]

\* One delivery pass over the messages of box.  Targets are visited in the
\* order of their oldest message, which is any order here; from the first that
\* finds no slot on, nobody is visited.  A finished target gets its fyi as
\* notes, a deleted one fails its messages, one past its budget its requests.
Deliver(box) ==
    LET asked == {t \in Task : Free(t) /\ Requests(box, t) # {}}
    IN  \E visited \in SUBSET Task, fired \in SUBSET asked, refused \in SUBSET asked :
        LET full == ActiveWorkers + Cardinality(fired) >= Cap
            noted == UNION {Notes(box, t) : t \in {u \in visited : status[u] = "finished"}}
            lost == (UNION {Pending(box, t) : t \in {u \in visited : status[u] = "gone"}})
                      \cup (UNION {Requests(box, t) : t \in refused})
            atOnce == {t \in fired : session[t] # "idle"}
        IN  /\ full \/ visited = Task
            /\ fired \cap refused = {} /\ fired \cup refused \subseteq visited
            /\ fired \cup refused # {} => ActiveWorkers < Cap
            /\ ActiveWorkers + Cardinality(fired) <= Cap \/ fired = {}
            /\ \A t \in fired : fired \cap SameRepo(t) = {}
            /\ \A t \in asked \ (fired \cup refused) : full \/ fired \cap SameRepo(t) # {}
            /\ msg' = Settled(Settled(box, noted, "delivered"), lost, "failed")
            /\ heard' = Heard(noted)
            /\ start' = [t \in Task |-> IF t \in fired THEN Begun(t, "dispatch", Requests(box, t))
                                        ELSE start[t]]
            /\ status' = Moved(atOnce, "running")
            /\ UNCHANGED <<ran, session, left>>

\* The route: a session that is open, its agent at work or a human typing in
\* it, sends a message within the caps, and delivery is tried at once.
Send(m) ==
    /\ session[From[m]] \in {"works", "idle"} /\ status[From[m]] # "gone"
    /\ msg[m] = "unsent" /\ status[To[m]] # "gone"
    /\ used[From[m]] < RunCap
    /\ Cardinality({n \in Msg : msg[n] # "unsent" /\ {From[n], To[n]} = {From[m], To[m]}}) < PairCap
    /\ used' = [used EXCEPT ![From[m]] = @ + 1]
    /\ Deliver([msg EXCEPT ![m] = "pending"])

\* A pass of the scheduler, which waits for its own claims to start.
Tick ==
    /\ \A t \in Task : start[t].by # "claim"
    /\ UNCHANGED used
    /\ Deliver(msg)

\* The pass claims a queued task of a free checkout.
Claim(t) ==
    /\ status[t] = "queued" /\ ~Starting(t)
    /\ \A u \in Task : start[u].by # "claim"
    /\ ActiveWorkers < Cap
    /\ \A u \in SameRepo(t) : status[u] # "running"
    /\ status' = [status EXCEPT ![t] = "running"]
    /\ start' = [start EXCEPT ![t] = Begun(t, "claim", {})]
    /\ UNCHANGED <<ran, session, msg, used, heard, left>>

\* A human's follow-up or Run now, or a fix turn after a review.
FollowUp(t, by) ==
    /\ left > 0 /\ left' = left - 1
    /\ ~Starting(t) /\ ~Busy(t)
    /\ status[t] \in (IF by = "reviewer" THEN {"review"}
                      ELSE {"draft", "queued", "review", "finished", "failed"})
    /\ start' = [start EXCEPT ![t] = Begun(t, by, {})]
    /\ status' = Moved(IF session[t] = "idle" THEN {} ELSE {t}, "running")
    /\ UNCHANGED <<ran, session, msg, used, heard>>

Dropped(t) == start' = [start EXCEPT ![t] = NoStart]

\* followUp after the wait: it takes the task from any status at rest, and
\* gives up on one deleted meanwhile.
KillEnds(t) ==
    /\ start[t].at = "kill"
    /\ session' = [session EXCEPT ![t] = "none"]
    /\ IF status[t] = "gone" THEN Dropped(t) /\ UNCHANGED status
       ELSE /\ status' = [status EXCEPT ![t] = "running"]
            /\ start' = [start EXCEPT ![t].at = "gate"]
    /\ UNCHANGED <<ran, msg, used, heard, left>>

\* The old terminal is still alive after five seconds, or found by a claim:
\* startWorker puts the task in review.
Bounces(t) ==
    /\ Starting(t) /\ status[t] # "gone" /\ session[t] # "none"
    /\ IF start[t].at = "kill" THEN left > 0 ELSE status[t] = "running"
    /\ left' = IF start[t].at = "kill" THEN left - 1 ELSE left
    /\ status' = [status EXCEPT ![t] = "review"]
    /\ Dropped(t)
    /\ UNCHANGED <<ran, session, msg, used, heard>>

\* Mutant of RidesAlong: only a start through followUp reads the backlog.
RidesOnFollowUps(t) == IF start[t].by = "claim" THEN {} ELSE Notes(msg, t)

\* pendingFyiDispatches, read by whatever start the task takes.
RidesAlong(t) == Notes(msg, t)

\* The agent starts, with the messages in its prompt, which then are settled;
\* one cancelled since the start was fired is in the prompt all the same.
Spawns(t) ==
    LET prompt == start[t].carries \cup RidesAlong(t)
    IN  /\ start[t].at = "gate" /\ status[t] = "running" /\ session[t] = "none"
        /\ session' = [session EXCEPT ![t] = "works"]
        /\ ran' = ran \cup {t} /\ used' = [used EXCEPT ![t] = 0]
        /\ msg' = Settled(msg, prompt, "delivered") /\ heard' = Heard(prompt)
        /\ Dropped(t)
        /\ UNCHANGED <<status, left>>

\* Mutant of SpawnFails: the messages are settled although nobody read them.
SpawnFailsSettled(t) ==
    /\ start[t].at = "gate" /\ status[t] = "running" /\ session[t] = "none"
    /\ \E to \in {"queued", "failed", "review"} :
        /\ status' = [status EXCEPT ![t] = to]
        /\ ran' = IF to = "review" THEN ran ELSE ran \cup {t}
    /\ Dropped(t)
    /\ msg' = Settled(msg, start[t].carries, "delivered")
    /\ UNCHANGED <<session, used, heard, left>>

\* The pool is full (the task is queued again), the agent cannot be started
\* (it fails), or the gate is stopped (review): what it carried stays pending.
SpawnFails(t) ==
    /\ start[t].at = "gate" /\ status[t] = "running" /\ session[t] = "none"
    /\ \E to \in {"queued", "failed", "review"} :
        /\ status' = [status EXCEPT ![t] = to]
        /\ ran' = IF to = "review" THEN ran ELSE ran \cup {t}
    /\ Dropped(t)
    /\ UNCHANGED <<session, msg, used, heard, left>>

\* The task was cancelled while its start was in the gate.
StartLost(t) ==
    /\ start[t].at = "gate" /\ status[t] # "running"
    /\ Dropped(t)
    /\ UNCHANGED <<status, ran, session, msg, used, heard, left>>

---------------------------------------------------------------------------
(* The turn and the humans *)

\* The Stop, after which the terminal stays open, or the exit.
TurnEnds(t) ==
    /\ Works(t)
    /\ \/ /\ session' = [session EXCEPT ![t] = "idle"]
          /\ \E to \in {"review", "finished"} : status' = [status EXCEPT ![t] = to]
       \/ /\ session' = [session EXCEPT ![t] = "none"]
          /\ \E to \in {"review", "failed"} : status' = [status EXCEPT ![t] = to]
    /\ UNCHANGED <<ran, start, msg, used, heard, left>>

\* An idle terminal is swept, a killed one dies.
Closes(t) ==
    /\ session[t] \in {"idle", "dying"} /\ ~Starting(t)
    /\ session' = [session EXCEPT ![t] = "none"]
    /\ UNCHANGED <<status, ran, start, msg, used, heard, left>>

\* Retry and Add to queue; of the finished ones a cancelled one.
Enqueue(t) ==
    /\ left > 0 /\ left' = left - 1
    /\ status[t] \in {"draft", "review", "failed", "finished"}
    /\ status' = [status EXCEPT ![t] = "queued"]
    /\ UNCHANGED <<ran, session, start, msg, used, heard>>

\* Cancel, of a draft too, or Mark done; an agent at work is killed.
Settle(t) ==
    /\ left > 0 /\ left' = left - 1
    /\ status[t] \in {"draft", "queued", "running", "review"}
    /\ status' = [status EXCEPT ![t] = "finished"]
    /\ session' = [session EXCEPT ![t] = IF Works(t) THEN "dying" ELSE @]
    /\ UNCHANGED <<ran, start, msg, used, heard>>

\* The row goes; a terminal of its own is nobody's any more.
Delete(t) ==
    /\ left > 0 /\ left' = left - 1
    /\ status[t] \notin {"running", "gone"}
    /\ status' = [status EXCEPT ![t] = "gone"]
    /\ session' = [session EXCEPT ![t] = "none"]
    /\ UNCHANGED <<ran, start, msg, used, heard>>

\* A human cancels a message that reads pending.
CancelMsg(m) ==
    /\ msg[m] = "pending"
    /\ msg' = Settled(msg, {m}, "cancelled")
    /\ UNCHANGED <<status, ran, session, start, used, heard, left>>

\* Terminals and calls go with the process; boot fails a turn that was cut and
\* frees one that was on its way, if the task ever ran.
Restart ==
    /\ left > 0 /\ left' = left - 1
    /\ session' = [t \in Task |-> "none"] /\ start' = [t \in Task |-> NoStart]
    /\ status' = [t \in Task |-> IF status[t] # "running" THEN status[t]
                                 ELSE IF Works(t) \/ t \notin ran THEN "failed" ELSE "review"]
    /\ UNCHANGED <<ran, msg, used, heard>>

---------------------------------------------------------------------------

Starts(t) == KillEnds(t) \/ Bounces(t) \/ Spawns(t) \/ SpawnFails(t) \/ StartLost(t)

Next ==
    \/ Tick \/ Restart
    \/ \E m \in Msg : Send(m) \/ CancelMsg(m)
    \/ \E t \in Task : \/ Claim(t) \/ Starts(t) \/ TurnEnds(t) \/ Closes(t)
                       \/ \E by \in {"human", "reviewer"} : FollowUp(t, by)
                       \/ Enqueue(t) \/ Settle(t) \/ Delete(t)

Spec == Init /\ [][Next]_vars

Requested == \E m \in Wakes : msg[m] = "pending"
Goes(t) == Claim(t) \/ Starts(t) \/ TurnEnds(t) \/ (session[t] = "dying" /\ Closes(t))

\* Passes come, starts and turns end, a start of one kind that may fail succeeds
\* if it is tried again and again, a killed agent dies.  Nothing of the humans, nor of
\* the sweep of idle terminals.
Fairness ==
    /\ WF_vars(Requested /\ Tick)
    /\ \A t \in Task :
        /\ WF_vars(Goes(t))
        /\ \A by \in {"claim", "dispatch"} : SF_vars(start[t].by = by /\ Spawns(t))

FairSpec == Spec /\ Fairness

---------------------------------------------------------------------------
(* Properties *)

\* Nobody gets a message twice, what reads delivered was in a prompt or noted
\* on a finished task, and what an agent got reads delivered, or cancelled by
\* a human while the start that carries it was under way: over refused spawns,
\* stopped gates, bounces, cancelled targets and restarts.
ReadOnce ==
    \A m \in Msg :
        /\ heard[m] <= 1
        /\ msg[m] = "delivered" => heard[m] = 1
        /\ heard[m] = 1 => msg[m] \in {"delivered", "cancelled"}

\* Whatever started it, a turn begins with everything its task was to know.
TurnKnows ==
    session' # session => \A t \in Task : Works(t)' /\ ~Works(t) => Notes(msg', t) = {}

\* Every message is handed over once, and with the target's next turn: what
\* docs/dispatch.md promises of both intents.
HandedOver == [][ReadOnce' /\ TurnKnows]_vars

\* A message that asks for action does not stay pending for ever: its target
\* gets it, or is deleted, or past its budget, or the human takes it back; or
\* it is for a draft nobody has run.
RequestsSettle ==
    \A m \in Wakes : []<>(msg[m] # "pending" \/ (status[To[m]] = "draft" /\ To[m] \notin ran))
=============================================================================
