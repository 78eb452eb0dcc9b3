------------------------- MODULE HeavySlots_proofs -------------------------
(***************************************************************************)
(* Theorems about HeavySlots, for any runs, tickets and slot counts: the   *)
(* types, and all four safety properties.                                  *)
(*                                                                         *)
(* They rest on one fact about a pump.  Among the tickets that can be      *)
(* granted, the number of those before a ticket is its rank, and the ranks *)
(* are 0 .. n-1, each of them once.  So the tickets admitted are as many   *)
(* as there are free slots, or all of them when there are fewer.           *)
(***************************************************************************)
EXTENDS HeavySlots, FiniteSetTheorems, TLAPS

\* The waiting tickets a pump could grant, and their ranks.
Able(q, hold) == {t \in Waiting(q) : Grantable(t, hold)}
Rank(q, hold) == [t \in Able(q, hold) |-> Cardinality(Before(q, t, hold))]

---------------------------------------------------------------------------
(* The line *)

\* Who waits after a ticket joined or tickets left.
LEMMA LineMembers ==
    ASSUME NEW q, InLine(q), NEW t \in Ticket, NEW ts
    PROVE  /\ Waiting(Joined(q, t)) = Waiting(q) \cup {t}
           /\ Waiting(Without(q, ts)) = Waiting(q) \ ts
BY DEF InLine, Waiting, Joined, Without

\* With a ticket that did not wait at its end, a line is one again.
LEMMA JoinedInLine ==
    ASSUME NEW q, InLine(q), NEW t \in Ticket \ Waiting(q)
    PROVE  InLine(Joined(q, t))
<1> DEFINE j == Joined(q, t)
<1>1. Waiting(j) = Waiting(q) \cup {t}
  BY LineMembers
<1>2. \A u, v \in Waiting(j) :
         <<u, v>> \in j <=> (<<u, v>> \in q \/ v = t)
  BY <1>1 DEF Joined, InLine
<1>3. j \subseteq Waiting(j) \X Waiting(j)
  BY <1>1 DEF Joined, InLine
<1>4. \A u \in Waiting(j) : <<t, u>> \in q => FALSE
  BY DEF InLine
<1>5. \A u \in Waiting(j) : <<u, t>> \in q => FALSE
  BY DEF InLine
<1> HIDE DEF j
<1>6. ASSUME NEW u \in Waiting(j), NEW v \in Waiting(j)
      PROVE  /\ <<u, v>> \in j \/ <<v, u>> \in j
             /\ <<u, v>> \in j /\ <<v, u>> \in j => u = v
             /\ \A w \in Waiting(j) : <<u, v>> \in j /\ <<v, w>> \in j => <<u, w>> \in j
  BY <1>1, <1>2, <1>4, <1>5 DEF InLine
<1> QED
  <2>1. InLine(j)
    BY <1>3, <1>6 DEF InLine
  <2> QED BY <2>1 DEF j

\* What is left of a line is a line.
LEMMA WithoutInLine ==
    ASSUME NEW q, InLine(q), NEW ts
    PROVE  InLine(Without(q, ts))
<1> DEFINE r == Without(q, ts)
<1>1. Waiting(r) \subseteq Waiting(q)
  BY DEF Waiting, Without
<1>2. r \subseteq Waiting(r) \X Waiting(r)
  BY DEF Waiting, Without, InLine
<1>3. \A t, u \in Waiting(r) : <<t, u>> \in r <=> <<t, u>> \in q
  BY DEF Waiting, Without
<1> HIDE DEF r
<1>4. InLine(r)
  BY <1>1, <1>2, <1>3 DEF InLine
<1> QED BY <1>4 DEF r

---------------------------------------------------------------------------
(* What a pump grants *)

\* The ranks of the tickets that can be granted are 0 .. n-1, each once.
LEMMA Ranks ==
    ASSUME TicketAssumption, NEW q, InLine(q), NEW hold
    PROVE  LET n == Cardinality(Able(q, hold))
           IN  /\ IsFiniteSet(Able(q, hold)) /\ n \in Nat
               /\ Rank(q, hold) \in Bijection(Able(q, hold), 0 .. n - 1)
<1> DEFINE G == Able(q, hold)
           n == Cardinality(G)
           R == Rank(q, hold)
           B(t) == Before(q, t, hold)
<1>1. IsFiniteSet(G) /\ n \in Nat
  <2>1. G \in SUBSET Ticket
    BY DEF Able, Waiting
  <2> QED BY <2>1, FS_Subset, FS_CardinalityType DEF TicketAssumption
<1>2. ASSUME NEW t \in G
      PROVE  /\ B(t) \in SUBSET G /\ IsFiniteSet(B(t)) /\ t \notin B(t)
             /\ Cardinality(B(t)) \in 0 .. n - 1
  <2>1. B(t) \in SUBSET G /\ t \in G /\ t \notin B(t)
    BY <1>2 DEF Before, Able
  <2>2. IsFiniteSet(B(t)) /\ Cardinality(B(t)) <= n /\ Cardinality(B(t)) # n
    BY <1>1, <2>1, FS_Subset
  <2>3. Cardinality(B(t)) \in Nat
    BY <2>2, FS_CardinalityType
  <2> QED BY <1>1, <2>1, <2>2, <2>3
<1>3. R \in [G -> 0 .. n - 1]
  BY <1>2 DEF Rank
<1>4. ASSUME NEW t \in G, NEW u \in B(t)
      PROVE  R[u] < R[t]
  <2>1. u \in G /\ B(u) \in SUBSET B(t)
    BY <1>2, <1>4 DEF Before, Able, InLine
  <2>2. u \notin B(u) /\ B(u) # B(t)
    BY <1>2, <1>4, <2>1
  <2>3. /\ Cardinality(B(u)) <= Cardinality(B(t))
        /\ Cardinality(B(u)) # Cardinality(B(t))
    BY <1>2, <2>1, <2>2, FS_Subset
  <2>4. Cardinality(B(u)) \in Nat /\ Cardinality(B(t)) \in Nat
    BY <1>1, <1>2, <2>1
  <2> QED BY <2>1, <2>3, <2>4 DEF Rank
<1>5. \A t, u \in G : t # u => t \in B(u) \/ u \in B(t)
  BY DEF Before, Able, InLine
<1>6. ASSUME NEW t \in G, NEW u \in G, R[t] = R[u]
      PROVE  t = u
  <2>1. R[t] \in Int /\ R[u] \in Int
    BY <1>1, <1>3
  <2> QED BY <1>4, <1>5, <1>6, <2>1
<1>7. R \in Injection(G, 0 .. n - 1)
  BY <1>3, <1>6 DEF Injection, IsInjective
<1>8. IsFiniteSet(0 .. n - 1) /\ Cardinality(0 .. n - 1) = n
  BY <1>1, FS_Interval
<1>9. R \in Surjection(G, 0 .. n - 1)
  <2> HIDE DEF G, n, R, B
  <2>1. Cardinality(G) = Cardinality(0 .. n - 1)
    BY <1>8 DEF n
  <2> QED BY <1>7, <1>8, <2>1, FS_Injection
<1> QED BY <1>1, <1>7, <1>9 DEF Bijection

\* A pump admits as many tickets as there are free slots, or all it can.
LEMMA GrantedCount ==
    ASSUME TicketAssumption, NEW q, InLine(q), NEW h \in SUBSET Ticket, NEW m \in Nat, NEW hold
    PROVE  LET in == Granted(q, h, m, hold)
               n == Cardinality(Able(q, hold))
               free == m - Cardinality(h)
           IN  /\ in \subseteq Able(q, hold) /\ IsFiniteSet(in) /\ IsFiniteSet(h)
               /\ Cardinality(h) \in Nat /\ Cardinality(in) \in Nat
               /\ in # {} => Cardinality(in) <= free
               /\ Cardinality(in) < free => in = Able(q, hold)
<1> DEFINE in == Granted(q, h, m, hold)
           G == Able(q, hold)
           n == Cardinality(G)
           free == m - Cardinality(h)
           fill == IF free <= 0 THEN 0 ELSE IF free <= n THEN free ELSE n
           R == Rank(q, hold)
           S == [t \in in |-> R[t]]
<1>1. IsFiniteSet(h) /\ Cardinality(h) \in Nat /\ free \in Int
  BY FS_Subset, FS_CardinalityType DEF TicketAssumption
<1>2. IsFiniteSet(G) /\ n \in Nat /\ R \in Bijection(G, 0 .. n - 1)
  BY Ranks
<1>3. in = {t \in G : R[t] < free}
  <2>1. \A t \in G : Cardinality(Before(q, t, hold)) = R[t]
    BY DEF Rank
  <2>2. \A t \in G : R[t] \in Int
    BY <1>2 DEF Bijection, Injection
  <2>3. \A t \in G : Cardinality(h) + Cardinality(Before(q, t, hold)) < m <=> R[t] < free
    BY <1>1, <2>1, <2>2
  <2> QED BY <2>3 DEF Granted, Able
<1> HIDE DEF in, G, n, free, R
<1>4. fill \in Nat /\ fill <= n
  BY <1>1, <1>2
<1>5. S \in Bijection(in, 0 .. fill - 1)
  <2>1. S \in [in -> 0 .. fill - 1]
    <3>1. ASSUME NEW t \in in
          PROVE  R[t] \in 0 .. fill - 1
      <4>1. R[t] \in 0 .. n - 1 /\ R[t] < free
        BY <1>2, <1>3 DEF Bijection, Injection
      <4> QED BY <1>1, <1>2, <4>1
    <3> QED BY <3>1
  <2>2. IsInjective(S)
    BY <1>2, <1>3 DEF Bijection, Injection, IsInjective
  <2>3. ASSUME NEW i \in 0 .. fill - 1
        PROVE  \E t \in in : S[t] = i
    <3>1. i \in 0 .. n - 1 /\ i < free
      BY <1>1, <1>2
    <3>2. PICK t \in G : R[t] = i
      BY <1>2, <3>1 DEF Bijection, Surjection
    <3> QED BY <1>3, <3>1, <3>2
  <2> QED BY <2>1, <2>2, <2>3 DEF Bijection, Injection, Surjection
<1>6. IsFiniteSet(in) /\ Cardinality(in) = fill
  <2>1. in \in SUBSET G
    BY <1>3
  <2>2. IsFiniteSet(in)
    BY <1>2, <2>1, FS_Subset
  <2>3. Cardinality(0 .. fill - 1) = Cardinality(in)
    BY <1>5, <2>2, FS_Bijection DEF ExistsBijection
  <2> QED BY <1>4, <2>2, <2>3, FS_Interval
<1>7. in # {} => fill <= free
  <2>1. ASSUME NEW t \in in
        PROVE  0 < free
    <3>1. R[t] \in 0 .. n - 1 /\ R[t] < free
      BY <1>2, <1>3 DEF Bijection, Injection
    <3> QED BY <1>1, <1>2, <3>1
  <2> QED BY <1>1, <1>2, <2>1
<1>8. fill < free => in = G
  <2>1. fill < free => Cardinality(in) = Cardinality(G)
    BY <1>1, <1>2, <1>6 DEF n
  <2> QED BY <1>2, <1>3, <2>1, FS_Subset
<1>9. /\ in \subseteq G /\ IsFiniteSet(in) /\ IsFiniteSet(h)
      /\ Cardinality(h) \in Nat /\ Cardinality(in) \in Nat
      /\ in # {} => Cardinality(in) <= free
      /\ Cardinality(in) < free => in = G
  BY <1>1, <1>3, <1>4, <1>6, <1>7, <1>8
<1> QED BY <1>9 DEF in, G, free

\* Who goes before an admitted ticket, and could be admitted, is admitted.
LEMMA GrantedBefore ==
    ASSUME TicketAssumption, NEW q, InLine(q), NEW h \in SUBSET Ticket, NEW m \in Nat, NEW hold,
           NEW t \in Granted(q, h, m, hold), NEW u \in Before(q, t, hold)
    PROVE  u \in Granted(q, h, m, hold)
<1>1. u \in Waiting(q) /\ t \in Waiting(q)
  BY DEF Before, Granted
<1>2. Before(q, u, hold) \in SUBSET Before(q, t, hold)
  BY <1>1 DEF Before, InLine
<1>3. /\ IsFiniteSet(Before(q, t, hold)) /\ Cardinality(Before(q, t, hold)) \in Nat
      /\ Cardinality(h) \in Nat
  <2>1. Before(q, t, hold) \in SUBSET Ticket
    BY DEF Before, Waiting
  <2> QED BY <2>1, FS_Subset, FS_CardinalityType DEF TicketAssumption
<1>4. /\ Cardinality(Before(q, u, hold)) <= Cardinality(Before(q, t, hold))
      /\ Cardinality(Before(q, u, hold)) \in Nat
  BY <1>2, <1>3, FS_Subset, FS_CardinalityType
<1>5. Cardinality(h) + Cardinality(Before(q, t, hold)) < m
  BY DEF Granted
<1> QED
  <2>1. Cardinality(h) + Cardinality(Before(q, u, hold)) < m
    BY <1>3, <1>4, <1>5
  <2> QED BY <1>1, <2>1 DEF Granted, Before

---------------------------------------------------------------------------
(* What a pump leaves *)

\* The line and the holders a pump over q and h leaves.
Served(q, h, m, hold) == /\ queue' = Without(q, Granted(q, h, m, hold))
                         /\ held' = h \cup Granted(q, h, m, hold)

\* After a pump no slot is idle, the grants stayed within the count, nobody was
\* admitted before an older ticket that could be, and nobody came or went.
LEMMA ServedStep ==
    ASSUME TicketAssumption, NEW q, InLine(q), NEW h \in SUBSET (Ticket \ Waiting(q)),
           max' \in Nat, Served(q, h, max', memory')
    PROVE  /\ InLine(queue')
           /\ held' \subseteq Ticket \ Queued'
           /\ held' \cup Queued' = h \cup Waiting(q)
           /\ NoSlotIdle'
           /\ ~(held' \subseteq h) => Cardinality(held') <= max'
           /\ \A t \in held' \ h, u \in Queued' :
                 t \in Waiting(q) /\ (<<u, t>> \in q => ~Grantable(u, memory'))
<1> DEFINE in == Granted(q, h, max', memory')
<1>1. /\ in \subseteq Waiting(q) /\ Waiting(q) \subseteq Ticket
      /\ h \in SUBSET Ticket
  BY DEF Granted, Waiting
<1>2. InLine(queue') /\ Queued' = Waiting(q) \ in
  <2>1. Waiting(Without(q, in)) = Waiting(q) \ in
    BY DEF InLine, Waiting, Without
  <2> QED BY <2>1, WithoutInLine DEF Served, Queued
<1>3. held' = h \cup in /\ h \cap in = {}
  BY <1>1 DEF Served
<1>4. /\ in \subseteq Able(q, memory') /\ IsFiniteSet(in) /\ IsFiniteSet(h)
      /\ Cardinality(h) \in Nat /\ Cardinality(in) \in Nat
      /\ in # {} => Cardinality(in) <= max' - Cardinality(h)
      /\ Cardinality(in) < max' - Cardinality(h) => in = Able(q, memory')
  BY <1>1, GrantedCount
<1> HIDE DEF in
<1>5. Cardinality(held') = Cardinality(h) + Cardinality(in)
  <2>1. Cardinality(h \cap in) = 0
    BY <1>3, FS_EmptySet
  <2>2. Cardinality(h \cup in) = Cardinality(h) + Cardinality(in) - Cardinality(h \cap in)
    BY <1>4, FS_Union
  <2>3. held' = h \cup in
    BY <1>3
  <2> QED BY <1>4, <2>1, <2>2, <2>3
<1>6. NoSlotIdle'
  <2>1. Cardinality(held') < max' => in = Able(q, memory')
    BY <1>4, <1>5
  <2> QED BY <1>2, <2>1 DEF NoSlotIdle, Able
<1>7. ~(held' \subseteq h) => Cardinality(held') <= max'
  BY <1>3, <1>4, <1>5
<1>8. ASSUME NEW t \in held' \ h, NEW u \in Queued', <<u, t>> \in q, Grantable(u, memory')
      PROVE  FALSE
  <2>1. t \in in /\ u \in Waiting(q) \ in
    BY <1>2, <1>3, <1>8
  <2>2. u \in Before(q, t, memory')
    BY <1>8, <2>1 DEF Before
  <2> QED BY <1>1, <2>1, <2>2, GrantedBefore DEF in
<1> QED BY <1>1, <1>2, <1>3, <1>6, <1>7, <1>8

---------------------------------------------------------------------------
(* The inductive invariant *)

\* The queue, the holders and the polls, and no slot idle.
SlotsOK ==
    /\ InLine(queue)
    /\ held \subseteq Ticket \ Queued
    /\ told \subseteq held \cap Lease
    /\ polling \subseteq Lease \cap Queued
    /\ NoSlotIdle

Inv == /\ SlotsOK
       /\ max \in Slots /\ memory \in BOOLEAN
       /\ turn \in [Worker -> {"dead", "idle", "on", "parked"}]
       /\ LeaseOfLiveRun

\* What GrantsInOrder says of a step.
InOrder ==
    ~(held' \subseteq held) =>
        /\ Cardinality(held') <= max'
        /\ \A t \in held' \ held, u \in Queued :
              (t \in Queued => <<u, t>> \in queue) /\ u \in Waiting(queue')
                  => ~Grantable(u, memory')

\* A pump over what is left of the line and the holders keeps SlotsOK.
LEMMA PumpStep ==
    ASSUME TicketAssumption, SlotsAssumption, SlotsOK, max' \in Slots,
           NEW ts, NEW n, n = max', NEW hold, hold = memory',
           Pump(Without(queue, ts), held \ ts, polling \ ts, n, hold)
    PROVE  SlotsOK' /\ InOrder /\ held' \cup Queued' = (held \cup Queued) \ ts
<1> DEFINE line == Without(queue, ts)
           h == held \ ts
<1>1. InLine(line) /\ Waiting(line) = Queued \ ts
  <2>1. Waiting(Without(queue, ts)) = Waiting(queue) \ ts
    BY DEF InLine, Waiting, Without, SlotsOK
  <2> QED BY <2>1, WithoutInLine DEF Queued, SlotsOK
<1>2. h \in SUBSET (Ticket \ Waiting(line))
  BY <1>1 DEF SlotsOK
<1>3. max' \in Nat
  BY DEF SlotsAssumption
<1>4. Served(line, h, max', memory')
  BY DEF Pump, Served
<1>5. /\ InLine(queue')
      /\ held' \subseteq Ticket \ Queued'
      /\ held' \cup Queued' = h \cup Waiting(line)
      /\ NoSlotIdle'
      /\ ~(held' \subseteq h) => Cardinality(held') <= max'
      /\ \A t \in held' \ h, u \in Queued' :
            t \in Waiting(line) /\ (<<u, t>> \in line => ~Grantable(u, memory'))
  <2> HIDE DEF line, h
  <2> QED BY <1>1, <1>2, <1>3, <1>4, ServedStep
<1>6. told' \subseteq held' \cap Lease
  BY DEF Pump, SlotsOK
<1>7. polling' \subseteq Lease \cap Queued'
  <2>1. polling' \cap held' = {}
    BY DEF Pump, SlotsOK
  <2>2. polling' \subseteq Lease \cap (Queued \ ts)
    BY DEF Pump, SlotsOK
  <2> QED BY <1>1, <1>5, <2>1, <2>2
<1>8. InOrder
  <2>1. SUFFICES ASSUME NEW t \in held' \ held, NEW u \in Queued, u \in Queued',
                        t \in Queued => <<u, t>> \in queue
                 PROVE  ~Grantable(u, memory') /\ Cardinality(held') <= max'
    BY <1>5 DEF InOrder, Queued
  <2>2. t \in held' \ h /\ t \in Waiting(line)
    BY <1>5
  <2>3. u \in Waiting(line)
    BY <1>2, <1>5, <2>1 DEF SlotsOK
  <2>4. <<u, t>> \in line
    BY <1>1, <2>1, <2>2, <2>3 DEF Without
  <2> QED BY <1>5, <2>1, <2>2, <2>4
<1> QED BY <1>1, <1>5, <1>6, <1>7, <1>8 DEF SlotsOK

\* So does one after a fresh ticket joined the line.
LEMMA JoinStep ==
    ASSUME TicketAssumption, SlotsAssumption, SlotsOK, max \in Slots,
           NEW t \in Ticket \ (held \cup Queued),
           max' = max, memory' = memory,
           Served(Joined(queue, t), held, max, memory)
    PROVE  /\ InLine(queue') /\ held' \subseteq Ticket \ Queued' /\ NoSlotIdle'
           /\ held' \cup Queued' = held \cup Queued \cup {t}
           /\ InOrder
<1> DEFINE line == Joined(queue, t)
<1>1. InLine(line) /\ Waiting(line) = Queued \cup {t}
  <2>1. InLine(queue) /\ t \in Ticket \ Waiting(queue)
    BY DEF SlotsOK, Queued
  <2> QED BY <2>1, JoinedInLine, LineMembers DEF Queued
<1>2. held \in SUBSET (Ticket \ Waiting(line))
  BY <1>1 DEF SlotsOK
<1>3. max' \in Nat
  BY DEF SlotsAssumption
<1>4. Served(line, held, max', memory')
  OBVIOUS
<1>5. /\ InLine(queue')
      /\ held' \subseteq Ticket \ Queued'
      /\ held' \cup Queued' = held \cup Waiting(line)
      /\ NoSlotIdle'
      /\ ~(held' \subseteq held) => Cardinality(held') <= max'
      /\ \A v \in held' \ held, u \in Queued' :
            v \in Waiting(line) /\ (<<u, v>> \in line => ~Grantable(u, memory'))
  <2> HIDE DEF line
  <2> QED BY <1>1, <1>2, <1>3, <1>4, ServedStep
<1>6. InOrder
  <2>1. SUFFICES ASSUME NEW v \in held' \ held, NEW u \in Queued, u \in Queued',
                        v \in Queued => <<u, v>> \in queue
                 PROVE  ~Grantable(u, memory') /\ Cardinality(held') <= max'
    BY <1>5 DEF InOrder, Queued
  <2>2. v \in Queued \cup {t}
    BY <1>1, <1>5, <2>1
  <2>3. <<u, v>> \in line
    BY <2>1, <2>2 DEF Joined, Queued
  <2> QED BY <1>5, <2>1, <2>3
<1> QED BY <1>1, <1>5, <1>6

---------------------------------------------------------------------------
(* The steps *)

\* A release keeps the invariant, and takes nothing but what it is given.
LEMMA DropStep ==
    ASSUME TicketAssumption, SlotsAssumption, Inv, NEW ts, Drop(ts),
           UNCHANGED <<max, memory>>
    PROVE  SlotsOK' /\ InOrder /\ held' \cup Queued' = (held \cup Queued) \ ts
<1>1. SlotsOK /\ max' \in Slots /\ max = max' /\ memory = memory'
  BY DEF Inv
<1> QED BY <1>1, PumpStep DEF Drop

\* A lease route or the tick.
LEMMA LeaseStepInv ==
    ASSUME TicketAssumption, SlotsAssumption, Inv, NEW t \in Lease, LeaseStep(t)
    PROVE  Inv' /\ InOrder
<1> USE DEF SlotsOK
<1>1. UNCHANGED <<max, memory, turn>>
  BY DEF LeaseStep, Acquire, Poll, PollEnds, Release, Abandon, Unclaim, Expire
<1>2. ASSUME NEW waits \in BOOLEAN, Acquire(t, waits)
      PROVE  SlotsOK' /\ LeaseOfLiveRun' /\ InOrder
  <2>1. t \in Ticket \ (held \cup Queued) /\ Served(Joined(queue, t), held, max, memory)
    BY <1>2 DEF Acquire, TakeTicket, Served, Ticket
  <2>2. /\ InLine(queue') /\ held' \subseteq Ticket \ Queued' /\ NoSlotIdle'
        /\ held' \cup Queued' = held \cup Queued \cup {t}
        /\ InOrder
    BY <1>1, <2>1, JoinStep DEF Inv
  <2>3. told' \subseteq held' \cap Lease
    BY <1>2 DEF Acquire, TakeTicket, Inv
  <2>4. polling' \subseteq Lease \cap Queued'
    <3>1. polling' \subseteq Lease /\ polling' \subseteq held \cup Queued \cup {t}
      BY <1>2 DEF Acquire, TakeTicket, Inv
    <3>2. polling' \cap held' = {}
      BY <1>2 DEF Acquire, TakeTicket, Inv
    <3> QED BY <2>2, <3>1, <3>2
  <2>5. LeaseOfLiveRun'
    BY <1>1, <1>2, <2>2 DEF Acquire, Inv, LeaseOfLiveRun, Queued
  <2> QED BY <2>2, <2>3, <2>4, <2>5
<1>3. ASSUME Poll(t) \/ PollEnds(t)
      PROVE  SlotsOK' /\ LeaseOfLiveRun' /\ InOrder
  <2>1. UNCHANGED <<queue, held>>
    BY <1>3 DEF Poll, PollEnds
  <2>2. told' \subseteq held' \cap Lease /\ polling' \subseteq Lease \cap Queued'
    BY <1>3, <2>1 DEF Poll, PollEnds, Inv, Queued
  <2> QED BY <1>1, <2>1, <2>2 DEF Inv, LeaseOfLiveRun, InOrder, NoSlotIdle, Queued
<1>4. ASSUME Release(t) \/ Abandon(t) \/ Unclaim(t) \/ Expire(t)
      PROVE  SlotsOK' /\ LeaseOfLiveRun' /\ InOrder
  <2>1. Drop({t})
    BY <1>4 DEF Release, Abandon, Unclaim, Expire
  <2>2. SlotsOK' /\ InOrder /\ held' \cup Queued' = (held \cup Queued) \ {t}
    BY <1>1, <2>1, DropStep
  <2>3. LeaseOfLiveRun'
    BY <1>1, <2>2 DEF Inv, LeaseOfLiveRun, Queued
  <2> QED BY <2>2, <2>3
<1> QED BY <1>1, <1>2, <1>3, <1>4 DEF LeaseStep, Inv

\* A check is asked for, given up or ended.
LEMMA CheckStepInv ==
    ASSUME TicketAssumption, SlotsAssumption, Inv, NEW c \in Check, CheckStep(c)
    PROVE  Inv' /\ InOrder
<1>1. UNCHANGED <<max, memory, turn>>
  BY DEF CheckStep, AskCheck, AbortCheck, EndCheck
<1>2. ASSUME AskCheck(c)
      PROVE  SlotsOK' /\ LeaseOfLiveRun' /\ InOrder
  <2>1. c \in Ticket \ (held \cup Queued) /\ Served(Joined(queue, c), held, max, memory)
    BY <1>2 DEF AskCheck, Pump, Served, Ticket
  <2>2. /\ InLine(queue') /\ held' \subseteq Ticket \ Queued' /\ NoSlotIdle'
        /\ held' \cup Queued' = held \cup Queued \cup {c}
        /\ InOrder
    BY <1>1, <2>1, JoinStep DEF Inv
  <2>3. told' \subseteq held' \cap Lease
    BY <1>2 DEF AskCheck, Pump, Inv, SlotsOK
  <2>4. polling' \subseteq Lease \cap Queued'
    <3>1. polling' \subseteq Lease /\ polling' \subseteq held \cup Queued
      BY <1>2 DEF AskCheck, Pump, Inv, SlotsOK
    <3>2. polling' \cap held' = {}
      BY <1>2 DEF AskCheck, Pump, Inv, SlotsOK
    <3> QED BY <2>2, <3>1, <3>2
  <2>5. LeaseOfLiveRun'
    BY <1>1, <2>2 DEF TicketAssumption, Inv, LeaseOfLiveRun, Queued
  <2> QED BY <2>2, <2>3, <2>4, <2>5 DEF SlotsOK
<1>3. ASSUME AbortCheck(c) \/ EndCheck(c)
      PROVE  SlotsOK' /\ LeaseOfLiveRun' /\ InOrder
  <2>1. Drop({c})
    BY <1>3 DEF AbortCheck, EndCheck
  <2>2. SlotsOK' /\ InOrder /\ held' \cup Queued' = (held \cup Queued) \ {c}
    BY <1>1, <2>1, DropStep
  <2>3. LeaseOfLiveRun'
    BY <1>1, <2>2 DEF Inv, LeaseOfLiveRun, Queued
  <2> QED BY <2>2, <2>3
<1> QED BY <1>1, <1>2, <1>3 DEF CheckStep, Inv

\* A turn begins, parks or ends, or its process exits.
LEMMA WorkerStepInv ==
    ASSUME TicketAssumption, SlotsAssumption, Inv, NEW w \in Worker, WorkerStep(w)
    PROVE  Inv' /\ InOrder
<1>1. UNCHANGED <<max, memory>>
  BY DEF WorkerStep, TurnBegins, TurnParks, TurnEnds, RunExits
<1>2. /\ turn' \in [Worker -> {"dead", "idle", "on", "parked"}]
      /\ \A v \in Worker \ {w} : turn'[v] = turn[v]
  BY DEF WorkerStep, TurnBegins, TurnParks, TurnEnds, RunExits, Inv
<1>3. \A t \in Lease : By[t] \in Worker
  BY DEF TicketAssumption, Ticket
<1>4. ASSUME TurnBegins(w) \/ TurnParks(w)
      PROVE  SlotsOK' /\ LeaseOfLiveRun' /\ InOrder
  <2>1. UNCHANGED <<queue, held, told, polling>> /\ turn'[w] # "dead"
    BY <1>4 DEF TurnBegins, TurnParks, Inv
  <2>2. LeaseOfLiveRun'
    BY <1>2, <1>3, <2>1 DEF Inv, LeaseOfLiveRun, Queued
  <2> QED BY <1>1, <2>1, <2>2 DEF Inv, SlotsOK, InOrder, NoSlotIdle, Queued
<1>5. ASSUME TurnEnds(w) \/ RunExits(w)
      PROVE  SlotsOK' /\ LeaseOfLiveRun' /\ InOrder
  <2>1. Drop(LeasesOf(w))
    BY <1>5 DEF TurnEnds, RunExits
  <2>2. SlotsOK' /\ InOrder /\ held' \cup Queued' = (held \cup Queued) \ LeasesOf(w)
    BY <1>1, <2>1, DropStep
  <2>3. LeaseOfLiveRun'
    <3>1. \A t \in Lease \cap (held' \cup Queued') : By[t] \in Worker \ {w}
      BY <1>3, <2>2 DEF LeasesOf
    <3> QED BY <1>2, <2>2, <3>1 DEF Inv, LeaseOfLiveRun, Queued
  <2> QED BY <2>2, <2>3
<1> QED BY <1>1, <1>2, <1>4, <1>5 DEF WorkerStep, Inv

\* Every step keeps the invariant, and admits in order.
LEMMA NextInv ==
    ASSUME TicketAssumption, SlotsAssumption, Inv, [Next]_vars
    PROVE  Inv' /\ InOrder
<1>1. ASSUME NEW n \in Slots, Resize(n)
      PROVE  Inv' /\ InOrder
  <2>1. Without(queue, {}) = queue
    BY DEF Without
  <2>2. Pump(Without(queue, {}), held \ {}, polling \ {}, n, memory)
    BY <1>1, <2>1 DEF Resize
  <2>3. SlotsOK' /\ InOrder /\ held' \cup Queued' = (held \cup Queued) \ {}
    BY <1>1, <2>2, PumpStep DEF Resize, Inv
  <2> QED BY <1>1, <2>3 DEF Resize, Inv, LeaseOfLiveRun, Queued
<1>2. ASSUME FuseMoves
      PROVE  Inv' /\ InOrder
  <2>1. Without(queue, {}) = queue
    BY DEF Without
  <2>2. Pump(Without(queue, {}), held \ {}, polling \ {}, max, memory')
    BY <1>2, <2>1 DEF FuseMoves
  <2>3. SlotsOK' /\ InOrder /\ held' \cup Queued' = (held \cup Queued) \ {}
    BY <1>2, <2>2, PumpStep DEF FuseMoves, Inv
  <2> QED BY <1>2, <2>3 DEF FuseMoves, Inv, LeaseOfLiveRun, Queued
<1>3. ASSUME NEW n \in Slots, Restart(n)
      PROVE  Inv' /\ InOrder
  BY <1>3 DEF Restart, Inv, SlotsOK, NoSlotIdle, LeaseOfLiveRun, InOrder, Queued, Waiting, InLine
<1>4. CASE UNCHANGED vars
  BY <1>4 DEF vars, Inv, SlotsOK, NoSlotIdle, LeaseOfLiveRun, InOrder, Queued
<1> QED BY <1>1, <1>2, <1>3, <1>4, LeaseStepInv, CheckStepInv, WorkerStepInv DEF Next

\* The invariant holds in every state.
LEMMA Invariant ==
    ASSUME TicketAssumption, SlotsAssumption
    PROVE  Spec => []Inv
<1>1. Init => Inv
  BY DEF Init, Inv, SlotsOK, NoSlotIdle, LeaseOfLiveRun, Queued, Waiting, InLine
<1>2. Inv /\ [Next]_vars => Inv'
  BY NextInv
<1> QED BY <1>1, <1>2, PTL DEF Spec

---------------------------------------------------------------------------
(* The theorems *)

\* Every variable keeps its type; in particular the queue stays a line, and no
\* ticket waits while it holds a slot.
THEOREM Typed ==
    ASSUME TicketAssumption, SlotsAssumption
    PROVE  Spec => []TypeOK
<1>1. Inv => TypeOK
  BY DEF Inv, SlotsOK, TypeOK
<1> QED BY <1>1, Invariant, PTL

\* Whatever frees a slot, raises the count or clears the fuse pumps: no slot is
\* ever left free while a ticket waits that could have it.
THEOREM Busy ==
    ASSUME TicketAssumption, SlotsAssumption
    PROVE  Spec => []NoSlotIdle
<1>1. Inv => NoSlotIdle
  BY DEF Inv, SlotsOK
<1> QED BY <1>1, Invariant, PTL

\* Who was admitted or dropped has been answered.
THEOREM Answered ==
    ASSUME TicketAssumption, SlotsAssumption
    PROVE  Spec => []PollsAnswered
<1>1. Inv => PollsAnswered
  BY DEF Inv, SlotsOK, PollsAnswered
<1> QED BY <1>1, Invariant, PTL

\* No lease, held or waiting, outlives the process of its run.
THEOREM LeasesDie ==
    ASSUME TicketAssumption, SlotsAssumption
    PROVE  Spec => []LeaseOfLiveRun
<1>1. Inv => LeaseOfLiveRun
  BY DEF Inv
<1> QED BY <1>1, Invariant, PTL

\* A grant stays within the count in force, and passes an older ticket only when
\* the fuse holds that one back.
THEOREM Grants ==
    ASSUME TicketAssumption, SlotsAssumption
    PROVE  Spec => GrantsInOrder
<1>1. Inv /\ [Next]_vars => [InOrder]_vars
  BY NextInv
<1>2. InOrder <=>
        (~(held' \subseteq held) =>
            /\ Cardinality(held') <= max'
            /\ \A t \in held' \ held, u \in Queued :
                  (t \in Queued => <<u, t>> \in queue) /\ u \in Waiting(queue')
                      => ~Grantable(u, memory'))
  BY DEF InOrder
<1> QED BY <1>1, <1>2, Invariant, PTL DEF Spec, GrantsInOrder
=============================================================================
