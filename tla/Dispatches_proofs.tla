-------------------------- MODULE Dispatches_proofs --------------------------
(***************************************************************************)
(* Every message is handed over once, and a turn knows what was for it, for*)
(* any tasks, messages and caps.  The invariant says what a start carries  *)
(* between the moment it is fired and the spawn: messages of its own task  *)
(* that nobody has read, and that only a human can take back meanwhile.    *)
(***************************************************************************)
EXTENDS Dispatches, TLAPS

\* The rows.
Statuses == {"draft", "queued", "running", "review", "finished", "failed", "gone"}
Sessions == {"none", "works", "idle", "dying"}
StartRow == [at : {"none", "kill", "gate"},
             by : {"nobody", "claim", "reviewer", "human", "dispatch"}, carries : SUBSET Wakes]
Boxes == [Msg -> {"unsent", "pending", "delivered", "failed", "cancelled"}]

\* What a start carries is for its task, unread, and can only be taken back by a human, or
\* failed with its task.
CarriesUnread == \A t \in Task :
    /\ start[t].at = "none" => start[t].carries = {}
    /\ \A m \in start[t].carries :
          /\ To[m] = t /\ heard[m] = 0
          /\ msg[m] \in {"pending", "cancelled"} \/ (msg[m] = "failed" /\ status[t] = "gone")

\* A deleted task has no terminal.
GoneIsClosed == \A t \in Task : status[t] = "gone" => session[t] = "none"

\* With ReadOnce it is inductive.
Inv == TypeOK /\ CarriesUnread /\ GoneIsClosed /\ ReadOnce

\* settleDispatch writes the messages of the set that are pending.
LEMMA SettledBox ==
    ASSUME NEW box \in Boxes, NEW S, NEW to \in {"delivered", "failed", "cancelled"}
    PROVE  /\ Settled(box, S, to) \in Boxes
           /\ \A m \in Msg : Settled(box, S, to)[m] =
                                IF m \in S /\ box[m] = "pending" THEN to ELSE box[m]
BY DEF Settled, Boxes

\* Who is told is counted once.
LEMMA HeardOnce ==
    ASSUME heard \in [Msg -> Nat], NEW S
    PROVE  /\ Heard(S) \in [Msg -> Nat]
           /\ \A m \in Msg : Heard(S)[m] = heard[m] + IF m \in S THEN 1 ELSE 0
<1>1. ASSUME NEW m \in Msg PROVE heard[m] + (IF m \in S THEN 1 ELSE 0) \in Nat
  OBVIOUS
<1> QED BY <1>1 DEF Heard

\* What a delivery pass does, said without its cap and the order of its visits.
Delivery(box, fired, refused, atOnce, noted, lost) ==
    /\ \A t \in fired : Free(t) /\ t \notin refused
    /\ \A t \in refused : Free(t)
    /\ atOnce \subseteq fired
    /\ \A m \in noted : box[m] = "pending" /\ m \notin Wakes /\ status[To[m]] = "finished"
    /\ \A m \in lost : /\ box[m] = "pending"
                       /\ status[To[m]] = "gone" \/ (m \in Wakes /\ To[m] \in refused)
    /\ msg' \in Boxes
    /\ \A m \in Msg : msg'[m] = IF m \in noted THEN "delivered"
                                ELSE IF m \in lost THEN "failed" ELSE box[m]
    /\ heard' = Heard(noted)
    /\ start' = [t \in Task |-> IF t \in fired
                                THEN Begun(t, "dispatch", Requests(box, t)) ELSE start[t]]
    /\ status' = Moved(atOnce, "running")
    /\ UNCHANGED <<ran, session, left>>

\* It is one.
LEMMA Delivers ==
    ASSUME NEW box \in Boxes, Deliver(box)
    PROVE  \E fired, refused, atOnce \in SUBSET Task, noted, lost \in SUBSET Msg :
             Delivery(box, fired, refused, atOnce, noted, lost)
<1> DEFINE asked == {t \in Task : Free(t) /\ Requests(box, t) # {}}
           Noted(visited) == UNION {Notes(box, t) : t \in {u \in visited : status[u] = "finished"}}
           Lost(visited, refused) ==
              (UNION {Pending(box, t) : t \in {u \in visited : status[u] = "gone"}})
                  \cup (UNION {Requests(box, t) : t \in refused})
<1>1. PICK visited \in SUBSET Task, fired \in SUBSET asked, refused \in SUBSET asked :
          /\ fired \cap refused = {}
          /\ msg' = Settled(Settled(box, Noted(visited), "delivered"),
                            Lost(visited, refused), "failed")
          /\ heard' = Heard(Noted(visited))
          /\ start' = [t \in Task |-> IF t \in fired THEN Begun(t, "dispatch", Requests(box, t))
                                      ELSE start[t]]
          /\ status' = Moved({t \in fired : session[t] # "idle"}, "running")
          /\ UNCHANGED <<ran, session, left>>
  BY DEF Deliver
<1> DEFINE noted == Noted(visited)
           lost == Lost(visited, refused)
           atOnce == {t \in fired : session[t] # "idle"}
<1>2. \A m \in noted : /\ m \in Msg /\ box[m] = "pending"
                       /\ m \notin Wakes /\ status[To[m]] = "finished"
  BY DEF Notes, Pending
<1>3. \A m \in lost : /\ m \in Msg /\ box[m] = "pending"
                      /\ status[To[m]] = "gone" \/ (m \in Wakes /\ To[m] \in refused)
  <2> SUFFICES ASSUME NEW m \in lost
               PROVE  /\ m \in Msg /\ box[m] = "pending"
                      /\ status[To[m]] = "gone" \/ (m \in Wakes /\ To[m] \in refused)
    OBVIOUS
  <2>1. CASE m \in UNION {Pending(box, t) : t \in {u \in visited : status[u] = "gone"}}
    <3>1. PICK t \in visited : status[t] = "gone" /\ m \in Pending(box, t)
      BY <2>1
    <3> QED BY <3>1 DEF Pending
  <2>2. CASE m \in UNION {Requests(box, t) : t \in refused}
    <3>1. PICK t \in refused : m \in Requests(box, t)
      BY <2>2
    <3>2. m \in Msg /\ box[m] = "pending" /\ m \in Wakes /\ To[m] = t
      BY <3>1 DEF Requests, Pending
    <3> QED BY <3>1, <3>2
  <2> QED BY <2>1, <2>2
<1>4. \A m \in noted : m \notin lost
  BY <1>2, <1>3
<1> HIDE DEF noted, lost
<1>5. Settled(box, noted, "delivered") \in Boxes
  BY SettledBox
<1>6. msg' \in Boxes
  BY <1>1, <1>5, SettledBox DEF noted, lost
<1>7. ASSUME NEW m \in Msg
      PROVE  msg'[m] = IF m \in noted THEN "delivered" ELSE IF m \in lost THEN "failed" ELSE box[m]
  <2>1. Settled(box, noted, "delivered")[m] = IF m \in noted /\ box[m] = "pending" THEN "delivered"
                                              ELSE box[m]
    BY SettledBox
  <2>2. msg'[m] = IF m \in lost /\ Settled(box, noted, "delivered")[m] = "pending" THEN "failed"
                  ELSE Settled(box, noted, "delivered")[m]
    BY <1>1, <1>5, SettledBox DEF noted, lost
  <2> QED BY <1>2, <1>3, <1>4, <2>1, <2>2
<1>8. /\ fired \in SUBSET Task /\ refused \in SUBSET Task /\ atOnce \in SUBSET Task
      /\ noted \in SUBSET Msg /\ lost \in SUBSET Msg
      /\ (\A t \in fired : Free(t) /\ t \notin refused) /\ (\A t \in refused : Free(t))
  BY <1>1, <1>2, <1>3
<1>9. heard' = Heard(noted)
  BY <1>1 DEF noted
<1> QED
  <2> noted \in SUBSET Msg /\ lost \in SUBSET Msg
    BY <1>8
  <2> WITNESS fired \in SUBSET Task, refused \in SUBSET Task, atOnce \in SUBSET Task,
              noted \in SUBSET Msg, lost \in SUBSET Msg
  <2> QED BY <1>1, <1>2, <1>3, <1>6, <1>7, <1>8, <1>9 DEF Delivery

\* A pass keeps the invariant: what a start carries is neither noted nor lost,
\* for its task is neither finished nor free.
LEMMA DeliverInv ==
    ASSUME MessageAssumption, Inv, NEW box \in Boxes,
           \A m \in Msg : box[m] = msg[m] \/ (msg[m] = "unsent" /\ box[m] = "pending"),
           Deliver(box)
    PROVE  CarriesUnread' /\ GoneIsClosed' /\ ReadOnce'
<1>1. PICK fired, refused, atOnce \in SUBSET Task, noted, lost \in SUBSET Msg :
             Delivery(box, fired, refused, atOnce, noted, lost)
  BY Delivers
<1> USE DEF Delivery
<1>2. /\ heard \in [Msg -> Nat] /\ start \in [Task -> StartRow]
      /\ To \in [Msg -> Task] /\ Wakes \subseteq Msg
  BY DEF Inv, TypeOK, StartRow, MessageAssumption
<1>3. \A m \in Msg : heard'[m] = heard[m] + IF m \in noted THEN 1 ELSE 0
  BY <1>1, <1>2, HeardOnce
<1>4. ASSUME NEW m \in Msg, box[m] = "pending"
      PROVE  heard[m] = 0
  BY <1>2, <1>4 DEF Inv, ReadOnce
<1>5. ReadOnce'
  <2> SUFFICES ASSUME NEW m \in Msg
               PROVE  /\ heard'[m] <= 1
                      /\ msg'[m] = "delivered" => heard'[m] = 1
                      /\ heard'[m] = 1 => msg'[m] \in {"delivered", "cancelled"}
    BY DEF ReadOnce
  <2>1. msg'[m] = IF m \in noted THEN "delivered" ELSE IF m \in lost THEN "failed" ELSE box[m]
    BY <1>1
  <2>2. CASE m \in noted
    BY <1>1, <1>3, <1>4, <2>1, <2>2
  <2>3. CASE m \notin noted
    <3>1. heard'[m] = heard[m] /\ (m \in lost => heard[m] = 0)
      BY <1>1, <1>2, <1>3, <1>4, <2>3
    <3>2. box[m] = msg[m] \/ heard[m] = 0
      BY <1>4
    <3> QED BY <2>1, <2>3, <3>1, <3>2 DEF Inv, ReadOnce
  <2> QED BY <2>2, <2>3
<1>6. CarriesUnread'
  <2> SUFFICES ASSUME NEW t \in Task
               PROVE  /\ start'[t].at = "none" => start'[t].carries = {}
                      /\ \A m \in start'[t].carries :
                            /\ To[m] = t /\ heard'[m] = 0
                            /\ \/ msg'[m] \in {"pending", "cancelled"}
                               \/ msg'[m] = "failed" /\ status'[t] = "gone"
    BY DEF CarriesUnread
  <2>1. start'[t] = IF t \in fired THEN Begun(t, "dispatch", Requests(box, t)) ELSE start[t]
    BY <1>1
  <2>2. status[t] = "gone" => status'[t] = "gone"
    BY <1>1 DEF Free, Moved
  <2>3. CASE t \in fired
    <3>1. start'[t].at # "none" /\ start'[t].carries = Requests(box, t)
      BY <2>1, <2>3 DEF Begun
    <3>2. ASSUME NEW m \in Requests(box, t)
          PROVE  To[m] = t /\ heard'[m] = 0 /\ msg'[m] = "pending"
      <4>1. m \in Msg /\ m \in Wakes /\ To[m] = t /\ box[m] = "pending"
        BY DEF Requests, Pending
      <4>2. m \notin noted /\ m \notin lost
        BY <1>1, <2>3, <4>1 DEF Free
      <4>3. heard[m] = 0
        BY <1>4, <4>1
      <4> QED BY <1>1, <1>3, <4>1, <4>2, <4>3
    <3> QED BY <3>1, <3>2
  <2>4. CASE t \notin fired
    <3>1. start'[t] = start[t]
      BY <2>1, <2>4
    <3>2. ASSUME NEW m \in start[t].carries
          PROVE  /\ To[m] = t /\ heard'[m] = 0
                 /\ \/ msg'[m] \in {"pending", "cancelled"}
                    \/ msg'[m] = "failed" /\ status'[t] = "gone"
      <4>1. m \in Msg /\ m \in Wakes
        BY <1>2 DEF StartRow
      <4>2. /\ start[t].at # "none" /\ To[m] = t /\ heard[m] = 0
            /\ msg[m] \in {"pending", "cancelled"} \/ (msg[m] = "failed" /\ status[t] = "gone")
        BY DEF Inv, CarriesUnread
      <4>3. box[m] = msg[m] /\ m \notin noted
        BY <1>1, <4>1, <4>2
      <4>4. m \in lost => status[t] = "gone"
        BY <1>1, <4>2 DEF Free, Starting
      <4>5. msg'[m] = IF m \in lost THEN "failed" ELSE msg[m]
        BY <1>1, <4>1, <4>3
      <4>6. heard'[m] = 0
        BY <1>3, <4>1, <4>2, <4>3
      <4> QED BY <2>2, <4>2, <4>4, <4>5, <4>6
    <3> QED BY <3>1, <3>2 DEF Inv, CarriesUnread
  <2> QED BY <2>3, <2>4
<1>7. GoneIsClosed'
  BY <1>1 DEF Inv, GoneIsClosed, Moved
<1> QED BY <1>5, <1>6, <1>7

\* A prompt holds what the start carries and the backlog, and settles all of it.
LEMMA SpawnsInv ==
    ASSUME MessageAssumption, Inv, NEW t \in Task, Spawns(t)
    PROVE  /\ CarriesUnread' /\ GoneIsClosed' /\ ReadOnce' /\ Notes(msg', t) = {}
           /\ heard' \in [Msg -> Nat] /\ msg' \in Boxes
<1> DEFINE prompt == start[t].carries \cup RidesAlong(t)
<1>1. heard \in [Msg -> Nat] /\ start \in [Task -> StartRow] /\ msg \in Boxes /\ Wakes \subseteq Msg
  BY DEF Inv, TypeOK, StartRow, MessageAssumption, Boxes
<1>2. /\ msg' = Settled(msg, prompt, "delivered") /\ heard' = Heard(prompt)
      /\ status[t] = "running" /\ status' = status /\ start' = [start EXCEPT ![t] = NoStart]
  BY DEF Spawns, Dropped
<1>3. \A m \in prompt : /\ m \in Msg /\ To[m] = t
                        /\ heard[m] = 0 /\ msg[m] \in {"pending", "cancelled"}
  <2>1. \A m \in start[t].carries :
           m \in Msg /\ To[m] = t /\ heard[m] = 0 /\ msg[m] \in {"pending", "cancelled"}
    BY <1>1, <1>2 DEF Inv, CarriesUnread, StartRow
  <2>2. \A m \in RidesAlong(t) : m \in Msg /\ To[m] = t /\ heard[m] = 0 /\ msg[m] = "pending"
    BY <1>1 DEF RidesAlong, Notes, Pending, Inv, ReadOnce
  <2> QED BY <2>1, <2>2
<1>4. \A m \in Notes(msg, t) : m \in prompt
  BY DEF RidesAlong
<1> HIDE DEF prompt
<1>5. \A m \in Msg : /\ msg'[m] = IF m \in prompt /\ msg[m] = "pending" THEN "delivered" ELSE msg[m]
                     /\ heard'[m] = heard[m] + IF m \in prompt THEN 1 ELSE 0
  BY <1>1, <1>2, SettledBox, HeardOnce
<1>6. heard' \in [Msg -> Nat] /\ msg' \in Boxes
  BY <1>1, <1>2, SettledBox, HeardOnce
<1>7. ReadOnce'
  <2> SUFFICES ASSUME NEW m \in Msg
               PROVE  /\ heard'[m] <= 1
                      /\ msg'[m] = "delivered" => heard'[m] = 1
                      /\ heard'[m] = 1 => msg'[m] \in {"delivered", "cancelled"}
    BY DEF ReadOnce
  <2>1. CASE m \in prompt
    BY <1>3, <1>5, <2>1
  <2>2. CASE m \notin prompt
    BY <1>1, <1>5, <2>2 DEF Inv, ReadOnce
  <2> QED BY <2>1, <2>2
<1>8. CarriesUnread'
  <2> SUFFICES ASSUME NEW u \in Task
               PROVE  /\ start'[u].at = "none" => start'[u].carries = {}
                      /\ \A m \in start'[u].carries :
                            /\ To[m] = u /\ heard'[m] = 0
                            /\ \/ msg'[m] \in {"pending", "cancelled"}
                               \/ msg'[m] = "failed" /\ status'[u] = "gone"
    BY DEF CarriesUnread
  <2>1. CASE u = t
    BY <1>1, <1>2, <2>1 DEF NoStart
  <2>2. CASE u # t
    <3>1. start'[u] = start[u]
      BY <1>1, <1>2, <2>2
    <3>2. ASSUME NEW m \in start[u].carries
          PROVE  m \in Msg /\ heard'[m] = heard[m] /\ msg'[m] = msg[m]
      <4>1. m \in Msg /\ To[m] = u
        BY <1>1 DEF StartRow, Inv, CarriesUnread
      <4>2. m \notin prompt
        BY <1>3, <2>2, <4>1
      <4> QED BY <1>1, <1>5, <4>1, <4>2
    <3> QED BY <1>2, <3>1, <3>2 DEF Inv, CarriesUnread
  <2> QED BY <2>1, <2>2
<1>9. Notes(msg', t) = {}
  BY <1>3, <1>4, <1>5 DEF Notes, Pending
<1>10. GoneIsClosed'
  BY <1>2 DEF Spawns, Inv, GoneIsClosed, TypeOK
<1> QED BY <1>6, <1>7, <1>8, <1>9, <1>10

\* What the other steps leave of it.
LEMMA KeepsUnread ==
    ASSUME MessageAssumption, Inv, heard' = heard,
           \A m \in Msg : msg'[m] = msg[m] \/ (msg[m] = "pending" /\ msg'[m] = "cancelled"),
           \A t \in Task : /\ start'[t].carries \subseteq start[t].carries
                           /\ start'[t].at = "none" => start'[t].carries = {}
                           /\ status[t] = "gone" => status'[t] = "gone"
    PROVE  CarriesUnread' /\ ReadOnce'
<1>1. ReadOnce'
  BY DEF Inv, ReadOnce
<1>2. \A t \in Task : \A m \in start[t].carries : m \in Msg
  BY DEF Inv, TypeOK, MessageAssumption
<1>3. CarriesUnread'
  BY <1>2 DEF Inv, CarriesUnread
<1> QED BY <1>1, <1>3

\* The row of a start.
LEMMA StartRows ==
    /\ NoStart \in StartRow
    /\ \A t \in Task, by \in {"claim", "reviewer", "human", "dispatch"}, S \in SUBSET Wakes :
          /\ Begun(t, by, S) \in StartRow
          /\ Begun(t, by, S).at # "none" /\ Begun(t, by, S).carries = S
BY DEF NoStart, Begun, StartRow

\* A step that starts, moves or drops the start of one task.
LEMMA OneStart ==
    ASSUME start \in [Task -> StartRow], NEW t \in Task, NEW s \in StartRow,
           start' = [start EXCEPT ![t] = s]
    PROVE  /\ start' \in [Task -> StartRow] /\ start'[t] = s
           /\ \A u \in Task \ {t} : start'[u] = start[u]
OBVIOUS

\* The types after a delivery.
LEMMA DeliverTyped ==
    ASSUME MessageAssumption, TypeOK, NEW box \in Boxes, Deliver(box),
           used' \in [Task -> 0 .. RunCap]
    PROVE  TypeOK'
<1>1. PICK fired, refused, atOnce \in SUBSET Task, noted, lost \in SUBSET Msg :
             Delivery(box, fired, refused, atOnce, noted, lost)
  BY Delivers
<1> USE DEF Delivery
<1>2. heard' \in [Msg -> Nat]
  BY <1>1, HeardOnce DEF TypeOK
<1>3. start' \in [Task -> StartRow]
  <2>1. \A t \in Task : Requests(box, t) \in SUBSET Wakes
    BY DEF Requests
  <2>2. \A t \in Task : Begun(t, "dispatch", Requests(box, t)) \in StartRow /\ start[t] \in StartRow
    BY <2>1, StartRows DEF TypeOK, StartRow
  <2> QED BY <1>1, <2>2
<1>4. status' \in [Task -> Statuses]
  BY <1>1 DEF Moved, TypeOK, Statuses
<1> QED BY <1>1, <1>2, <1>3, <1>4 DEF TypeOK, Statuses, StartRow, Boxes

\* A step of anything but a delivery or a spawn writes no count of who heard what.
LEMMA QuietStep ==
    ASSUME MessageAssumption, BoundsAssumption, Inv,
           \/ Restart \/ \E m \in Msg : CancelMsg(m)
           \/ \E t \in Task : \/ Claim(t) \/ KillEnds(t) \/ Bounces(t)
                              \/ SpawnFails(t) \/ StartLost(t)
                              \/ TurnEnds(t) \/ Closes(t) \/ Enqueue(t) \/ Settle(t) \/ Delete(t)
                              \/ \E by \in {"human", "reviewer"} : FollowUp(t, by)
    PROVE  Inv' /\ TurnKnows
<1>0. /\ status \in [Task -> Statuses] /\ ran \in SUBSET Task /\ session \in [Task -> Sessions]
      /\ start \in [Task -> StartRow] /\ msg \in Boxes /\ used \in [Task -> 0 .. RunCap]
      /\ heard \in [Msg -> Nat] /\ left \in 0 .. MaxMoves
  BY DEF Inv, TypeOK, Statuses, Sessions, StartRow, Boxes
<1> DEFINE Fine == /\ status' \in [Task -> Statuses] /\ ran' \in SUBSET Task
                   /\ session' \in [Task -> Sessions] /\ start' \in [Task -> StartRow]
                   /\ msg' \in Boxes /\ used' = used /\ heard' = heard /\ left' \in 0 .. MaxMoves
                   /\ \A m \in Msg : \/ msg'[m] = msg[m]
                                     \/ msg[m] = "pending" /\ msg'[m] = "cancelled"
                   /\ \A t \in Task : /\ start'[t].carries \subseteq start[t].carries
                                      /\ start'[t].at = "none" => start'[t].carries = {}
                                      /\ status[t] = "gone" => status'[t] = "gone"
                                      /\ session'[t] = "works" => session[t] = "works"
                                      /\ status'[t] = "gone" => session'[t] = "none"
<1>1. Fine
  <2>0. /\ \A t \in Task : start[t].at = "none" => start[t].carries = {}
        /\ NoStart.at = "none" /\ NoStart.carries = {} /\ NoStart \in StartRow
        /\ left > 0 => left - 1 \in 0 .. MaxMoves
        /\ \A t \in Task : status[t] = "gone" => session[t] = "none"
    BY <1>0, StartRows DEF Inv, CarriesUnread, GoneIsClosed, NoStart, BoundsAssumption
  <2>1. CASE Restart
    BY <1>0, <2>0, <2>1 DEF Restart, Statuses, Sessions
  <2>2. ASSUME NEW m \in Msg, CancelMsg(m) PROVE Fine
    BY <1>0, <2>0, <2>2, SettledBox DEF CancelMsg
  <2>3. ASSUME NEW t \in Task, Claim(t) PROVE Fine
    <3>1. Begun(t, "claim", {}) \in StartRow /\ Begun(t, "claim", {}).carries = {}
          /\ Begun(t, "claim", {}).at # "none"
      BY StartRows
    <3>2. start' = [start EXCEPT ![t] = Begun(t, "claim", {})]
      BY <2>3 DEF Claim
    <3> HIDE DEF Fine
    <3>3. /\ start' \in [Task -> StartRow] /\ start'[t] = Begun(t, "claim", {})
          /\ \A u \in Task \ {t} : start'[u] = start[u]
      BY <1>0, <3>1, <3>2, OneStart
    <3> QED BY <1>0, <2>0, <2>3, <3>1, <3>3 DEF Claim, Statuses, Fine
  <2>4. ASSUME NEW t \in Task, KillEnds(t) PROVE Fine
    <3>1. CASE status[t] = "gone"
      BY <1>0, <2>0, <2>4, <3>1 DEF KillEnds, Dropped, Sessions
    <3>2. CASE status[t] # "gone"
      <4>1. start' = [start EXCEPT ![t] = [start[t] EXCEPT !.at = "gate"]]
            /\ status' = [status EXCEPT ![t] = "running"]
            /\ session' = [session EXCEPT ![t] = "none"]
        BY <1>0, <2>4, <3>2 DEF KillEnds
      <4>2. [start[t] EXCEPT !.at = "gate"] \in StartRow
            /\ [start[t] EXCEPT !.at = "gate"].carries = start[t].carries
            /\ [start[t] EXCEPT !.at = "gate"].at = "gate"
        BY <1>0 DEF StartRow
      <4>3. /\ start' \in [Task -> StartRow] /\ start'[t] = [start[t] EXCEPT !.at = "gate"]
            /\ \A u \in Task \ {t} : start'[u] = start[u]
        BY <1>0, <4>1, <4>2, OneStart
      <4> QED BY <1>0, <2>0, <2>4, <3>2, <4>1, <4>2, <4>3 DEF KillEnds, Statuses, Sessions
    <3> QED BY <3>1, <3>2
  <2>5. ASSUME NEW t \in Task, Bounces(t) \/ SpawnFails(t) \/ StartLost(t) PROVE Fine
    <3>1. start' = [start EXCEPT ![t] = NoStart]
      BY <2>5 DEF Bounces, SpawnFails, StartLost, Dropped
    <3>2. /\ start' \in [Task -> StartRow] /\ start'[t] = NoStart
          /\ \A u \in Task \ {t} : start'[u] = start[u]
      BY <1>0, <2>0, <3>1, OneStart
    <3>3. UNCHANGED <<session, msg, used, heard>>
      BY <2>5 DEF Bounces, SpawnFails, StartLost
    <3>4. left' \in 0 .. MaxMoves /\ ran' \in SUBSET Task
      BY <1>0, <2>0, <2>5 DEF Bounces, SpawnFails, StartLost
    <3>5. /\ status' \in [Task -> Statuses]
          /\ \A u \in Task : status[u] = "gone" <=> status'[u] = "gone"
      BY <1>0, <2>5 DEF Bounces, SpawnFails, StartLost, Statuses
    <3> QED BY <1>0, <2>0, <3>2, <3>3, <3>4, <3>5
  <2>6. ASSUME NEW t \in Task, TurnEnds(t) PROVE Fine
    BY <1>0, <2>0, <2>6 DEF TurnEnds, Works, Statuses, Sessions
  <2>7. ASSUME NEW t \in Task, Closes(t) PROVE Fine
    BY <1>0, <2>0, <2>7 DEF Closes, Sessions
  <2>8. ASSUME NEW t \in Task, Enqueue(t) PROVE Fine
    BY <1>0, <2>0, <2>8 DEF Enqueue, Statuses
  <2>9. ASSUME NEW t \in Task, Settle(t) \/ Delete(t) PROVE Fine
    BY <1>0, <2>0, <2>9 DEF Settle, Delete, Works, Statuses, Sessions
  <2>10. ASSUME NEW t \in Task, NEW by \in {"human", "reviewer"}, FollowUp(t, by) PROVE Fine
    <3>1. Begun(t, by, {}) \in StartRow /\ Begun(t, by, {}).carries = {}
          /\ Begun(t, by, {}).at # "none"
      BY StartRows
    <3>2. start' = [start EXCEPT ![t] = Begun(t, by, {})]
      BY <2>10 DEF FollowUp
    <3> HIDE DEF Fine
    <3>3. /\ start' \in [Task -> StartRow] /\ start'[t] = Begun(t, by, {})
          /\ \A u \in Task \ {t} : start'[u] = start[u]
      BY <1>0, <3>1, <3>2, OneStart
    <3>4. status[t] # "gone"
      BY <2>10 DEF FollowUp
    <3>5. /\ status' \in [Task -> Statuses]
          /\ \A u \in Task : status[u] = "gone" <=> status'[u] = "gone"
      BY <1>0, <2>10, <3>4 DEF FollowUp, Moved, Statuses
    <3> QED BY <1>0, <2>0, <2>10, <3>1, <3>3, <3>5 DEF FollowUp, Fine
  <2> QED BY <2>1, <2>2, <2>3, <2>4, <2>5, <2>6, <2>7, <2>8, <2>9, <2>10
<1>2. TypeOK'
  BY <1>0, <1>1 DEF TypeOK, Statuses, Sessions, StartRow, Boxes
<1>3. CarriesUnread' /\ GoneIsClosed' /\ ReadOnce'
  BY <1>1, KeepsUnread DEF GoneIsClosed
<1>4. TurnKnows
  BY <1>1 DEF TurnKnows, Works
<1> QED BY <1>2, <1>3, <1>4 DEF Inv

\* Every step keeps the invariant, and hands a starting turn its messages.
LEMMA NextInv ==
    ASSUME MessageAssumption, BoundsAssumption, Inv, [Next]_vars
    PROVE  Inv' /\ [ReadOnce' /\ TurnKnows]_vars
<1>1. ASSUME NEW m \in Msg, Send(m) PROVE Inv' /\ TurnKnows
  <2> DEFINE box == [msg EXCEPT ![m] = "pending"]
  <2>1. /\ box \in Boxes /\ Deliver(box)
        /\ \A n \in Msg : box[n] = msg[n] \/ (msg[n] = "unsent" /\ box[n] = "pending")
    BY <1>1 DEF Send, Boxes, Inv, TypeOK
  <2>2. used' \in [Task -> 0 .. RunCap]
    <3>1. From[m] \in Task /\ used[From[m]] + 1 \in 0 .. RunCap
      BY <1>1 DEF Send, BoundsAssumption, MessageAssumption, Inv, TypeOK
    <3> QED BY <1>1, <3>1 DEF Send, Inv, TypeOK
  <2> HIDE DEF box
  <2>3. session' = session
    BY <2>1, Delivers DEF Delivery
  <2> QED BY <2>1, <2>2, <2>3, DeliverTyped, DeliverInv DEF Inv, TurnKnows
<1>2. CASE Tick
  <2>1. msg \in Boxes /\ Deliver(msg) /\ used' = used
    BY <1>2 DEF Tick, Inv, TypeOK, Boxes
  <2>2. session' = session
    BY <2>1, Delivers DEF Delivery
  <2>3. TypeOK'
    BY <2>1, DeliverTyped DEF Inv, TypeOK
  <2> QED BY <2>1, <2>2, <2>3, DeliverInv DEF Inv, TurnKnows
<1>3. ASSUME NEW t \in Task, Spawns(t) PROVE Inv' /\ TurnKnows
  <2>1. /\ CarriesUnread' /\ GoneIsClosed' /\ ReadOnce' /\ Notes(msg', t) = {}
        /\ heard' \in [Msg -> Nat] /\ msg' \in Boxes
    BY <1>3, SpawnsInv
  <2>2. start' \in [Task -> StartRow]
    BY <1>3, StartRows, OneStart DEF Spawns, Dropped, Inv, TypeOK, StartRow
  <2>3. session' \in [Task -> Sessions] /\ ran' \in SUBSET Task /\ used' \in [Task -> 0 .. RunCap]
        /\ status' = status /\ left' = left
    BY <1>3 DEF Spawns, Inv, TypeOK, Sessions, BoundsAssumption
  <2>4. TypeOK'
    BY <2>1, <2>2, <2>3 DEF Inv, TypeOK, Sessions, StartRow, Boxes
  <2>5. \A u \in Task : Works(u)' /\ ~Works(u) => u = t
    BY <1>3 DEF Spawns, Works, Inv, TypeOK
  <2> QED BY <2>1, <2>4, <2>5 DEF Inv, TurnKnows
<1>4. CASE UNCHANGED vars
  <2>1. Inv'
    BY <1>4 DEF vars, Inv, TypeOK, CarriesUnread, GoneIsClosed, ReadOnce
  <2> QED BY <1>4, <2>1
<1> QED
  <2>1. Next \/ UNCHANGED vars
    OBVIOUS
  <2> QED BY <1>1, <1>2, <1>3, <1>4, <2>1, QuietStep DEF Next, Starts, Inv

\* It holds at first.
LEMMA InitInv == MessageAssumption /\ BoundsAssumption => (Init => Inv)
<1> SUFFICES ASSUME MessageAssumption, BoundsAssumption, Init PROVE Inv
  OBVIOUS
<1>1. start \in [Task -> StartRow] /\ \A t \in Task : start[t].carries = {}
  BY StartRows DEF Init, NoStart
<1>2. TypeOK
  BY <1>1 DEF Init, TypeOK, StartRow, BoundsAssumption
<1>3. CarriesUnread /\ GoneIsClosed /\ ReadOnce
  BY <1>1 DEF Init, CarriesUnread, GoneIsClosed, ReadOnce
<1> QED BY <1>2, <1>3 DEF Inv

\* Every variable keeps its type.
THEOREM Typed ==
    ASSUME MessageAssumption, BoundsAssumption
    PROVE  Spec => []TypeOK
<1>1. Init => Inv
  BY InitInv
<1>2. Inv /\ [Next]_vars => Inv'
  BY NextInv
<1>3. Inv => TypeOK
  BY DEF Inv
<1> QED BY <1>1, <1>2, <1>3, PTL DEF Spec

\* HandedOver: no message is heard twice or called delivered unheard, and no
\* turn starts that leaves a message for information behind.
THEOREM HandsOver ==
    ASSUME MessageAssumption, BoundsAssumption
    PROVE  Spec => HandedOver
<1>1. Init => Inv
  BY InitInv
<1>2. Inv /\ [Next]_vars => Inv'
  BY NextInv
<1>3. Inv /\ [Next]_vars => [ReadOnce' /\ TurnKnows]_vars
  BY NextInv
<1> QED BY <1>1, <1>2, <1>3, PTL DEF Spec, HandedOver
=============================================================================
