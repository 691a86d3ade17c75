--------------------------- MODULE ServiceProofs ---------------------------
(***************************************************************************)
(* Proofs about Service and its order book, for any number of requests, any *)
(* labels, nodes and sessions.                                              *)
(***************************************************************************)
EXTENDS Service, DeliveryLemmas

LEMMA NoNames ==
    /\ None \notin Requests /\ None \notin Lanes /\ Serial \in Lanes /\ Serial \notin Labels
    /\ MaxRequests \in Nat
BY ServiceAssumption DEF Requests, Lanes

-----------------------------------------------------------------------------
(* Type correctness *)

Fates == {"unmade", "input", "queued"} \cup Alive \cup Over

\* Workflows have no tasks and are never despawned, so that no task of theirs
\* is polled, unblocks a lane, or can be cleaned twice.
WorkflowOK ==
    kind = "workflow" =>
        /\ provider = "alive" /\ unblock = <<>> /\ fresh = <<>>
        /\ \A r \in Requests : fate[r] # "orphaned"

Typed == TypeOK /\ WorkflowOK

LEMMA LaneOfRequest ==
    ASSUME TypeOK, NEW r \in Requests
    PROVE  Lane(r) \in Lanes \cup {None}
<1>1. ins[r].label \in Labels \cup {None} /\ mode \in {"serial", "parallel"}
  BY ServiceAssumption DEF TypeOK, Instructions
<1> QED
  BY <1>1 DEF Lane, LaneFor, Lanes

LEMMA InitTyped == Init => Typed
<1> SUFFICES ASSUME Init PROVE Typed
  OBVIOUS
<1> USE DEF Init
<1>1. EmptyLane \in LaneOf(Requests)
  BY DEF EmptyLane, LaneOf
<1>2. lanes \in [Lanes -> LaneOf(Requests)]
  BY <1>1
<1>3. [label |-> None, preempt |-> FALSE, ensure |-> FALSE] \in Instructions
  BY DEF Instructions
<1>4. TypeOK
  BY <1>2, <1>3, NoNames DEF TypeOK, LaneOf, Alive, Over
<1> QED
  BY <1>4 DEF Typed, WorkflowOK

\* The parts of the type that a step can disturb.
LEMMA TypeParts ==
    ASSUME TypeOK, UNCHANGED <<mode, kind>>,
           provider' \in {"alive", "despawned", "noticed"}, lanes' \in [Lanes -> LaneOf(Requests)],
           made' \in 0..MaxRequests, ins' \in [Requests -> Instructions],
           fate' \in [Requests -> Fates], fresh' \in Seq(Requests), unblock' \in Seq(Lanes),
           active' \subseteq Sessions, phase' \in {"unblock", "queue", "rest"}
    PROVE  TypeOK'
BY DEF TypeOK, LaneOf, Fates

LEMMA TypeHas ==
    ASSUME TypeOK
    PROVE  /\ provider \in {"alive", "despawned", "noticed"} /\ lanes \in [Lanes -> LaneOf(Requests)]
           /\ kind \in {"async", "workflow"} /\ mode \in {"serial", "parallel"}
           /\ made \in 0..MaxRequests /\ ins \in [Requests -> Instructions]
           /\ fate \in [Requests -> Fates] /\ fresh \in Seq(Requests) /\ unblock \in Seq(Lanes)
           /\ active \subseteq Sessions /\ phase \in {"unblock", "queue", "rest"}
BY ServiceAssumption DEF TypeOK, LaneOf, Fates

LEMMA BeginType ==
    ASSUME TypeOK, NEW r \in Requests \cup {None}, NEW f \in [Requests -> Fates], Begin(r, f)
    PROVE  /\ fate' \in [Requests -> Fates] /\ fresh' \in Seq(Requests)
           /\ kind = "workflow" => UNCHANGED fresh
           /\ \A q \in Requests : fate'[q] = IF q = r THEN "running" ELSE f[q]
<1>1. fate' \in [Requests -> Fates]
  BY DEF Begin, Fates, Alive
<1>2. fresh \in Seq(Requests)
  BY TypeHas
<1>3. fresh' \in Seq(Requests)
  <2>1. CASE kind = "async" /\ r # None
    <3>1. r \in Requests
      BY <2>1
    <3> QED
      BY <1>2, <2>1, <3>1 DEF Begin
  <2>2. CASE ~(kind = "async" /\ r # None)
    BY <1>2, <2>2 DEF Begin
  <2> QED
    BY <2>1, <2>2
<1> QED
  BY <1>1, <1>3 DEF Begin

\* The next one of a lane begins: lanes, fate and fresh.
LEMMA ServeNextType ==
    ASSUME TypeOK, NEW l \in Lanes, NEW f \in [Requests -> Fates], ServeNext(l, f)
    PROVE  /\ lanes' \in [Lanes -> LaneOf(Requests)]
           /\ fate' \in [Requests -> Fates] /\ fresh' \in Seq(Requests)
           /\ kind = "workflow" => UNCHANGED fresh
           /\ \A r \in Requests : fate'[r] # f[r] => fate'[r] = "running"
<1>1. lanes[l] \in LaneOf(Requests)
  BY TypeHas
<1>2. CASE provider = "alive"
  <2> DEFINE lane == PopNext(lanes[l])
  <2>1. lane \in LaneOf(Requests)
    BY <1>1, PopLane
  <2>2. lanes' = [lanes EXCEPT ![l] = lane] /\ Begin(lane.delivering, f)
    BY <1>2 DEF ServeNext
  <2> HIDE DEF lane
  <2>3. lane.delivering \in Requests \cup {None}
    BY <2>1 DEF LaneOf
  <2>4. /\ fate' \in [Requests -> Fates] /\ fresh' \in Seq(Requests)
        /\ kind = "workflow" => UNCHANGED fresh
        /\ \A q \in Requests : fate'[q] = IF q = lane.delivering THEN "running" ELSE f[q]
    BY <2>2, <2>3, BeginType
  <2> QED
    BY <2>1, <2>2, <2>4, TypeHas
<1>3. CASE provider # "alive"
  BY <1>3, TypeHas DEF ServeNext
<1> QED
  BY <1>2, <1>3

LEMMA ReleaseType ==
    ASSUME TypeOK, NEW r \in Requests, Release(r)
    PROVE  unblock' \in Seq(Lanes)
<1>1. unblock \in Seq(Lanes)
  BY TypeHas
<1>2. Lane(r) # None => Lane(r) \in Lanes
  BY LaneOfRequest
<1> QED
  BY <1>1, <1>2 DEF Release

LEMMA CleanType ==
    ASSUME Typed, NEW N, NEW s, Clean(N, s), active' \subseteq Sessions
    PROVE  Typed'
<1> DEFINE mine == {r \in 1..made : Origin[r].session = s /\ Origin[r].node \in N}
           struck == {r \in 1..made : fate[r] = "queued" /\ Origin[r].session = s}
           ended == IF kind = "async" THEN {r \in mine : fate[r] = "running"}
                    ELSE {r \in 1..made : fate[r] = "running" /\ Origin[r].session = s}
           again == IF kind = "async" THEN {r \in mine : fate[r] = "cleaning"} ELSE {}
           f == [r \in Requests |->
                   IF r \in mine /\ fate[r] = "input" THEN "cleaned"
                   ELSE IF r \in struck THEN IF r \in mine THEN "cleaned" ELSE "lost"
                   ELSE IF r \in ended THEN "cleaning"
                   ELSE IF r \in again THEN "orphaned"
                   ELSE fate[r]]
<1>1. /\ lanes' = [l \in Lanes |-> Strike(lanes[l], struck)] /\ fate' = f
      /\ UNCHANGED <<orderVars, provider, fresh, unblock, phase>>
  BY DEF Clean
<1>2. kind = "workflow" => again = {}
  OBVIOUS
<1> HIDE DEF mine, struck, ended, again
<1>3. lanes' \in [Lanes -> LaneOf(Requests)]
  <2>1. \A l \in Lanes : lanes[l] \in LaneOf(Requests)
    BY TypeHas DEF Typed
  <2> QED
    BY <1>1, <2>1, StrikeLane
<1>4. fate' \in [Requests -> Fates]
  BY <1>1, TypeHas DEF Typed, Fates, Alive, Over
<1>5. TypeOK'
  BY <1>1, <1>3, <1>4, TypeHas, TypeParts DEF Typed, orderVars
<1>6. WorkflowOK'
  <2> SUFFICES ASSUME kind' = "workflow" PROVE WorkflowOK'
    BY DEF WorkflowOK
  <2>1. kind = "workflow"
    BY <1>1 DEF orderVars
  <2>2. \A r \in Requests : fate'[r] # "orphaned"
    BY <1>1, <1>2, <2>1 DEF Typed, WorkflowOK
  <2> QED
    BY <1>1, <2>1, <2>2 DEF Typed, WorkflowOK
<1> QED
  BY <1>5, <1>6 DEF Typed

\* A request of a workflow is never orphaned, so that the session that runs for
\* it ends in one of the ways the code has.
LEMMA SessionDoneHas ==
    ASSUME Typed, NEW r \in Requests, SessionDone(r)
    PROVE  \E end \in Over :
              LET f == [fate EXCEPT ![r] = end]
              IN  /\ f \in [Requests -> Fates]
                  /\ \/ Lane(r) # None /\ ServeNext(Lane(r), f)
                     \/ Lane(r) = None /\ fate' = f /\ UNCHANGED <<lanes, fresh>>
<1>1. fate[r] \in {"running", "stopping", "cleaning"}
  BY DEF Typed, WorkflowOK, SessionDone, Alive
<1> DEFINE Step(end) ==
             LET f == [fate EXCEPT ![r] = end]
             IN  IF Lane(r) # None THEN ServeNext(Lane(r), f) ELSE fate' = f /\ UNCHANGED <<lanes, fresh>>
<1>2. \E end \in Over : Step(end)
  <2> HIDE DEF Step
  <2>1. CASE fate[r] = "running"
    BY <2>1 DEF SessionDone, Over, Step
  <2>2. CASE fate[r] = "stopping"
    BY <2>2 DEF SessionDone, Over, Step
  <2>3. CASE fate[r] = "cleaning"
    BY <2>3 DEF SessionDone, Over, Step
  <2> QED
    BY <1>1, <2>1, <2>2, <2>3
<1>3. PICK end \in Over : Step(end)
  BY <1>2
<1>4. [fate EXCEPT ![r] = end] \in [Requests -> Fates]
  BY TypeHas DEF Typed, Fates
<1> QED
  BY <1>3, <1>4

LEMMA StepTyped == Typed /\ [Next]_vars => Typed'
<1> SUFFICES ASSUME Typed, [Next]_vars PROVE Typed'
  OBVIOUS
<1>0. TypeOK /\ WorkflowOK
  BY DEF Typed
<1> USE TypeHas DEF orderVars
<1>1. ASSUME NEW i \in Offered, Request(i) PROVE Typed'
  <2>1. i \in Instructions /\ made + 1 \in 0..MaxRequests
    BY <1>0, <1>1, ServiceAssumption DEF Request
  <2>2. fate' \in [Requests -> Fates] /\ ins' \in [Requests -> Instructions]
    BY <1>0, <1>1, <2>1 DEF Request, Fates
  <2>3. TypeOK'
    BY <1>0, <1>1, <2>1, <2>2, TypeParts DEF Request
  <2> QED
    BY <1>0, <1>1, <2>3 DEF Request, Typed, WorkflowOK
<1>2. ASSUME NEW r \in Requests, Serve(r) PROVE Typed'
  <2> DEFINE l == Lane(r)
             at == lanes[l].delivering
             gone == Supplanted(ins, lanes[l], r)
             stop == IF at \in gone THEN Stopped(at) ELSE {}
  <2>1. l \in Lanes \cup {None} /\ phase = "queue" /\ provider = "alive"
        /\ UNCHANGED <<orderVars, provider, active, phase>>
    BY <1>0, <1>2, LaneOfRequest DEF Serve
  <2>2. CASE l = None \/ at = None
    <3>1. Begin(r, fate) /\ UNCHANGED unblock
      BY <1>2, <2>2 DEF Serve
    <3>2. /\ fate' \in [Requests -> Fates] /\ fresh' \in Seq(Requests)
          /\ kind = "workflow" => UNCHANGED fresh
          /\ \A q \in Requests : fate'[q] = IF q = r THEN "running" ELSE fate[q]
      BY <1>0, <3>1, BeginType
    <3>3. lanes' \in [Lanes -> LaneOf(Requests)]
      <4>1. CASE l = None
        BY <1>0, <1>2, <4>1 DEF Serve
      <4>2. CASE l # None /\ at = None
        <5>1. lanes[l] \in LaneOf(Requests) /\ l \in Lanes
          BY <1>0, <2>1, <4>2
        <5>2. lanes' = [lanes EXCEPT ![l] = Insert(ins, lanes[l], r)]
          BY <1>2, <4>2 DEF Serve
        <5>3. Insert(ins, lanes[l], r) = [lanes[l] EXCEPT !.delivering = r]
          BY <4>2 DEF Insert
        <5>4. Insert(ins, lanes[l], r) \in LaneOf(Requests)
          BY <5>1, <5>3 DEF LaneOf
        <5> HIDE DEF l, at
        <5> QED
          BY <1>0, <5>1, <5>2, <5>4
      <4> QED
        BY <2>2, <4>1, <4>2
    <3>4. TypeOK'
      BY <1>0, <2>1, <3>1, <3>2, <3>3, TypeParts
    <3> QED
      BY <1>0, <2>1, <3>1, <3>2, <3>4 DEF Typed, WorkflowOK
  <2>3. CASE l # None /\ at # None
    <3>1. /\ lanes' = [lanes EXCEPT ![l] = Insert(ins, lanes[l], r)]
          /\ fate' = [q \in Requests |-> IF q = r THEN "queued"
                                         ELSE IF q \in stop THEN "stopping"
                                         ELSE IF q \in gone \ {at} THEN "disposed"
                                         ELSE fate[q]]
          /\ unblock' = IF at \in gone /\ StopFails(at) THEN Append(unblock, l) ELSE unblock
          /\ UNCHANGED fresh
      BY <1>2, <2>3 DEF Serve
    <3>2. lanes[l] \in LaneOf(Requests) /\ l \in Lanes
      BY <1>0, <2>1, <2>3
    <3>3. Insert(ins, lanes[l], r) \in LaneOf(Requests)
      BY <2>3, <3>2, InsertLane
    <3>4. kind = "workflow" => ~StopFails(at)
      BY DEF StopFails
    <3> HIDE DEF l, at, gone, stop
    <3>5. lanes' \in [Lanes -> LaneOf(Requests)]
      BY <1>0, <3>1, <3>2, <3>3
    <3>6. fate' \in [Requests -> Fates]
      BY <1>0, <3>1 DEF Fates, Alive, Over
    <3>7. unblock' \in Seq(Lanes) /\ (kind = "workflow" => UNCHANGED unblock)
      BY <1>0, <3>1, <3>2, <3>4
    <3>8. TypeOK'
      BY <1>0, <2>1, <3>1, <3>5, <3>6, <3>7, TypeParts
    <3>9. \A q \in Requests : fate'[q] = "orphaned" => fate[q] = "orphaned"
      BY <3>1
    <3> QED
      BY <1>0, <2>1, <3>1, <3>7, <3>8, <3>9 DEF Typed, WorkflowOK
  <2> QED
    BY <2>2, <2>3
<1>3. ASSUME DisposeInputs, provider' \in {"alive", "noticed"}, provider' = "alive" => provider = "alive",
             kind = "workflow" => UNCHANGED provider,
             UNCHANGED <<orderVars, lanes, fresh, unblock, active, phase>>
      PROVE  Typed'
  <2>1. fate' \in [Requests -> Fates] /\ \A r \in Requests : fate'[r] = "orphaned" => fate[r] = "orphaned"
    BY <1>0, <1>3 DEF DisposeInputs, Fates, Over
  <2>2. TypeOK'
    BY <1>0, <1>3, <2>1, TypeParts
  <2> QED
    BY <1>0, <1>3, <2>1, <2>2 DEF Typed, WorkflowOK
<1>4. CASE ServeNobody
  <2>1. fate' \in [Requests -> Fates] /\ \A r \in Requests : fate'[r] = "orphaned" => fate[r] = "orphaned"
    BY <1>0, <1>4 DEF ServeNobody, DisposeInputs, Fates, Over
  <2>2. TypeOK'
    BY <1>0, <1>4, <2>1, TypeParts DEF ServeNobody
  <2> QED
    BY <1>0, <1>4, <2>1, <2>2 DEF ServeNobody, Typed, WorkflowOK
<1>5. CASE NoticeDespawn
  <2>1. provider # "alive" /\ provider' = "noticed" /\ (kind = "workflow" => FALSE)
    BY <1>0, <1>5 DEF NoticeDespawn, WorkflowOK
  <2> QED
    BY <1>3, <1>5, <2>1 DEF NoticeDespawn
<1>6. CASE UnblockNext
  <2> DEFINE l == Head(unblock)
  <2>1. unblock \in Seq(Lanes) /\ unblock # <<>>
    BY <1>0, <1>6 DEF UnblockNext
  <2>2. l \in Lanes /\ Tail(unblock) \in Seq(Lanes)
    BY <2>1
  <2>3. kind # "workflow" /\ unblock' = Tail(unblock) /\ ServeNext(l, fate)
        /\ UNCHANGED <<orderVars, provider, active, phase>>
    BY <1>0, <1>6 DEF UnblockNext, WorkflowOK
  <2> HIDE DEF l
  <2>4. lanes' \in [Lanes -> LaneOf(Requests)] /\ fate' \in [Requests -> Fates] /\ fresh' \in Seq(Requests)
    BY <1>0, <2>2, <2>3, ServeNextType
  <2>5. TypeOK'
    BY <1>0, <2>2, <2>3, <2>4, TypeParts
  <2> QED
    BY <2>3, <2>5 DEF Typed, WorkflowOK
<1>7. ASSUME NEW r \in Requests, fate[r] \in Alive, NEW end \in Over, fate' = [fate EXCEPT ![r] = end],
             Release(r), kind = "async", fresh' \in Seq(Requests),
             UNCHANGED <<orderVars, provider, lanes, active, phase>>
      PROVE  Typed'
  <2>1. fate' \in [Requests -> Fates]
    BY <1>0, <1>7 DEF Fates
  <2>2. TypeOK'
    BY <1>0, <1>7, <2>1, ReleaseType, TypeParts
  <2> QED
    BY <1>7, <2>2 DEF Typed, WorkflowOK
<1>8. ASSUME NEW ready \in BOOLEAN, FirstPoll(ready) PROVE Typed'
  <2> DEFINE r == Head(fresh)
  <2>1. r \in Requests /\ Tail(fresh) \in Seq(Requests) /\ kind = "async"
    <3>1. fresh \in Seq(Requests) /\ fresh # <<>>
      BY <1>0, <1>8 DEF FirstPoll
    <3> QED
      BY <1>0, <3>1 DEF WorkflowOK
  <2>2. fresh' = Tail(fresh) /\ UNCHANGED <<orderVars, provider, lanes, active, phase>>
    BY <1>8 DEF FirstPoll
  <2>3. CASE ready /\ fate[r] = "running"
    <3>1. Finish(r)
      BY <1>8, <2>3 DEF FirstPoll
    <3>2. "responded" \in Over /\ fate[r] \in Alive
      BY <2>3 DEF Over, Alive
    <3> HIDE DEF r
    <3> QED
      BY <1>7, <2>1, <2>2, <3>1, <3>2 DEF Finish
  <2>4. CASE ~(ready /\ fate[r] = "running")
    <3>1. UNCHANGED <<fate, unblock>>
      BY <1>8, <2>4 DEF FirstPoll
    <3>2. TypeOK'
      BY <1>0, <2>1, <2>2, <3>1, TypeParts
    <3> QED
      BY <1>0, <2>1, <2>2, <3>2 DEF Typed, WorkflowOK
  <2> QED
    BY <2>3, <2>4
<1>9. CASE NextPhase
  <2>1. phase' \in {"unblock", "queue", "rest"}
    BY <1>9 DEF NextPhase
  <2>2. TypeOK'
    BY <1>0, <1>9, <2>1, TypeParts DEF NextPhase
  <2> QED
    BY <1>0, <1>9, <2>2 DEF NextPhase, Typed, WorkflowOK
<1>10. ASSUME NEW r \in Requests, TaskDone(r) PROVE Typed'
  <2>1. "responded" \in Over /\ fate[r] \in Alive /\ fresh' \in Seq(Requests)
    BY <1>0, <1>10 DEF Over, Alive, TaskDone
  <2> QED
    BY <1>7, <1>10, <2>1 DEF TaskDone, Finish
<1>11. ASSUME NEW r \in Requests, TaskStopped(r) PROVE Typed'
  <2>1. PICK end \in Over : fate' = [fate EXCEPT ![r] = end]
    BY <1>0, <1>11 DEF TaskStopped, Over
  <2>2. fate[r] \in Alive /\ fresh' \in Seq(Requests)
    BY <1>0, <1>11 DEF Alive, TaskStopped
  <2> QED
    BY <1>7, <1>11, <2>1, <2>2 DEF TaskStopped
<1>12. ASSUME NEW r \in Requests, SessionDone(r) PROVE Typed'
  <2>1. PICK end \in Over :
           LET f == [fate EXCEPT ![r] = end]
           IN  /\ f \in [Requests -> Fates]
               /\ \/ Lane(r) # None /\ ServeNext(Lane(r), f)
                  \/ Lane(r) = None /\ fate' = f /\ UNCHANGED <<lanes, fresh>>
    BY <1>12, SessionDoneHas
  <2> DEFINE f == [fate EXCEPT ![r] = end]
  <2>2. kind = "workflow" /\ UNCHANGED <<orderVars, provider, unblock, active, phase>>
    BY <1>12 DEF SessionDone
  <2>3. \A q \in Requests : f[q] # "orphaned"
    BY <1>0, <2>2 DEF WorkflowOK, Over
  <2>4. /\ lanes' \in [Lanes -> LaneOf(Requests)] /\ fate' \in [Requests -> Fates]
        /\ fresh' \in Seq(Requests) /\ UNCHANGED fresh
        /\ \A q \in Requests : fate'[q] # f[q] => fate'[q] = "running"
    <3>1. CASE Lane(r) # None
      <4>1. Lane(r) \in Lanes /\ f \in [Requests -> Fates] /\ ServeNext(Lane(r), f)
        BY <1>0, <2>1, <3>1, LaneOfRequest
      <4> HIDE DEF f
      <4> QED
        BY <1>0, <2>2, <4>1, ServeNextType
    <3>2. CASE Lane(r) = None
      BY <1>0, <2>1, <3>2
    <3> QED
      BY <3>1, <3>2
  <2> HIDE DEF f
  <2>5. TypeOK'
    BY <1>0, <2>2, <2>4, TypeParts
  <2>6. \A q \in Requests : fate'[q] # "orphaned"
    BY <2>3, <2>4
  <2> QED
    BY <1>0, <2>2, <2>4, <2>5, <2>6 DEF Typed, WorkflowOK
<1>13. ASSUME NEW s \in Sessions, CleanScope(s) PROVE Typed'
  BY <1>0, <1>13, CleanType DEF CleanScope
<1>14. ASSUME NEW n \in Nodes, NEW s \in Sessions, Trim(n, s) PROVE Typed'
  BY <1>0, <1>14, CleanType DEF Trim
<1>15. CASE Despawn
  <2>1. /\ EmptyLane \in LaneOf(Requests) /\ kind = "async" /\ provider' = "despawned"
        /\ lanes' = [l \in Lanes |-> EmptyLane]
    BY <1>15 DEF Despawn, EmptyLane, LaneOf
  <2>2. lanes' \in [Lanes -> LaneOf(Requests)]
    BY <2>1
  <2>3. fate' \in [Requests -> Fates]
    BY <1>0, <1>15 DEF Despawn, Fates, Over
  <2>4. TypeOK'
    BY <1>0, <1>15, <2>1, <2>2, <2>3, TypeParts DEF Despawn
  <2> QED
    BY <1>15, <2>1, <2>4 DEF Despawn, Typed, WorkflowOK
<1>16. CASE UNCHANGED vars
  BY <1>0, <1>16 DEF vars, Typed, TypeOK, WorkflowOK
<1> QED
  BY <1>1, <1>2, <1>4, <1>5, <1>6, <1>8, <1>9, <1>10, <1>11, <1>12, <1>13, <1>14, <1>15,
     <1>16 DEF Next, FlushStep

\* Every request keeps a place the code knows: its fate, its lane, the queues of the
\* roster and the lane book stay well formed.
THEOREM ServiceTypeCorrect == Spec => []TypeOK
<1>1. Spec => []Typed
  BY InitTyped, StepTyped, PTL DEF Spec
<1> QED
  BY <1>1, PTL DEF Typed

-----------------------------------------------------------------------------
(* The order book *)

\* What is true of a lane: its queue holds exactly the requests that wait for it,
\* once each; the one being delivered was begun and has not ended yet, or its
\* blocker is on its way; and nothing waits if nothing is being delivered.
Booked(l) ==
    LET d == lanes[l].delivering IN
    /\ ToSet(lanes[l].queue) = {r \in Requests : fate[r] = "queued" /\ Lane(r) = l}
    /\ IsInjective(lanes[l].queue)
    /\ d # None => /\ fate[d] \in Alive \cup Over
                   /\ Lane(d) = l
                   /\ fate[d] \in Alive \/ l \in ToSet(unblock)
    /\ lanes[l].queue # <<>> => d # None

Unmade == \A r \in Requests : r > made => fate[r] = "unmade"
Dead == provider # "alive" => \A l \in Lanes : lanes[l] = EmptyLane

Book == Unmade /\ Dead /\ OnlyItsLabelIsStoppedAsync /\ \A l \in Lanes : Booked(l)

\* How the fate of a request moves in the steps that stop none.
Onward ==
    \A r \in Requests :
        /\ fate[r] = "unmade" <=> fate'[r] = "unmade"
        /\ fate'[r] = "input" => fate[r] = "input"
        /\ fate'[r] = "stopping" => fate[r] = "stopping"

LEMMA OnwardKeeps ==
    ASSUME Book, Onward, UNCHANGED orderVars
    PROVE  Unmade' /\ OnlyItsLabelIsStoppedAsync'
<1>1. Unmade'
  BY DEF Book, Onward, Unmade, orderVars
<1>2. OnlyItsLabelIsStoppedAsync'
  <2> SUFFICES ASSUME kind = "async", NEW r \in Requests, fate'[r] = "stopping"
               PROVE  /\ ~ins[r].ensure
                      /\ \E q \in Requests \ {r} :
                            /\ fate'[q] \notin {"unmade", "input"}
                            /\ ins[q].preempt /\ ins[q].label = ins[r].label
    BY DEF OnlyItsLabelIsStoppedAsync, OnlyItsLabelIsStopped, orderVars
  <2>1. fate[r] = "stopping"
    BY DEF Onward
  <2>2. /\ ~ins[r].ensure
        /\ \E q \in Requests \ {r} :
              /\ fate[q] \notin {"unmade", "input"}
              /\ ins[q].preempt /\ ins[q].label = ins[r].label
    BY <2>1 DEF Book, OnlyItsLabelIsStoppedAsync, OnlyItsLabelIsStopped
  <2> QED
    BY <2>2 DEF Onward
<1> QED
  BY <1>1, <1>2

LEMMA LaneSame ==
    ASSUME UNCHANGED orderVars, NEW r
    PROVE  Lane(r)' = Lane(r)
BY DEF orderVars, Lane

\* A lane that a step leaves alone.
LEMMA BookedKept ==
    ASSUME NEW l \in Lanes, Typed, Booked(l), UNCHANGED orderVars, lanes'[l] = lanes[l],
           \A r \in Requests : Lane(r) = l => (fate[r] = "queued" <=> fate'[r] = "queued"),
           \A r \in Requests : fate[r] \in Alive \cup Over => fate'[r] \in Alive \cup Over,
           \A r \in Requests : fate[r] \in Alive /\ Lane(r) = l
                                  => fate'[r] \in Alive \/ l \in ToSet(unblock)',
           l \in ToSet(unblock) => l \in ToSet(unblock)' \/ lanes[l].delivering = None
    PROVE  Booked(l)'
<1> DEFINE d == lanes[l].delivering
<1>1. lanes[l] \in LaneOf(Requests)
  BY TypeHas DEF Typed
<1>2. d \in Requests \cup {None}
  BY <1>1 DEF LaneOf
<1>3. \A r : Lane(r)' = Lane(r)
  BY LaneSame
<1>4. /\ ToSet(lanes[l].queue) = {r \in Requests : fate[r] = "queued" /\ Lane(r) = l}
      /\ IsInjective(lanes[l].queue)
      /\ d # None => /\ fate[d] \in Alive \cup Over
                     /\ Lane(d) = l
                     /\ fate[d] \in Alive \/ l \in ToSet(unblock)
      /\ lanes[l].queue # <<>> => d # None
  BY DEF Booked
<1>5. ToSet(lanes'[l].queue) = {r \in Requests : fate'[r] = "queued" /\ Lane(r)' = l}
  BY <1>3, <1>4
<1>6. d # None => /\ fate'[d] \in Alive \cup Over
                  /\ Lane(d)' = l
                  /\ fate'[d] \in Alive \/ l \in ToSet(unblock)'
  BY <1>2, <1>3, <1>4
<1> QED
  BY <1>4, <1>5, <1>6 DEF Booked

\* A lane after a step, from what the step made of it.
LEMMA BookedAgain ==
    ASSUME NEW l \in Lanes, UNCHANGED orderVars,
           ToSet(lanes'[l].queue) = {r \in Requests : fate'[r] = "queued" /\ Lane(r) = l},
           IsInjective(lanes'[l].queue),
           LET d == lanes'[l].delivering IN
           /\ d # None => /\ fate'[d] \in Alive \cup Over
                          /\ Lane(d) = l
                          /\ fate'[d] \in Alive \/ l \in ToSet(unblock)'
           /\ lanes'[l].queue # <<>> => d # None
    PROVE  Booked(l)'
BY LaneSame DEF Booked

LEMMA InitBook == Init => Book
<1> SUFFICES ASSUME Init PROVE Book
  OBVIOUS
<1>1. ASSUME NEW l \in Lanes PROVE Booked(l)
  <2>1. lanes[l].delivering = None /\ lanes[l].queue = <<>>
    BY DEF Init, EmptyLane
  <2> QED
    BY <2>1, Empty DEF Booked, Init
<1>2. Unmade /\ Dead /\ OnlyItsLabelIsStoppedAsync
  BY DEF Init, Unmade, Dead, OnlyItsLabelIsStoppedAsync, OnlyItsLabelIsStopped
<1> QED
  BY <1>1, <1>2 DEF Book

\* What a queue says of the one that begins next.
LEMMA NextBegins ==
    ASSUME Typed, NEW l \in Lanes, Booked(l), lanes[l].queue # <<>>
    PROVE  LET next == PopNext(lanes[l])
               h == next.delivering
           IN  /\ next \in LaneOf(Requests) /\ h \in Requests /\ fate[h] = "queued" /\ Lane(h) = l
               /\ h # None
               /\ ToSet(next.queue) = {r \in Requests : fate[r] = "queued" /\ Lane(r) = l} \ {h}
               /\ IsInjective(next.queue)
<1> DEFINE next == PopNext(lanes[l])
           h == next.delivering
<1>1. lanes[l] \in LaneOf(Requests)
  BY TypeHas DEF Typed
<1>2. /\ next \in LaneOf(Requests) /\ h \in Requests
      /\ ToSet(lanes[l].queue) = {h} \cup ToSet(next.queue)
      /\ IsInjective(lanes[l].queue) => h \notin ToSet(next.queue) /\ IsInjective(next.queue)
  BY <1>1, PopLane
<1> HIDE DEF next
<1>3. /\ ToSet(lanes[l].queue) = {r \in Requests : fate[r] = "queued" /\ Lane(r) = l}
      /\ IsInjective(lanes[l].queue)
  BY DEF Booked
<1>4. ToSet(next.queue) = {r \in Requests : fate[r] = "queued" /\ Lane(r) = l} \ {h}
  BY <1>2, <1>3
<1>5. fate[h] = "queued" /\ Lane(h) = l
  BY <1>2, <1>3
<1> QED
  BY <1>2, <1>3, <1>4, <1>5, NoNames DEF next

\* The next one of lane l begins, after the fates of some that were alive came to
\* be f: the lane stays booked, and so do the others.
LEMMA ServeNextBook ==
    ASSUME Typed, Book, NEW l \in Lanes, NEW f \in [Requests -> Fates], ServeNext(l, f),
           UNCHANGED <<orderVars, provider>>,
           \A r \in Requests : f[r] # fate[r] => fate[r] \in Alive /\ f[r] \in Over /\ Lane(r) = l,
           (\A r \in Requests : f[r] # fate[r] => provider = "alive"),
           \A m \in Lanes \ {l} : m \in ToSet(unblock) => m \in ToSet(unblock)'
    PROVE  Book'
<1>1. \A r : Lane(r)' = Lane(r)
  BY LaneSame
<1>2. \A m \in Lanes : lanes[m] \in LaneOf(Requests) /\ Booked(m)
  BY TypeHas DEF Typed, Book
<1>3. \A r \in Requests : f[r] # fate[r] => fate[r] \notin {"unmade", "input", "queued"}
                                              /\ f[r] \notin {"unmade", "input", "queued", "stopping"}
  BY DEF Alive, Over
<1>4. CASE provider = "alive" /\ lanes[l].queue # <<>>
  <2> DEFINE next == PopNext(lanes[l])
             h == next.delivering
  <2>1. /\ next \in LaneOf(Requests) /\ h \in Requests /\ fate[h] = "queued" /\ Lane(h) = l /\ h # None
        /\ ToSet(next.queue) = {r \in Requests : fate[r] = "queued" /\ Lane(r) = l} \ {h}
        /\ IsInjective(next.queue)
    BY <1>2, <1>4, NextBegins
  <2>2. lanes' = [lanes EXCEPT ![l] = next] /\ Begin(h, f)
    BY <1>4 DEF ServeNext
  <2> HIDE DEF next
  <2>3. \A q \in Requests : fate'[q] = IF q = h THEN "running" ELSE f[q]
    BY <2>1, <2>2, BeginType DEF Typed
  <2>4. lanes'[l] = next /\ \A m \in Lanes \ {l} : lanes'[m] = lanes[m]
    BY <1>2, <2>2, TypeHas DEF Typed
  <2>5. f[h] = fate[h]
    BY <1>3, <2>1
  <2>6. Onward
    BY <1>3, <2>1, <2>3 DEF Onward
  <2>7. Booked(l)'
    <3>1. ToSet(lanes'[l].queue) = {r \in Requests : fate'[r] = "queued" /\ Lane(r) = l}
      BY <1>3, <2>1, <2>3, <2>4
    <3>2. fate'[h] \in Alive
      BY <2>1, <2>3 DEF Alive
    <3> QED
      BY <2>1, <2>4, <3>1, <3>2, BookedAgain
  <2>8. ASSUME NEW m \in Lanes \ {l} PROVE Booked(m)'
    <3>1. \A r \in Requests : Lane(r) = m => fate'[r] = fate[r]
      BY <2>1, <2>3
    <3>2. \A r \in Requests : fate[r] \in Alive \cup Over => fate'[r] \in Alive \cup Over
      BY <2>3 DEF Alive
    <3> QED
      BY <1>2, <2>4, <3>1, <3>2, BookedKept
  <2>9. Dead'
    BY <1>4 DEF Dead
  <2> QED
    BY <2>6, <2>7, <2>8, <2>9, OnwardKeeps DEF Book
<1>5. CASE provider = "alive" /\ lanes[l].queue = <<>>
  <2>1. PopNext(lanes[l]) = EmptyLane
    BY <1>5 DEF PopNext
  <2>2. lanes' = [lanes EXCEPT ![l] = EmptyLane] /\ Begin(None, f)
    BY <1>5, <2>1 DEF ServeNext, EmptyLane
  <2>3. \A q \in Requests : fate'[q] = f[q]
    BY <2>2, BeginType, NoNames DEF Typed
  <2>4. /\ lanes'[l].delivering = None /\ lanes'[l].queue = <<>>
        /\ \A m \in Lanes \ {l} : lanes'[m] = lanes[m]
    BY <1>2, <2>2, TypeHas DEF Typed, EmptyLane
  <2>5. Onward
    BY <1>3, <2>3 DEF Onward
  <2>6. Booked(l)'
    <3>1. ToSet(<<>>) = {r \in Requests : fate[r] = "queued" /\ Lane(r) = l}
      BY <1>2, <1>5 DEF Booked
    <3>2. ToSet(lanes'[l].queue) = {r \in Requests : fate'[r] = "queued" /\ Lane(r) = l}
      BY <1>3, <2>3, <2>4, <3>1
    <3> QED
      BY <2>4, <3>2, Empty, BookedAgain
  <2>7. ASSUME NEW m \in Lanes \ {l} PROVE Booked(m)'
    <3>1. \A r \in Requests : Lane(r) = m => fate'[r] = fate[r]
      BY <2>3
    <3>2. \A r \in Requests : fate[r] \in Alive \cup Over => fate'[r] \in Alive \cup Over
      BY <2>3
    <3> QED
      BY <1>2, <2>4, <3>1, <3>2, BookedKept
  <2>8. Dead'
    BY <1>5 DEF Dead
  <2> QED
    BY <2>5, <2>6, <2>7, <2>8, OnwardKeeps DEF Book
<1>6. CASE provider # "alive"
  <2>1. fate' = f /\ UNCHANGED lanes /\ \A r \in Requests : f[r] = fate[r]
    BY <1>6 DEF ServeNext
  <2>2. Onward
    BY <2>1 DEF Onward
  <2>3. ASSUME NEW m \in Lanes PROVE Booked(m)'
    <3>1. lanes[m].delivering = None
      BY <1>6 DEF Book, Dead, EmptyLane
    <3> QED
      BY <1>2, <2>1, <3>1, BookedKept
  <2>4. Dead'
    BY <2>1 DEF Book, Dead
  <2> QED
    BY <2>2, <2>3, <2>4, OnwardKeeps DEF Book
<1> QED
  BY <1>4, <1>5, <1>6

\* A task has ended and released its blocker.
LEMMA ReleaseBook ==
    ASSUME Typed, Book, NEW r \in Requests, fate[r] \in Alive, NEW end \in Over,
           fate' = [fate EXCEPT ![r] = end], Release(r), UNCHANGED <<orderVars, provider, lanes>>
    PROVE  Book'
<1>1. fate \in [Requests -> Fates] /\ unblock \in Seq(Lanes)
  BY TypeHas DEF Typed
<1>2. \A m \in ToSet(unblock) : m \in ToSet(unblock)'
  <2>1. CASE Lane(r) = None
    BY <2>1 DEF Release
  <2>2. CASE Lane(r) # None
    <3>1. Lane(r) \in Lanes /\ unblock' = Append(unblock, Lane(r))
      BY <2>2, LaneOfRequest DEF Typed, Release
    <3> QED
      BY <1>1, <3>1, AppendSet
  <2> QED
    BY <2>1, <2>2
<1>3. Lane(r) \in Lanes => Lane(r) \in ToSet(unblock)'
  <2> SUFFICES ASSUME Lane(r) \in Lanes PROVE Lane(r) \in ToSet(unblock)'
    OBVIOUS
  <2>1. unblock' = Append(unblock, Lane(r))
    BY NoNames DEF Release
  <2> QED
    BY <1>1, <2>1, AppendSet
<1>4. Onward
  BY <1>1 DEF Onward, Alive, Over
<1>5. ASSUME NEW m \in Lanes PROVE Booked(m)'
  <2>1. \A q \in Requests : fate[q] = "queued" <=> fate'[q] = "queued"
    BY <1>1 DEF Alive, Over
  <2>2. \A q \in Requests : fate[q] \in Alive \cup Over => fate'[q] \in Alive \cup Over
    BY <1>1
  <2>3. \A q \in Requests : fate[q] \in Alive /\ Lane(q) = m
                               => fate'[q] \in Alive \/ m \in ToSet(unblock)'
    BY <1>1, <1>3
  <2> QED
    BY <1>2, <2>1, <2>2, <2>3, BookedKept DEF Book
<1>6. Dead'
  BY DEF Book, Dead
<1> QED
  BY <1>4, <1>5, <1>6, OnwardKeeps DEF Book

\* Inputs are disposed of.
LEMMA DisposeBook ==
    ASSUME Typed, Book, DisposeInputs, provider' = "alive" => provider = "alive",
           UNCHANGED <<orderVars, lanes, unblock>>,
           provider # "alive"
    PROVE  Book'
<1>1. \A r \in Requests : fate'[r] = IF fate[r] = "input" THEN "disposed" ELSE fate[r]
  BY DEF DisposeInputs
<1>2. Onward
  BY <1>1 DEF Onward
<1>3. \A m \in Lanes : Booked(m)'
  BY <1>1, BookedKept DEF Book, Alive, Over
<1> QED
  BY <1>2, <1>3, OnwardKeeps DEF Book, Dead

LEMMA RequestBook ==
    ASSUME Typed, Book, NEW i \in Offered, Request(i)
    PROVE  Book'
<1> DEFINE n == made + 1
<1>1. n \in Requests /\ fate[n] = "unmade" /\ made' = n
      /\ UNCHANGED <<mode, kind, provider, lanes, unblock>>
  BY NoNames, TypeHas DEF Typed, Request, Requests, Book, Unmade
<1>2. \A r \in Requests \ {n} : ins'[r] = ins[r] /\ fate'[r] = fate[r] /\ Lane(r)' = Lane(r)
  BY <1>1, TypeHas DEF Typed, Request, Lane
<1>3. fate'[n] = "input"
  BY <1>1, TypeHas DEF Typed, Request
<1>4. Unmade'
  BY <1>1, <1>2, NoNames, TypeHas DEF Typed, Book, Unmade, Requests
<1>5. OnlyItsLabelIsStoppedAsync'
  <2> SUFFICES ASSUME kind = "async", NEW r \in Requests, fate'[r] = "stopping"
               PROVE  /\ ~ins'[r].ensure
                      /\ \E q \in Requests \ {r} :
                            /\ fate'[q] \notin {"unmade", "input"}
                            /\ ins'[q].preempt /\ ins'[q].label = ins'[r].label
    BY <1>1 DEF OnlyItsLabelIsStoppedAsync, OnlyItsLabelIsStopped
  <2>1. r # n /\ fate[r] = "stopping"
    BY <1>2, <1>3
  <2>2. /\ ~ins[r].ensure
        /\ \E q \in Requests \ {r} :
              /\ fate[q] \notin {"unmade", "input"}
              /\ ins[q].preempt /\ ins[q].label = ins[r].label
    BY <2>1 DEF Book, OnlyItsLabelIsStoppedAsync, OnlyItsLabelIsStopped
  <2>3. PICK q \in Requests \ {r} :
           fate[q] \notin {"unmade", "input"} /\ ins[q].preempt /\ ins[q].label = ins[r].label
    BY <2>2
  <2> HIDE DEF n
  <2>4. q # n
    BY <1>1, <2>3
  <2>5. ins'[q] = ins[q] /\ fate'[q] = fate[q] /\ ins'[r] = ins[r]
    BY <1>2, <2>1, <2>4
  <2> QED
    BY <2>2, <2>3, <2>5
<1>6. ASSUME NEW l \in Lanes PROVE Booked(l)'
  <2> DEFINE d == lanes[l].delivering
  <2>1. lanes[l] \in LaneOf(Requests) /\ d \in Requests \cup {None}
    BY TypeHas DEF Typed, LaneOf
  <2>2. /\ ToSet(lanes[l].queue) = {r \in Requests : fate[r] = "queued" /\ Lane(r) = l}
        /\ IsInjective(lanes[l].queue)
        /\ d # None => /\ fate[d] \in Alive \cup Over
                       /\ Lane(d) = l
                       /\ fate[d] \in Alive \/ l \in ToSet(unblock)
        /\ lanes[l].queue # <<>> => d # None
    BY DEF Book, Booked
  <2> HIDE DEF n
  <2>3. d # n \/ d = None
    BY <1>1, <2>2 DEF Alive, Over
  <2>4. ToSet(lanes[l].queue) = {r \in Requests : fate'[r] = "queued" /\ Lane(r)' = l}
    BY <1>1, <1>2, <1>3, <2>2
  <2>5. ASSUME NEW e \in Requests, d = e, e # None
        PROVE  /\ fate'[e] \in Alive \cup Over
               /\ Lane(e)' = l
               /\ fate'[e] \in Alive \/ l \in ToSet(unblock)
    BY <1>2, <2>2, <2>3, <2>5
  <2>6. d' = d
    BY <1>1
  <2> QED
    BY <1>1, <2>1, <2>2, <2>4, <2>5, <2>6 DEF Booked
<1> QED
  BY <1>1, <1>4, <1>5, <1>6 DEF Book, Dead

LEMMA ServeBook ==
    ASSUME Typed, Book, NEW r \in Requests, Serve(r)
    PROVE  Book'
<1> SUFFICES ASSUME NEW l, l = Lane(r) PROVE Book'
  OBVIOUS
<1> DEFINE at == lanes[l].delivering
           gone == Supplanted(ins, lanes[l], r)
           stop == IF at \in gone THEN Stopped(at) ELSE {}
<1>1. l \in Lanes \cup {None} /\ fate[r] = "input" /\ provider = "alive"
      /\ UNCHANGED <<orderVars, provider>>
  BY LaneOfRequest DEF Typed, Serve
<1>2. \A m \in Lanes : lanes[m] \in LaneOf(Requests) /\ Booked(m)
  BY TypeHas DEF Typed, Book
<1>3. Dead'
  BY <1>1 DEF Dead
<1>4. r \in Requests /\ r # None
  BY NoNames
<1>5. CASE l = None
  <2>1. Begin(r, fate) /\ UNCHANGED <<lanes, unblock>>
    BY <1>5 DEF Serve
  <2>2. \A q \in Requests : fate'[q] = IF q = r THEN "running" ELSE fate[q]
    BY <2>1, BeginType, TypeHas DEF Typed
  <2>3. Onward
    BY <1>1, <2>2 DEF Onward
  <2>4. \A m \in Lanes : Booked(m)'
    BY <1>1, <1>2, <2>1, <2>2, BookedKept DEF Alive
  <2> QED
    BY <1>1, <1>3, <2>3, <2>4, OnwardKeeps DEF Book
<1>6. CASE l # None /\ at = None
  <2>1. lanes' = [lanes EXCEPT ![l] = Insert(ins, lanes[l], r)] /\ Begin(r, fate) /\ UNCHANGED unblock
    BY <1>6 DEF Serve
  <2>2. Insert(ins, lanes[l], r) = [lanes[l] EXCEPT !.delivering = r]
    BY <1>6 DEF Insert
  <2>3. \A q \in Requests : fate'[q] = IF q = r THEN "running" ELSE fate[q]
    BY <2>1, BeginType, TypeHas DEF Typed
  <2>4. l \in Lanes /\ lanes[l].queue = <<>>
        /\ ToSet(lanes[l].queue) = {q \in Requests : fate[q] = "queued" /\ Lane(q) = l}
    BY <1>1, <1>2, <1>6 DEF Booked
  <2>5. lanes'[l].delivering = r /\ lanes'[l].queue = <<>>
        /\ \A m \in Lanes \ {l} : lanes'[m] = lanes[m]
    BY <1>2, <2>1, <2>2, <2>4, TypeHas DEF Typed, LaneOf
  <2>6. Onward
    BY <1>1, <2>3 DEF Onward
  <2>7. Lane(r) = l
    OBVIOUS
  <2>8. Booked(l)'
    <3>1. ToSet(lanes'[l].queue) = {q \in Requests : fate'[q] = "queued" /\ Lane(q) = l}
      BY <1>1, <2>3, <2>4, <2>5
    <3>2. fate'[r] \in Alive /\ IsInjective(lanes'[l].queue)
      BY <2>3, <2>5, Empty DEF Alive
    <3>3. LET d == lanes'[l].delivering IN
          /\ d # None => /\ fate'[d] \in Alive \cup Over
                         /\ Lane(d) = l
                         /\ fate'[d] \in Alive \/ l \in ToSet(unblock)'
          /\ lanes'[l].queue # <<>> => d # None
      BY <2>5, <2>7, <3>2
    <3> QED
      BY <1>1, <2>4, <3>1, <3>2, <3>3, BookedAgain
  <2>9. ASSUME NEW m \in Lanes \ {l} PROVE Booked(m)'
    BY <1>1, <1>2, <2>1, <2>3, <2>5, BookedKept DEF Alive
  <2> QED
    BY <1>1, <1>3, <2>6, <2>8, <2>9, OnwardKeeps DEF Book
<1>7. CASE l # None /\ at # None
  <2>1. /\ lanes' = [lanes EXCEPT ![l] = Insert(ins, lanes[l], r)]
        /\ fate' = [q \in Requests |-> IF q = r THEN "queued"
                                       ELSE IF q \in stop THEN "stopping"
                                       ELSE IF q \in gone \ {at} THEN "disposed"
                                       ELSE fate[q]]
        /\ unblock' = IF at \in gone /\ StopFails(at) THEN Append(unblock, l) ELSE unblock
    BY <1>7 DEF Serve
  <2>2. l \in Lanes /\ lanes[l] \in LaneOf(Requests)
        /\ ToSet(lanes[l].queue) = {q \in Requests : fate[q] = "queued" /\ Lane(q) = l}
        /\ IsInjective(lanes[l].queue)
        /\ fate[at] \in Alive \cup Over /\ Lane(at) = l /\ (fate[at] \in Alive \/ l \in ToSet(unblock))
    BY <1>1, <1>2, <1>7 DEF Booked
  <2>3. at \in Requests /\ at # r
    BY <1>1, <1>7, <2>2 DEF LaneOf, Alive, Over
  <2>4. /\ Insert(ins, lanes[l], r).delivering = at
        /\ gone \subseteq ToSet(lanes[l].queue) \cup {at}
        /\ Insert(ins, lanes[l], r).queue # <<>>
        /\ \A q : q \in ToSet(Insert(ins, lanes[l], r).queue)
                     <=> q = r \/ (q \in ToSet(lanes[l].queue) /\ q \notin gone)
        /\ IsInjective(lanes[l].queue) /\ r \notin ToSet(lanes[l].queue)
              => IsInjective(Insert(ins, lanes[l], r).queue)
    <3>1. lanes[l] \in LaneOf(Requests) /\ r \in Requests /\ lanes[l].delivering # None
      BY <1>7, <2>2
    <3> HIDE DEF gone, at
    <3>2. gone = Supplanted(ins, lanes[l], r) /\ at = lanes[l].delivering
      BY DEF gone, at
    <3>3. \A q : q \in ToSet(Insert(ins, lanes[l], r).queue)
                     <=> q = r \/ (q \in ToSet(lanes[l].queue) /\ q \notin Supplanted(ins, lanes[l], r))
      BY <3>1, InsertLane
    <3>4. Insert(ins, lanes[l], r).queue # <<>>
      BY <3>1, InsertLane
    <3> QED
      BY <3>1, <3>2, <3>3, <3>4, InsertLane
  <2>5. \A q \in stop : fate[q] = "running"
    BY DEF Stopped
  <2>6. \A q \in stop : kind = "async" =>
            q = at /\ ins[r].preempt /\ ins[at].label = ins[r].label /\ ~ins[at].ensure
    BY DEF Stopped, Supplanted, Discards
  <2>7. \A m \in ToSet(unblock) : m \in ToSet(unblock)'
    <3>1. unblock \in Seq(Lanes)
      BY TypeHas DEF Typed
    <3>2. CASE at \in gone /\ StopFails(at)
      BY <2>1, <2>2, <3>1, <3>2, AppendSet
    <3>3. CASE ~(at \in gone /\ StopFails(at))
      BY <2>1, <3>3
    <3> QED
      BY <3>2, <3>3
  <2>8. Lane(r) = l
    OBVIOUS
  <2>9. lanes'[l] = Insert(ins, lanes[l], r) /\ \A m \in Lanes \ {l} : lanes'[m] = lanes[m]
    BY <1>2, <2>1, <2>2, TypeHas DEF Typed
  <2> HIDE DEF at, gone, stop
  <2>10. \A q \in gone \ {at} : fate[q] = "queued" /\ Lane(q) = l
    BY <2>2, <2>4
  <2>11. \A q \in Requests : fate[q] \in Alive \cup Over => fate'[q] \in Alive \cup Over
                              /\ (fate[q] \in Alive => fate'[q] \in Alive)
    <3> SUFFICES ASSUME NEW q \in Requests, fate[q] \in Alive \cup Over
                 PROVE  (fate'[q] = "stopping" /\ fate[q] = "running") \/ fate'[q] = fate[q]
      BY DEF Alive
    <3>1. q # r /\ q \notin gone \ {at}
      BY <1>1, <2>10 DEF Alive, Over
    <3> QED
      BY <2>1, <2>5, <3>1
  <2>12. Booked(l)'
    <3>1. r \notin ToSet(lanes[l].queue)
      BY <1>1, <2>2
    <3>2. ToSet(lanes'[l].queue) = {q \in Requests : fate'[q] = "queued" /\ Lane(q) = l}
      <4>1. \A q \in Requests : fate'[q] = "queued" /\ Lane(q) = l
                                   <=> q = r \/ q \in ToSet(lanes[l].queue) \ gone
        <5> TAKE q \in Requests
        <5>1. CASE q = r
          BY <2>1, <2>8, <5>1
        <5>2. CASE q # r
          <6>1. q = at => fate[q] # "queued"
            BY <2>2 DEF Alive, Over
          <6> QED
            BY <2>1, <2>2, <2>5, <5>2, <6>1
        <5> QED
          BY <5>1, <5>2
      <4>2. ToSet(lanes[l].queue) \subseteq Requests
        BY <2>2
      <4> QED
        BY <2>4, <2>9, <4>1, <4>2
    <3>3. IsInjective(lanes'[l].queue) /\ lanes'[l].delivering = at
      BY <2>2, <2>4, <2>9, <3>1
    <3>4. fate'[at] \in Alive \cup Over /\ (fate'[at] \in Alive \/ l \in ToSet(unblock)')
      BY <2>2, <2>3, <2>7, <2>11
    <3>5. at # None
      BY <1>7
    <3>6. LET d == lanes'[l].delivering IN
          /\ d # None => /\ fate'[d] \in Alive \cup Over
                         /\ Lane(d) = l
                         /\ fate'[d] \in Alive \/ l \in ToSet(unblock)'
          /\ lanes'[l].queue # <<>> => d # None
      BY <2>2, <3>3, <3>4, <3>5
    <3> QED
      BY <1>1, <2>2, <3>2, <3>3, <3>6, BookedAgain
  <2>13. ASSUME NEW m \in Lanes \ {l} PROVE Booked(m)'
    <3>1. \A q \in Requests : Lane(q) = m => (fate[q] = "queued" <=> fate'[q] = "queued")
      BY <2>1, <2>5, <2>8, <2>10
    <3> QED
      BY <1>1, <1>2, <2>7, <2>9, <2>11, <3>1, BookedKept
  <2>14. \A q \in Requests : /\ fate[q] = "unmade" <=> fate'[q] = "unmade"
                             /\ fate'[q] = "input" => fate[q] = "input"
                             /\ fate'[q] = "stopping" => fate[q] = "stopping" \/ q \in stop
    <3> TAKE q \in Requests
    <3> QED
      BY <1>1, <2>1, <2>5, <2>10
  <2>15. Unmade'
    BY <1>1, <2>14 DEF Book, Unmade, orderVars
  <2>16. OnlyItsLabelIsStoppedAsync'
    <3> SUFFICES ASSUME kind = "async", NEW p \in Requests, fate'[p] = "stopping"
                 PROVE  /\ ~ins[p].ensure
                        /\ \E q \in Requests \ {p} :
                              /\ fate'[q] \notin {"unmade", "input"}
                              /\ ins[q].preempt /\ ins[q].label = ins[p].label
      BY <1>1 DEF OnlyItsLabelIsStoppedAsync, OnlyItsLabelIsStopped, orderVars
    <3>1. CASE fate[p] = "stopping"
      <4>1. /\ ~ins[p].ensure
            /\ \E q \in Requests \ {p} :
                  /\ fate[q] \notin {"unmade", "input"}
                  /\ ins[q].preempt /\ ins[q].label = ins[p].label
        BY <3>1 DEF Book, OnlyItsLabelIsStoppedAsync, OnlyItsLabelIsStopped
      <4> QED
        BY <2>14, <4>1
    <3>2. CASE p \in stop
      <4>1. p = at /\ ins[r].preempt /\ ins[r].label = ins[p].label /\ ~ins[p].ensure
        BY <2>6, <3>2
      <4>2. fate'[r] = "queued"
        BY <2>1
      <4> QED
        BY <2>3, <4>1, <4>2
    <3> QED
      BY <2>14, <3>1, <3>2
  <2> QED
    BY <1>3, <2>12, <2>13, <2>15, <2>16 DEF Book
<1> QED
  BY <1>5, <1>6, <1>7

\* How cleaning moves the fates: those that wait end, those that run do not yet.
LEMMA CleanFates ==
    ASSUME Typed, NEW N, NEW s, Clean(N, s)
    PROVE  \E struck \in SUBSET {r \in Requests : fate[r] = "queued"} :
              /\ lanes' = [l \in Lanes |-> Strike(lanes[l], struck)]
              /\ \A r \in Requests :
                    /\ r \in struck => fate'[r] \in Over
                    /\ r \notin struck =>
                          \/ fate'[r] = fate[r]
                          \/ fate[r] = "input" /\ fate'[r] = "cleaned"
                          \/ fate[r] = "running" /\ fate'[r] = "cleaning"
                          \/ MayCleanTwice /\ fate[r] = "cleaning" /\ fate'[r] = "orphaned"
              /\ UNCHANGED <<orderVars, provider, fresh, unblock, phase>>
<1> DEFINE mine == {r \in 1..made : Origin[r].session = s /\ Origin[r].node \in N}
           struck == {r \in 1..made : fate[r] = "queued" /\ Origin[r].session = s}
           ended == IF kind = "async" THEN {r \in mine : fate[r] = "running"}
                    ELSE {r \in 1..made : fate[r] = "running" /\ Origin[r].session = s}
           again == IF kind = "async" THEN {r \in mine : fate[r] = "cleaning"} ELSE {}
<1>1. /\ lanes' = [l \in Lanes |-> Strike(lanes[l], struck)]
      /\ MayCleanTwice \/ again = {}
      /\ fate' = [r \in Requests |->
                    IF r \in mine /\ fate[r] = "input" THEN "cleaned"
                    ELSE IF r \in struck THEN IF r \in mine THEN "cleaned" ELSE "lost"
                    ELSE IF r \in ended THEN "cleaning"
                    ELSE IF r \in again THEN "orphaned"
                    ELSE fate[r]]
      /\ UNCHANGED <<orderVars, provider, fresh, unblock, phase>>
  BY DEF Clean
<1>2. \A r \in ended : fate[r] = "running"
  OBVIOUS
<1>3. \A r \in again : fate[r] = "cleaning" /\ MayCleanTwice
  BY <1>1
<1>4. struck \in SUBSET {r \in Requests : fate[r] = "queued"}
  BY NoNames, TypeHas DEF Typed, Requests
<1> HIDE DEF mine, ended, again, struck
<1>5. ASSUME NEW r \in Requests
      PROVE  /\ r \in struck => fate'[r] \in Over
             /\ r \notin struck =>
                   \/ fate'[r] = fate[r]
                   \/ fate[r] = "input" /\ fate'[r] = "cleaned"
                   \/ fate[r] = "running" /\ fate'[r] = "cleaning"
                   \/ MayCleanTwice /\ fate[r] = "cleaning" /\ fate'[r] = "orphaned"
  <2>1. CASE r \in struck
    BY <1>1, <2>1 DEF Over
  <2>2. CASE r \notin struck
    BY <1>1, <1>2, <1>3, <2>2
  <2> QED
    BY <2>1, <2>2
<1> QED
  BY <1>1, <1>4, <1>5

LEMMA CleanBook ==
    ASSUME Typed, Book, NEW N, NEW s, Clean(N, s)
    PROVE  Book'
<1>1. PICK struck \in SUBSET {r \in Requests : fate[r] = "queued"} :
        /\ lanes' = [l \in Lanes |-> Strike(lanes[l], struck)]
        /\ \A r \in Requests :
              /\ r \in struck => fate'[r] \in Over
              /\ r \notin struck =>
                    \/ fate'[r] = fate[r]
                    \/ fate[r] = "input" /\ fate'[r] = "cleaned"
                    \/ fate[r] = "running" /\ fate'[r] = "cleaning"
                    \/ MayCleanTwice /\ fate[r] = "cleaning" /\ fate'[r] = "orphaned"
        /\ UNCHANGED <<orderVars, provider, fresh, unblock, phase>>
  BY CleanFates
<1>2. \A r \in struck : r \in Requests /\ fate[r] = "queued"
  BY <1>1
<1>3. Onward
  BY <1>1, <1>2 DEF Onward, Over
<1>4. \A r \in Requests : /\ fate[r] \in Alive => fate'[r] \in Alive
                          /\ fate[r] \in Over => fate'[r] \in Over
                          /\ fate'[r] = "queued" <=> fate[r] = "queued" /\ r \notin struck
  BY <1>1, <1>2 DEF Alive, Over
<1>5. ASSUME NEW l \in Lanes PROVE Booked(l)'
  <2>1. lanes[l] \in LaneOf(Requests) /\ Booked(l)
    BY TypeHas DEF Typed, Book
  <2>2. /\ lanes'[l].delivering = lanes[l].delivering
        /\ lanes'[l].queue = Without(lanes[l].queue, struck)
        /\ ToSet(lanes'[l].queue) = ToSet(lanes[l].queue) \ struck
        /\ IsInjective(lanes[l].queue) => IsInjective(lanes'[l].queue)
    BY <1>1, <2>1, StrikeLane
  <2>3. lanes[l].delivering \in Requests \cup {None}
    BY <2>1 DEF LaneOf
  <2>4. ToSet(lanes'[l].queue) = {r \in Requests : fate'[r] = "queued" /\ Lane(r) = l}
    BY <1>4, <2>1, <2>2 DEF Booked
  <2>5. lanes[l].queue = <<>> => lanes'[l].queue = <<>>
    <3>1. lanes[l].queue \in Seq(Requests)
      BY <2>1 DEF LaneOf
    <3>2. lanes[l].queue = <<>> => ToSet(lanes[l].queue) \cap struck = {}
      BY Empty
    <3> QED
      BY <2>2, <3>1, <3>2, WithoutNone
  <2>6. LET d == lanes'[l].delivering IN
        /\ d # None => /\ fate'[d] \in Alive \cup Over
                       /\ Lane(d) = l
                       /\ fate'[d] \in Alive \/ l \in ToSet(unblock)'
        /\ lanes'[l].queue # <<>> => d # None
    BY <1>1, <1>4, <2>1, <2>2, <2>3, <2>5 DEF Booked
  <2> QED
    BY <1>1, <2>1, <2>2, <2>4, <2>6, BookedAgain DEF Booked
<1>6. Dead'
  <2> SUFFICES ASSUME provider # "alive", NEW l \in Lanes PROVE lanes'[l] = EmptyLane
    BY <1>1 DEF Dead
  <2>1. lanes[l] \in LaneOf(Requests) /\ lanes[l] = EmptyLane
    BY TypeHas DEF Typed, Book, Dead
  <2>2. lanes[l].queue \in Seq(Requests) /\ ToSet(lanes[l].queue) \cap struck = {}
    BY <2>1, Empty DEF LaneOf, EmptyLane
  <2>3. Without(lanes[l].queue, struck) = lanes[l].queue
    BY <2>2, WithoutNone
  <2> QED
    BY <1>1, <2>1, <2>3 DEF Strike, EmptyLane
<1> QED
  BY <1>1, <1>3, <1>5, <1>6, OnwardKeeps DEF Book

LEMMA DespawnBook ==
    ASSUME Typed, Book, Despawn
    PROVE  Book'
<1>1. /\ lanes' = [l \in Lanes |-> EmptyLane] /\ UNCHANGED <<orderVars, unblock>>
      /\ \A r \in Requests : fate'[r] = IF fate[r] = "queued" THEN "lost" ELSE fate[r]
  BY DEF Despawn
<1>2. Onward
  BY <1>1 DEF Onward
<1>3. ASSUME NEW l \in Lanes PROVE Booked(l)'
  <2>1. lanes'[l].delivering = None /\ lanes'[l].queue = <<>>
    BY <1>1 DEF EmptyLane
  <2>2. ToSet(lanes'[l].queue) = {r \in Requests : fate'[r] = "queued" /\ Lane(r) = l}
    BY <1>1, <2>1, Empty
  <2> QED
    BY <1>1, <2>1, <2>2, Empty, BookedAgain
<1> QED
  BY <1>1, <1>2, <1>3, OnwardKeeps DEF Book, Dead

\* Steps that move no fate and no lane.
LEMMA RestBook ==
    ASSUME Typed, Book, UNCHANGED <<orderVars, provider, lanes, fate, unblock>>
    PROVE  Book'
<1>1. Onward
  BY DEF Onward
<1>2. \A l \in Lanes : Booked(l)'
  BY BookedKept DEF Book
<1> QED
  BY <1>1, <1>2, OnwardKeeps DEF Book, Dead

LEMMA StepBook == Typed /\ Book /\ [Next]_vars => Book'
<1> SUFFICES ASSUME Typed, Book, [Next]_vars PROVE Book'
  OBVIOUS
<1>1. CASE UnblockNext
  <2> DEFINE l == Head(unblock)
  <2>1. unblock \in Seq(Lanes) /\ unblock # <<>> /\ unblock' = Tail(unblock)
        /\ ServeNext(l, fate) /\ UNCHANGED <<orderVars, provider>>
        /\ fate \in [Requests -> Fates]
    BY <1>1, TypeHas DEF Typed, UnblockNext
  <2>2. l \in Lanes /\ ToSet(unblock) = {l} \cup ToSet(Tail(unblock))
    BY <2>1, TailSet
  <2> HIDE DEF l
  <2>3. \A m \in Lanes \ {l} : m \in ToSet(unblock) => m \in ToSet(unblock)'
    BY <2>1, <2>2
  <2> QED
    BY <2>1, <2>2, <2>3, ServeNextBook
<1>2. ASSUME NEW ready \in BOOLEAN, FirstPoll(ready) PROVE Book'
  <2> DEFINE r == Head(fresh)
  <2>1. r \in Requests
    <3>1. fresh \in Seq(Requests) /\ fresh # <<>>
      BY <1>2, TypeHas DEF Typed, FirstPoll
    <3> QED
      BY <3>1
  <2>2. UNCHANGED <<orderVars, provider, lanes>>
    BY <1>2 DEF FirstPoll
  <2>3. CASE ready /\ fate[r] = "running"
    <3>1. Finish(r) /\ "responded" \in Over /\ fate[r] \in Alive
      BY <1>2, <2>3 DEF FirstPoll, Over, Alive
    <3> HIDE DEF r
    <3> QED
      BY <2>1, <2>2, <3>1, ReleaseBook DEF Finish
  <2>4. CASE ~(ready /\ fate[r] = "running")
    <3>1. UNCHANGED <<fate, unblock>>
      BY <1>2, <2>4 DEF FirstPoll
    <3> QED
      BY <2>2, <3>1, RestBook
  <2> QED
    BY <2>3, <2>4
<1>3. ASSUME NEW r \in Requests, TaskDone(r) PROVE Book'
  <2>1. "responded" \in Over /\ fate[r] \in Alive /\ Finish(r)
        /\ UNCHANGED <<orderVars, provider, lanes>>
    BY <1>3 DEF TaskDone, Over, Alive
  <2> QED
    BY <2>1, ReleaseBook DEF Finish
<1>4. ASSUME NEW r \in Requests, TaskStopped(r) PROVE Book'
  <2>1. PICK end \in Over : fate' = [fate EXCEPT ![r] = end]
    BY <1>4, TypeHas DEF Typed, TaskStopped, Over
  <2>2. fate[r] \in Alive /\ Release(r) /\ UNCHANGED <<orderVars, provider, lanes>>
    BY <1>4 DEF TaskStopped, Alive
  <2> QED
    BY <2>1, <2>2, ReleaseBook
<1>5. ASSUME NEW r \in Requests, SessionDone(r) PROVE Book'
  <2>1. PICK end \in Over :
           LET f == [fate EXCEPT ![r] = end]
           IN  /\ f \in [Requests -> Fates]
               /\ \/ Lane(r) # None /\ ServeNext(Lane(r), f)
                  \/ Lane(r) = None /\ fate' = f /\ UNCHANGED <<lanes, fresh>>
    BY <1>5, SessionDoneHas
  <2> DEFINE f == [fate EXCEPT ![r] = end]
  <2>2. fate[r] \in Alive /\ kind = "workflow" /\ UNCHANGED <<orderVars, provider, unblock>>
    BY <1>5 DEF SessionDone
  <2>3. CASE Lane(r) # None
    <3>1. Lane(r) \in Lanes /\ f \in [Requests -> Fates] /\ ServeNext(Lane(r), f)
      BY <2>1, <2>3, LaneOfRequest DEF Typed
    <3>2. \A q \in Requests : f[q] # fate[q] => q = r
      BY TypeHas DEF Typed
    <3>3. f[r] \in Over /\ provider = "alive"
      BY <2>2, TypeHas DEF Typed, WorkflowOK
    <3> HIDE DEF f
    <3> QED
      BY <2>2, <3>1, <3>2, <3>3, ServeNextBook
  <2>4. CASE Lane(r) = None
    BY <2>1, <2>2, <2>4, ReleaseBook DEF Release
  <2> QED
    BY <2>3, <2>4
<1>6. CASE ServeNobody
  BY <1>6, DisposeBook DEF ServeNobody
<1>7. CASE NoticeDespawn
  BY <1>7, DisposeBook DEF NoticeDespawn
<1>8. CASE NextPhase
  BY <1>8, RestBook DEF NextPhase
<1>9. CASE UNCHANGED vars
  BY <1>9, RestBook DEF vars, orderVars
<1>10. ASSUME NEW s \in Sessions, CleanScope(s) PROVE Book'
  BY <1>10, CleanBook DEF CleanScope
<1>11. ASSUME NEW n \in Nodes, NEW s \in Sessions, Trim(n, s) PROVE Book'
  BY <1>11, CleanBook DEF Trim
<1> QED
  BY <1>1, <1>2, <1>3, <1>4, <1>5, <1>6, <1>7, <1>8, <1>9, <1>10, <1>11, RequestBook, ServeBook,
     DespawnBook DEF Next, FlushStep

LEMMA AlwaysBooked == Spec => [](Typed /\ Book)
BY InitTyped, InitBook, StepTyped, StepBook, PTL DEF Spec

\* No lane is stuck and none is idle while requests wait in it, whatever is
\* supplanted, cleaned or despawned.
THEOREM NoLaneGetsStuck == Spec => []NoLaneStuck
<1>1. Book => NoLaneStuck
  BY DEF Book, Booked, NoLaneStuck
<1> QED
  BY <1>1, AlwaysBooked, PTL

\* A task is stopped only by a preempting request with its label, and never if
\* it is ensured.
THEOREM OnlySupplantedAreStopped == Spec => []OnlyItsLabelIsStoppedAsync
<1>1. Book => OnlyItsLabelIsStoppedAsync
  BY DEF Book
<1> QED
  BY <1>1, AlwaysBooked, PTL

-----------------------------------------------------------------------------
(* Mutual exclusion *)

\* The request that r supplants in its lane holds it although its task is gone: it
\* was ready when it was polled first and its blocker waits to be released, or its
\* node was cleaned twice.  stop_task fails and serve releases the lane on its own.
SupplantsGone(r) ==
    /\ Lane(r) # None
    /\ lanes[Lane(r)].delivering \in Supplanted(ins, lanes[Lane(r)], r)
    /\ StopFails(lanes[Lane(r)].delivering)

\* No step of a behaviour does that.
NobodyGoneIsSupplanted == [][\A r \in Requests : Serve(r) => ~SupplantsGone(r)]_vars

\* The requests of a lane that run, or have not ended yet: there is at most one,
\* it is the one being delivered, and its blocker has not been released.
Claimed(l) ==
    \A r \in Requests : fate[r] \in Alive /\ Lane(r) = l =>
        /\ l \notin ToSet(unblock)
        /\ provider = "alive" => lanes[l].delivering = r
        /\ \A q \in Requests : fate[q] \in Alive /\ Lane(q) = l => q = r

\* A lane is unblocked once for each request that is delivered.
Settled ==
    /\ IsInjective(unblock)
    /\ \A l \in ToSet(unblock) : provider = "alive" => lanes[l].delivering # None
    /\ \A l \in Lanes : Claimed(l)

LEMMA InitSettled == Init => Settled
BY Empty DEF Init, Settled, Claimed, Alive

\* Steps that begin no request.
LEMMA CalmSettled ==
    ASSUME Typed, Settled, UNCHANGED orderVars,
           \A r \in Requests : fate'[r] \in Alive => fate[r] \in Alive,
           ToSet(unblock)' \subseteq ToSet(unblock), IsInjective(unblock)',
           provider' = "alive" => /\ provider = "alive"
                                  /\ \A l \in Lanes : lanes'[l].delivering = lanes[l].delivering
    PROVE  Settled'
<1>1. ASSUME NEW l \in Lanes PROVE Claimed(l)'
  BY LaneSame DEF Settled, Claimed
<1>2. ToSet(unblock) \subseteq Lanes
  BY TypeHas DEF Typed, ToSet
<1>3. ASSUME NEW l \in ToSet(unblock)', provider' = "alive" PROVE lanes'[l].delivering # None
  BY <1>2, <1>3 DEF Settled
<1> QED
  BY <1>1, <1>3 DEF Settled

\* r begins in its lane l, or without one; or nobody does, and l is free.
LEMMA BeginSettled ==
    ASSUME Typed, Settled, NEW r \in Requests \cup {None}, NEW l \in Lanes \cup {None},
           r # None => Lane(r) = l,
           UNCHANGED <<orderVars, provider>>,
           \A q \in Requests : fate'[q] \in Alive =>
                                  q = r \/ (fate[q] \in Alive /\ (Lane(q) # l \/ l = None)),
           \A m \in Lanes \ {l} : lanes'[m].delivering = lanes[m].delivering,
           l # None => lanes'[l].delivering = r /\ l \notin ToSet(unblock)',
           ToSet(unblock)' \subseteq ToSet(unblock), IsInjective(unblock)'
    PROVE  Settled'
<1>1. \A q : Lane(q)' = Lane(q)
  BY LaneSame
<1>2. ASSUME NEW m \in Lanes \ {l} PROVE Claimed(m)'
  <2>1. \A q \in Requests : fate'[q] \in Alive /\ Lane(q) = m => fate[q] \in Alive
    BY NoNames
  <2> QED
    BY <1>1, <2>1 DEF Settled, Claimed
<1>3. ASSUME l # None PROVE Claimed(l)'
  <2>1. \A q \in Requests : fate'[q] \in Alive /\ Lane(q) = l => q = r
    BY <1>3
  <2> QED
    BY <1>1, <1>3, <2>1 DEF Claimed
<1>4. ToSet(unblock) \subseteq Lanes
  BY TypeHas DEF Typed, ToSet
<1>5. ASSUME NEW m \in ToSet(unblock)', provider' = "alive" PROVE lanes'[m].delivering # None
  <2>1. m # l
    BY <1>4, <1>5, NoNames
  <2> QED
    BY <1>4, <1>5, <2>1 DEF Settled
<1>6. \A m \in Lanes : Claimed(m)'
  BY <1>2, <1>3, NoNames
<1> QED
  BY <1>5, <1>6 DEF Settled

LEMMA ServeNextSettled ==
    ASSUME Typed, Book, Settled, NEW l \in Lanes, NEW f \in [Requests -> Fates], ServeNext(l, f),
           UNCHANGED <<orderVars, provider>>,
           \A r \in Requests : f[r] # fate[r] => f[r] \in Over,
           provider = "alive" => \A r \in Requests : f[r] \in Alive => Lane(r) # l,
           ToSet(unblock)' \subseteq ToSet(unblock), IsInjective(unblock)', l \notin ToSet(unblock)'
    PROVE  Settled'
<1>1. \A r \in Requests : f[r] \in Alive => fate[r] \in Alive
  BY DEF Over, Alive
<1>2. CASE provider = "alive"
  <2> DEFINE next == PopNext(lanes[l])
             h == next.delivering
  <2>1. lanes \in [Lanes -> LaneOf(Requests)] /\ lanes[l] \in LaneOf(Requests)
    BY TypeHas DEF Typed
  <2>2. h \in Requests \cup {None} /\ (h # None => Lane(h) = l)
    <3>1. CASE lanes[l].queue = <<>>
      BY <3>1 DEF PopNext, EmptyLane
    <3>2. CASE lanes[l].queue # <<>>
      BY <3>2, NextBegins DEF Book
    <3> QED
      BY <3>1, <3>2
  <2>3. lanes' = [lanes EXCEPT ![l] = next] /\ Begin(h, f)
    BY <1>2 DEF ServeNext
  <2> HIDE DEF next
  <2>4. \A q \in Requests : fate'[q] = IF q = h THEN "running" ELSE f[q]
    BY <2>2, <2>3, BeginType DEF Typed
  <2>5. lanes'[l].delivering = h /\ \A m \in Lanes \ {l} : lanes'[m].delivering = lanes[m].delivering
    BY <2>1, <2>3
  <2>6. \A q \in Requests : fate'[q] \in Alive => q = h \/ (fate[q] \in Alive /\ Lane(q) # l)
    BY <1>1, <1>2, <2>4
  <2> HIDE DEF h
  <2> QED
    BY <2>2, <2>5, <2>6, BeginSettled
<1>3. CASE provider # "alive"
  <2>1. fate' = f /\ UNCHANGED lanes
    BY <1>3 DEF ServeNext
  <2> QED
    BY <1>1, <1>3, <2>1, CalmSettled
<1> QED
  BY <1>2, <1>3

LEMMA ReleaseSettled ==
    ASSUME Typed, Settled, NEW r \in Requests, fate[r] \in Alive, NEW end \in Over,
           fate' = [fate EXCEPT ![r] = end], Release(r),
           UNCHANGED <<orderVars, provider, lanes>>
    PROVE  Settled'
<1>1. fate \in [Requests -> Fates] /\ unblock \in Seq(Lanes) /\ ToSet(unblock) \subseteq Lanes
  BY TypeHas DEF Typed, ToSet
<1>2. \A q \in Requests : fate'[q] \in Alive => q # r /\ fate[q] \in Alive
  BY <1>1 DEF Over, Alive
<1>3. CASE Lane(r) = None
  <2>1. UNCHANGED unblock
    BY <1>3 DEF Release
  <2> QED
    BY <1>2, <2>1, CalmSettled DEF Settled
<1>4. CASE Lane(r) # None
  <2> SUFFICES ASSUME NEW l, l = Lane(r) PROVE Settled'
    OBVIOUS
  <2>1. l \in Lanes /\ unblock' = Append(unblock, l)
    BY <1>4, LaneOfRequest DEF Typed, Release
  <2>2. /\ l \notin ToSet(unblock) /\ (provider = "alive" => lanes[l].delivering = r)
        /\ \A q \in Requests : fate[q] \in Alive /\ Lane(q) = l => q = r
    BY <2>1 DEF Settled, Claimed
  <2>3. ToSet(unblock)' = ToSet(unblock) \cup {l} /\ IsInjective(unblock)'
    <3>1. ToSet(Append(unblock, l)) = ToSet(unblock) \cup {l} /\ IsInjective(Append(unblock, l))
      BY <1>1, <2>1, <2>2, AppendSet DEF Settled
    <3> QED
      BY <2>1, <3>1
  <2>4. \A q : Lane(q)' = Lane(q)
    BY LaneSame
  <2>5. ASSUME NEW m \in Lanes PROVE Claimed(m)'
    BY <1>2, <2>2, <2>3, <2>4 DEF Settled, Claimed
  <2>6. \A m \in ToSet(unblock)' : provider' = "alive" => lanes'[m].delivering # None
    BY <2>2, <2>3, NoNames DEF Settled
  <2> QED
    BY <1>2, <2>3, <2>5, <2>6 DEF Settled
<1> QED
  BY <1>3, <1>4

LEMMA ServeSettled ==
    ASSUME Typed, Book, Settled, NEW r \in Requests, Serve(r), ~SupplantsGone(r)
    PROVE  Settled'
<1> SUFFICES ASSUME NEW l, l = Lane(r) PROVE Settled'
  OBVIOUS
<1> DEFINE at == lanes[l].delivering
           gone == Supplanted(ins, lanes[l], r)
           stop == IF at \in gone THEN Stopped(at) ELSE {}
<1>1. l \in Lanes \cup {None} /\ fate[r] = "input" /\ provider = "alive"
      /\ UNCHANGED <<orderVars, provider, active, phase>>
  BY LaneOfRequest DEF Typed, Serve
<1>2. lanes \in [Lanes -> LaneOf(Requests)]
  BY TypeHas DEF Typed
<1>3. CASE l = None \/ at = None
  <2>1. Begin(r, fate) /\ UNCHANGED unblock
        /\ IF l = None THEN UNCHANGED lanes ELSE lanes' = [lanes EXCEPT ![l] = Insert(ins, lanes[l], r)]
    BY <1>3 DEF Serve
  <2>2. \A q \in Requests : fate'[q] = IF q = r THEN "running" ELSE fate[q]
    BY <2>1, BeginType, TypeHas DEF Typed
  <2>3. l # None => lanes'[l].delivering = r
    <3>1. Insert(ins, lanes[l], r) = [lanes[l] EXCEPT !.delivering = r] \/ l = None
      BY <1>3 DEF Insert
    <3> QED
      BY <1>1, <1>2, <2>1, <3>1 DEF LaneOf
  <2>4. \A m \in Lanes \ {l} : lanes'[m].delivering = lanes[m].delivering
    BY <1>1, <1>2, <2>1
  <2>5. \A q \in Requests : fate[q] \in Alive => Lane(q) # l \/ l = None
    BY <1>1, <1>3, NoNames DEF Settled, Claimed
  <2>6. \A q \in Requests : fate'[q] \in Alive =>
                               q = r \/ (fate[q] \in Alive /\ (Lane(q) # l \/ l = None))
    BY <2>2, <2>5
  <2>7. IsInjective(unblock)' /\ ToSet(unblock)' = ToSet(unblock)
        /\ (l # None => l \notin ToSet(unblock)')
    BY <1>1, <1>3, <2>1 DEF Settled
  <2> QED
    BY <1>1, <2>3, <2>4, <2>6, <2>7, BeginSettled
<1>4. CASE l # None /\ at # None
  <2>1. /\ lanes' = [lanes EXCEPT ![l] = Insert(ins, lanes[l], r)]
        /\ fate' = [q \in Requests |-> IF q = r THEN "queued"
                                       ELSE IF q \in stop THEN "stopping"
                                       ELSE IF q \in gone \ {at} THEN "disposed"
                                       ELSE fate[q]]
        /\ unblock' = IF at \in gone /\ StopFails(at) THEN Append(unblock, l) ELSE unblock
    BY <1>4 DEF Serve
  <2>2. l \in Lanes /\ lanes[l] \in LaneOf(Requests)
    BY <1>1, <1>2, <1>4
  <2>4. UNCHANGED unblock
    BY <1>4, <2>1 DEF SupplantsGone
  <2>5. \A q \in stop : fate[q] \in Alive
    BY DEF Stopped, Alive
  <2>6. lanes'[l].delivering = at /\ \A m \in Lanes \ {l} : lanes'[m] = lanes[m]
    BY <1>2, <1>4, <2>1, <2>2, InsertLane
  <2> HIDE DEF stop, gone
  <2>7. \A q \in Requests : fate'[q] \in Alive => fate[q] \in Alive
    BY <2>1, <2>5 DEF Alive
  <2>8. \A m \in Lanes : lanes'[m].delivering = lanes[m].delivering
    BY <2>6
  <2>9. ToSet(unblock)' \subseteq ToSet(unblock) /\ IsInjective(unblock)'
    BY <2>4 DEF Settled
  <2> QED
    BY <1>1, <2>7, <2>8, <2>9, CalmSettled
<1> QED
  BY <1>3, <1>4

LEMMA RequestSettled ==
    ASSUME Typed, Book, Settled, NEW i \in Offered, Request(i)
    PROVE  Settled'
<1> DEFINE n == made + 1
<1>1. n \in Requests /\ fate[n] = "unmade"
      /\ UNCHANGED <<mode, kind, provider, lanes, unblock, phase>>
  BY NoNames, TypeHas DEF Typed, Request, Requests, Book, Unmade
<1>2. \A r \in Requests \ {n} : fate'[r] = fate[r] /\ Lane(r)' = Lane(r)
  BY <1>1, TypeHas DEF Typed, Request, Lane
<1>3. fate'[n] = "input"
  BY <1>1, TypeHas DEF Typed, Request
<1> HIDE DEF n
<1>4. \A r \in Requests : fate'[r] \in Alive => r # n
  BY <1>3 DEF Alive
<1>5. ASSUME NEW l \in Lanes PROVE Claimed(l)'
  BY <1>1, <1>2, <1>4 DEF Settled, Claimed
<1> QED
  BY <1>1, <1>5 DEF Settled

LEMMA CleanSettled ==
    ASSUME Typed, Settled, NEW N, NEW s, Clean(N, s)
    PROVE  Settled'
<1>1. PICK struck \in SUBSET {r \in Requests : fate[r] = "queued"} :
        /\ lanes' = [l \in Lanes |-> Strike(lanes[l], struck)]
        /\ \A r \in Requests :
              /\ r \in struck => fate'[r] \in Over
              /\ r \notin struck =>
                    \/ fate'[r] = fate[r]
                    \/ fate[r] = "input" /\ fate'[r] = "cleaned"
                    \/ fate[r] = "running" /\ fate'[r] = "cleaning"
                    \/ MayCleanTwice /\ fate[r] = "cleaning" /\ fate'[r] = "orphaned"
        /\ UNCHANGED <<orderVars, provider, fresh, unblock, phase>>
  BY CleanFates
<1>2. \A r \in Requests : fate'[r] \in Alive => fate[r] \in Alive
  BY <1>1 DEF Alive, Over
<1>3. \A l \in Lanes : lanes'[l].delivering = lanes[l].delivering
  <2>1. \A l \in Lanes : lanes[l] \in LaneOf(Requests)
    BY TypeHas DEF Typed
  <2> QED
    BY <1>1, <2>1, StrikeLane
<1> QED
  BY <1>1, <1>2, <1>3, CalmSettled DEF Settled

LEMMA StepSettled ==
    ASSUME Typed, Book, Settled, [Next]_vars, \A r \in Requests : Serve(r) => ~SupplantsGone(r)
    PROVE  Settled'
<1>1. CASE UnblockNext
  <2> DEFINE l == Head(unblock)
  <2>1. /\ unblock \in Seq(Lanes) /\ unblock # <<>> /\ unblock' = Tail(unblock)
        /\ ServeNext(l, fate) /\ UNCHANGED <<orderVars, provider, active, phase>>
        /\ fate \in [Requests -> Fates]
    BY <1>1, TypeHas DEF Typed, UnblockNext
  <2>2. /\ l \in Lanes /\ ToSet(unblock) = {l} \cup ToSet(Tail(unblock))
        /\ l \notin ToSet(Tail(unblock)) /\ IsInjective(Tail(unblock))
    BY <2>1, TailSet DEF Settled
  <2> HIDE DEF l
  <2>4. \A r \in Requests : fate[r] \in Alive => Lane(r) # l
    BY <2>2 DEF Settled, Claimed
  <2>5. /\ ToSet(unblock)' \subseteq ToSet(unblock) /\ IsInjective(unblock)'
        /\ l \notin ToSet(unblock)'
    BY <2>1, <2>2
  <2> QED
    BY <2>1, <2>2, <2>4, <2>5, ServeNextSettled
<1>2. ASSUME NEW r \in Requests, SessionDone(r) PROVE Settled'
  <2>1. PICK end \in Over :
           LET f == [fate EXCEPT ![r] = end]
           IN  /\ f \in [Requests -> Fates]
               /\ \/ Lane(r) # None /\ ServeNext(Lane(r), f)
                  \/ Lane(r) = None /\ fate' = f /\ UNCHANGED <<lanes, fresh>>
    BY <1>2, SessionDoneHas
  <2> DEFINE f == [fate EXCEPT ![r] = end]
  <2>2. /\ fate[r] \in Alive /\ UNCHANGED <<orderVars, provider, unblock, active, phase>>
        /\ unblock = <<>>
    BY <1>2 DEF SessionDone, Typed, WorkflowOK
  <2>3. /\ \A q \in Requests \ {r} : f[q] = fate[q]
        /\ f[r] \in Over
    BY TypeHas DEF Typed
  <2>4. ToSet(unblock)' = {} /\ IsInjective(unblock)' /\ ToSet(unblock) = {}
    BY <2>2, Empty
  <2>5. CASE Lane(r) # None
    <3> SUFFICES ASSUME NEW l, l = Lane(r) PROVE Settled'
      OBVIOUS
    <3>1. l \in Lanes /\ f \in [Requests -> Fates] /\ ServeNext(l, f)
      BY <2>1, <2>5, LaneOfRequest DEF Typed
    <3> HIDE DEF f
    <3>2. \A q \in Requests : f[q] \in Alive => Lane(q) # l
      BY <2>2, <2>3, <3>1 DEF Settled, Claimed, Alive, Over
    <3>3. \A q \in Requests : f[q] # fate[q] => f[q] \in Over
      BY <2>3
    <3> QED
      BY <2>2, <2>4, <3>1, <3>2, <3>3, ServeNextSettled
  <2>6. CASE Lane(r) = None
    <3>1. fate' = f /\ UNCHANGED lanes
      BY <2>1, <2>6
    <3> HIDE DEF f
    <3>2. \A q \in Requests : fate'[q] \in Alive => fate[q] \in Alive
      BY <2>2, <2>3, <3>1
    <3> QED
      BY <2>2, <2>4, <3>1, <3>2, CalmSettled
  <2> QED
    BY <2>5, <2>6
<1>3. ASSUME NEW ready \in BOOLEAN, FirstPoll(ready) PROVE Settled'
  <2> SUFFICES ASSUME NEW r, r = Head(fresh) PROVE Settled'
    OBVIOUS
  <2>1. UNCHANGED <<orderVars, provider, lanes>> /\ r \in Requests
    BY <1>3, TypeHas DEF Typed, FirstPoll
  <2>2. CASE ready /\ fate[r] = "running"
    <3>1. "responded" \in Over /\ fate[r] \in Alive /\ Finish(r)
      BY <1>3, <2>2 DEF FirstPoll, Over, Alive
    <3> QED
      BY <2>1, <3>1, ReleaseSettled DEF Finish
  <2>3. CASE ~(ready /\ fate[r] = "running")
    <3>1. UNCHANGED <<fate, unblock>>
      BY <1>3, <2>3 DEF FirstPoll
    <3> QED
      BY <2>1, <3>1, CalmSettled DEF Settled
  <2> QED
    BY <2>2, <2>3
<1>4. ASSUME NEW r \in Requests, TaskDone(r) PROVE Settled'
  <2>1. "responded" \in Over /\ fate[r] \in Alive /\ Finish(r)
        /\ UNCHANGED <<orderVars, provider, lanes>>
    BY <1>4 DEF TaskDone, Over, Alive
  <2> QED
    BY <2>1, ReleaseSettled DEF Finish
<1>5. ASSUME NEW r \in Requests, TaskStopped(r) PROVE Settled'
  <2>1. PICK end \in Over : fate' = [fate EXCEPT ![r] = end]
    BY <1>5, TypeHas DEF Typed, TaskStopped, Over
  <2>2. fate[r] \in Alive /\ Release(r) /\ UNCHANGED <<orderVars, provider, lanes>>
    BY <1>5 DEF TaskStopped, Alive
  <2> QED
    BY <2>1, <2>2, ReleaseSettled
<1>6. ASSUME DisposeInputs, provider' # "alive" \/ UNCHANGED provider,
             UNCHANGED <<orderVars, lanes, unblock, phase>>
      PROVE  Settled'
  <2>1. \A r \in Requests : fate'[r] \in Alive => fate[r] \in Alive
    BY <1>6 DEF DisposeInputs, Settled, Alive
  <2> QED
    BY <1>6, <2>1, CalmSettled DEF Settled
<1>7. CASE ServeNobody
  BY <1>6, <1>7 DEF ServeNobody
<1>8. CASE NoticeDespawn
  BY <1>6, <1>8 DEF NoticeDespawn
<1>9. CASE NextPhase
  <2>1. UNCHANGED <<orderVars, provider, lanes, fate, unblock>> /\ (phase' = "queue" => unblock = <<>>)
    BY <1>9 DEF NextPhase
  <2> QED
    BY <2>1, CalmSettled DEF Settled
<1>10. CASE UNCHANGED vars
  <2>1. UNCHANGED <<orderVars, provider, lanes, fate, unblock, phase>>
    BY <1>10 DEF vars, orderVars
  <2> QED
    BY <2>1, CalmSettled DEF Settled
<1>11. CASE Despawn
  <2>1. \A r \in Requests : fate'[r] \in Alive => fate[r] \in Alive
    BY <1>11 DEF Despawn, Settled, Alive
  <2>2. UNCHANGED <<orderVars, unblock, phase>> /\ provider' # "alive"
    BY <1>11 DEF Despawn
  <2> QED
    BY <2>1, <2>2, CalmSettled DEF Settled
<1>12. ASSUME NEW s \in Sessions, CleanScope(s) PROVE Settled'
  BY <1>12, CleanSettled DEF CleanScope
<1>13. ASSUME NEW n \in Nodes, NEW s \in Sessions, Trim(n, s) PROVE Settled'
  BY <1>13, CleanSettled DEF Trim
<1> QED
  BY <1>1, <1>2, <1>3, <1>4, <1>5, <1>7, <1>8, <1>9, <1>10, <1>11, <1>12, <1>13, RequestSettled,
     ServeSettled DEF Next, FlushStep

LEMMA AlwaysSettled ==
    Spec /\ NobodyGoneIsSupplanted => [](Typed /\ Book /\ Settled)
<1>1. /\ Typed /\ Book /\ Settled /\ [Next]_vars
      /\ [\A r \in Requests : Serve(r) => ~SupplantsGone(r)]_vars
      => Settled'
  <2> SUFFICES ASSUME Typed, Book, Settled, [Next]_vars,
                      [\A r \in Requests : Serve(r) => ~SupplantsGone(r)]_vars
               PROVE  Settled'
    OBVIOUS
  <2>1. CASE UNCHANGED vars
    <3>1. UNCHANGED <<orderVars, provider, lanes, fate, unblock>>
      BY <2>1 DEF vars, orderVars
    <3> QED
      BY <3>1, CalmSettled DEF Settled
  <2>2. CASE \A r \in Requests : Serve(r) => ~SupplantsGone(r)
    BY <2>2, StepSettled
  <2> QED
    BY <2>1, <2>2
<1> QED
  BY <1>1, InitTyped, InitBook, InitSettled, StepTyped, StepBook, PTL
     DEF Spec, NobodyGoneIsSupplanted

\* Requests of one lane exclude each other until one is supplanted whose task is
\* gone already: nothing else breaks it, whatever is stopped, cleaned, trimmed or
\* despawned, and whether tasks are ready at once or not.  (That does break it, as
\* run service_exclusion shows.)
THEOREM RequestsExcludeEachOther ==
    Spec /\ NobodyGoneIsSupplanted => []OneAtATime
<1>1. Typed /\ Settled => OneAtATime
  <2> SUFFICES ASSUME Typed, Settled, NEW q \in Requests, NEW r \in Requests,
                      fate[q] \in Alive, fate[r] \in Alive, Lane(q) = Lane(r), Lane(q) # None
               PROVE  q = r
    BY DEF OneAtATime
  <2>1. Lane(q) \in Lanes
    BY LaneOfRequest DEF Typed
  <2> QED
    BY <2>1 DEF Settled, Claimed
<1> QED
  BY <1>1, AlwaysSettled, PTL

\* Without preempting requests nobody is supplanted, and they exclude each other
\* always.
THEOREM NobodyPreemptsExcludes ==
    ASSUME \A i \in Offered : ~i.preempt
    PROVE  Spec => []OneAtATime
<1> DEFINE Patient == \A r \in Requests : ~ins[r].preempt
<1>1. Init => Patient
  BY DEF Init
<1>2. Typed /\ Patient /\ [Next]_vars => Patient'
  <2> SUFFICES ASSUME Typed, Patient, [Next]_vars PROVE Patient'
    OBVIOUS
  <2>1. ASSUME NEW i \in Offered, Request(i) PROVE Patient'
    <3>1. \A r \in Requests : ins'[r] = ins[r] \/ ins'[r] = i
      BY <2>1, TypeHas DEF Typed, Request
    <3> QED
      BY <2>1, <3>1
  <2>2. CASE UNCHANGED ins
    BY <2>2
  <2> QED
    BY <2>1, <2>2 DEF Next, FlushStep, Serve, ServeNobody, UnblockNext, FirstPoll, NoticeDespawn,
       NextPhase, TaskDone, TaskStopped, SessionDone, CleanScope, Trim, Clean, Despawn, vars,
       orderVars
<1>3. Patient => \A r \in Requests : Serve(r) => ~SupplantsGone(r)
  BY Empty DEF SupplantsGone, Supplanted
<1>4. Spec => NobodyGoneIsSupplanted
  BY <1>1, <1>2, <1>3, InitTyped, StepTyped, PTL DEF Spec, NobodyGoneIsSupplanted
<1> QED
  BY <1>4, RequestsExcludeEachOther, PTL

-----------------------------------------------------------------------------
(* The lanes keep the contract of LaneContract *)

LEMMA ContractWithout == \A q, gone : Contract!Without(q, gone) = Without(q, gone)
BY DEF Contract!Without, Without, Contract!Kept, Kept

LEMMA ContractToSet == \A q : Contract!ToSet(q) = ToSet(q)
BY DEF Contract!ToSet, ToSet

\* Who is served: the one of the lane that is alive.
ServingIs(l) ==
    /\ \A r \in Requests : fate[r] \in Alive /\ Lane(r) = l => Serving(l) = r
    /\ (\A r \in Requests : ~(fate[r] \in Alive /\ Lane(r) = l)) => Serving(l) = None

LEMMA ServingOfLane == Settled => \A l \in Lanes : ServingIs(l)
<1> SUFFICES ASSUME Settled, NEW l \in Lanes PROVE ServingIs(l)
  OBVIOUS
<1>1. ASSUME NEW r \in Requests, fate[r] \in Alive, Lane(r) = l PROVE Serving(l) = r
  <2>1. \A q \in Requests : fate[q] \in Alive /\ Lane(q) = l => q = r
    BY <1>1 DEF Settled, Claimed
  <2> QED
    BY <1>1, <2>1 DEF Serving
<1>2. ASSUME \A r \in Requests : ~(fate[r] \in Alive /\ Lane(r) = l) PROVE Serving(l) = None
  BY <1>2 DEF Serving
<1> QED
  BY <1>1, <1>2 DEF ServingIs

LEMMA ServingOfLaneThen == Settled' => \A l \in Lanes : ServingIs(l)'
<1>1. (Settled => \A l \in Lanes : ServingIs(l))'
  BY ServingOfLane, PTL
<1> QED
  BY <1>1

Served == [l \in Lanes |-> Serving(l)]
Waiting == [l \in Lanes |-> lanes[l].queue]

ContractStep == [Contract!Next]_(Contract!vars)

LEMMA ContractVars == Contract!vars = <<Served, Waiting>> /\ Contract!vars' = <<Served', Waiting'>>
BY DEF Contract!vars, Served, Waiting

\* Who is served after a step, for a lane that the step begins nobody in and
\* where nobody ends.
LEMMA ServedSame ==
    ASSUME Settled, Settled', NEW l \in Lanes,
           \A r \in Requests : (fate'[r] \in Alive /\ Lane(r)' = l) <=> (fate[r] \in Alive /\ Lane(r) = l)
    PROVE  Serving(l)' = Serving(l)
<1>1. ServingIs(l) /\ ServingIs(l)'
  BY ServingOfLane, ServingOfLaneThen
<1>2. CASE \E r \in Requests : fate[r] \in Alive /\ Lane(r) = l
  BY <1>1, <1>2 DEF ServingIs
<1>3. CASE \A r \in Requests : ~(fate[r] \in Alive /\ Lane(r) = l)
  BY <1>1, <1>3 DEF ServingIs
<1> QED
  BY <1>2, <1>3

\* The same for the one that is served then, and for an idle lane.
LEMMA ServedThen ==
    ASSUME Settled', UNCHANGED orderVars, NEW l \in Lanes
    PROVE  /\ \A r \in Requests : fate'[r] \in Alive /\ Lane(r) = l => Serving(l)' = r
           /\ (\A r \in Requests : ~(fate'[r] \in Alive /\ Lane(r) = l)) => Serving(l)' = None
<1>2. ServingIs(l)'
  BY ServingOfLaneThen
<1>3. \A r : Lane(r)' = Lane(r)
  BY LaneSame
<1> QED
  BY <1>2, <1>3 DEF ServingIs

LEMMA ServedNow ==
    ASSUME Settled, NEW l \in Lanes
    PROVE  /\ \A r \in Requests : fate[r] \in Alive /\ Lane(r) = l => Serving(l) = r
           /\ (\A r \in Requests : ~(fate[r] \in Alive /\ Lane(r) = l)) => Serving(l) = None
           /\ Serving(l) # None => /\ Serving(l) \in Requests
                                   /\ fate[Serving(l)] \in Alive /\ Lane(Serving(l)) = l
<1>1. ServingIs(l)
  BY ServingOfLane
<1> QED
  BY <1>1 DEF ServingIs

-----------------------------------------------------------------------------
(* Steps of the contract *)

LEMMA AsStutter ==
    ASSUME \A l \in Lanes : Serving(l)' = Serving(l) /\ lanes'[l].queue = lanes[l].queue
    PROVE  ContractStep
<1>1. Served' = Served /\ Waiting' = Waiting
  BY DEF Served, Waiting
<1> QED
  BY <1>1, ContractVars DEF ContractStep

LEMMA AsEnter ==
    ASSUME NEW l \in Lanes, NEW r \in Requests,
           Serving(l) = None, lanes[l].queue = <<>>, Serving(l)' = r,
           \A m \in Lanes \ {l} : Serving(m)' = Serving(m),
           \A m \in Lanes : lanes'[m].queue = lanes[m].queue
    PROVE  ContractStep
<1>1. Served' = [Served EXCEPT ![l] = r] /\ Waiting' = Waiting
  BY DEF Served, Waiting
<1>2. Served[l] = None /\ Waiting[l] = <<>>
  BY DEF Served, Waiting
<1>3. Contract!Enter(l, r)
  BY <1>1, <1>2 DEF Contract!Enter, Served, Waiting
<1> QED
  BY <1>3 DEF ContractStep, Contract!Next

LEMMA AsJoin ==
    ASSUME Typed, NEW l \in Lanes, NEW r \in Requests, NEW gone,
           r \notin ToSet(lanes[l].queue), r # Serving(l),
           lanes'[l].queue = Append(Without(lanes[l].queue, gone), r),
           \A m \in Lanes : Serving(m)' = Serving(m),
           \A m \in Lanes \ {l} : lanes'[m].queue = lanes[m].queue
    PROVE  ContractStep
<1> SUFFICES ASSUME NEW left, left = gone \cap ToSet(lanes[l].queue) PROVE ContractStep
  OBVIOUS
<1>1. lanes[l].queue \in Seq(Requests)
  BY TypeHas DEF Typed, LaneOf
<1>2. Without(lanes[l].queue, gone) = Without(lanes[l].queue, left)
  BY <1>1, WithoutSame
<1>3. Without(lanes[l].queue, left) = Contract!Without(lanes[l].queue, left)
  BY ContractWithout
<1>4. left \in SUBSET ToSet(Waiting[l]) /\ Waiting[l] = lanes[l].queue /\ Served[l] = Serving(l)
  BY DEF Waiting, Served
<1>5. Waiting' = [Waiting EXCEPT ![l] = Append(Contract!Without(@, left), r)] /\ Served' = Served
  BY <1>2, <1>3 DEF Waiting, Served
<1>6. Contract!Join(l, r, left)
  BY <1>4, <1>5, ContractToSet DEF Contract!Join, Waiting, Served
<1>7. left \in SUBSET Contract!ToSet([m \in Lanes |-> lanes[m].queue][l])
  BY <1>4, ContractToSet DEF Waiting
<1>8. \E m \in Lanes, q \in Requests :
         \E g \in SUBSET Contract!ToSet([k \in Lanes |-> lanes[k].queue][m]) :
            Contract!Join(m, q, g) \/ Contract!Replace(m, q, g)
  BY <1>6, <1>7, Zenon
<1> QED
  BY <1>8 DEF ContractStep, Contract!Next

LEMMA AsAdvance ==
    ASSUME NEW l \in Lanes, lanes[l].queue # <<>>,
           Serving(l)' = Head(lanes[l].queue), lanes'[l].queue = Tail(lanes[l].queue),
           \A m \in Lanes \ {l} : Serving(m)' = Serving(m) /\ lanes'[m].queue = lanes[m].queue
    PROVE  ContractStep
<1>1. Waiting[l] = lanes[l].queue
  BY DEF Waiting
<1>2. /\ Served' = [m \in Lanes |-> IF m \notin {l} THEN Served[m]
                                   ELSE IF Waiting[m] = <<>> THEN None ELSE Head(Waiting[m])]
      /\ Waiting' = [m \in Lanes |-> IF m \in {l} /\ Waiting[m] # <<>>
                                    THEN Tail(Waiting[m]) ELSE Waiting[m]]
  BY <1>1 DEF Served, Waiting
<1>3. Contract!Advance({l})
  BY <1>2 DEF Contract!Advance, Served, Waiting
<1> QED
  BY <1>3 DEF ContractStep, Contract!Next

LEMMA AsLeave ==
    ASSUME Typed, NEW gone,
           \A r \in gone : \E l \in Lanes :
              r \in ToSet(lanes[l].queue) \/ (r = Serving(l) /\ r # None),
           \A l \in Lanes : /\ Serving(l)' = (IF Serving(l) \in gone THEN None ELSE Serving(l))
                            /\ lanes'[l].queue = Without(lanes[l].queue, gone)
    PROVE  ContractStep
<1>1. gone \in SUBSET UNION {ToSet(Waiting[l]) \cup ({Served[l]} \ {None}) : l \in Lanes}
  BY DEF Served, Waiting
<1>2. /\ Served' = [l \in Lanes |-> IF Served[l] \in gone THEN None ELSE Served[l]]
      /\ Waiting' = [l \in Lanes |-> Contract!Without(Waiting[l], gone)]
  BY ContractWithout DEF Served, Waiting
<1>3. Contract!Leave(gone)
  BY <1>2 DEF Contract!Leave, Served, Waiting
<1>4. gone \in SUBSET UNION {ToSet([m \in Lanes |-> lanes[m].queue][l])
                               \cup ({[m \in Lanes |-> Serving(m)][l]} \ {None}) : l \in Lanes}
  BY <1>1 DEF Served, Waiting
<1> QED
  BY <1>3, <1>4, ContractToSet DEF ContractStep, Contract!Next

-----------------------------------------------------------------------------
(* Every step is one of the contract's *)

\* Nobody of a lane begins or ends, and no queue changes.
LEMMA CalmContract ==
    ASSUME Settled, Settled', UNCHANGED orderVars,
           \A r \in Requests : Lane(r) \in Lanes => (fate'[r] \in Alive <=> fate[r] \in Alive),
           \A l \in Lanes : lanes'[l].queue = lanes[l].queue
    PROVE  ContractStep
<1>1. \A r : Lane(r)' = Lane(r)
  BY LaneSame
<1>2. ASSUME NEW l \in Lanes PROVE Serving(l)' = Serving(l)
  BY <1>1, ServedSame
<1> QED
  BY <1>2, AsStutter

\* r ends, and no queue changes.
LEMMA EndContract ==
    ASSUME Typed, Book, Settled, Settled', UNCHANGED orderVars, NEW r \in Requests,
           fate[r] \in Alive,
           \A q \in Requests : fate'[q] \in Alive <=> fate[q] \in Alive /\ q # r,
           \A l \in Lanes : lanes'[l].queue = lanes[l].queue
    PROVE  ContractStep
<1>1. CASE Lane(r) \notin Lanes
  BY <1>1, CalmContract
<1>2. CASE Lane(r) \in Lanes
  <2>1. \A q : Lane(q)' = Lane(q)
    BY LaneSame
  <2>2. ASSUME NEW l \in Lanes
        PROVE  /\ Serving(l)' = (IF Serving(l) \in {r} THEN None ELSE Serving(l))
               /\ lanes'[l].queue = Without(lanes[l].queue, {r})
    <3>1. lanes[l].queue \in Seq(Requests)
      BY TypeHas DEF Typed, LaneOf
    <3>2. ToSet(lanes[l].queue) \cap {r} = {}
      BY DEF Book, Booked, Alive
    <3>3. lanes'[l].queue = Without(lanes[l].queue, {r})
      BY <3>1, <3>2, WithoutNone
    <3>4. CASE Lane(r) = l
      <4>1. \A q \in Requests : ~(fate'[q] \in Alive /\ Lane(q) = l)
        BY <3>4 DEF Settled, Claimed
      <4>2. Serving(l) = r
        BY <3>4, ServedNow
      <4> QED
        BY <3>3, <4>1, <4>2, ServedThen
    <3>5. CASE Lane(r) # l
      <4>1. Serving(l) # r
        BY <3>5, ServedNow, NoNames
      <4>2. Serving(l)' = Serving(l)
        BY <2>1, <3>5, ServedSame
      <4> QED
        BY <3>3, <4>1, <4>2
    <3> QED
      BY <3>4, <3>5
  <2>3. Serving(Lane(r)) = r
    BY <1>2, ServedNow
  <2>4. \A q \in {r} : \E l \in Lanes : q \in ToSet(lanes[l].queue) \/ (q = Serving(l) /\ q # None)
    BY <1>2, <2>3, NoNames
  <2> QED
    BY <2>2, <2>4, AsLeave
<1> QED
  BY <1>1, <1>2

\* The next one of lane l begins, if need be as r ends.
LEMMA ServeNextContract ==
    ASSUME Typed, Book, Settled, Settled', NEW l \in Lanes, NEW f \in [Requests -> Fates], ServeNext(l, f),
           UNCHANGED orderVars, provider = "alive", lanes[l].queue # <<>>,
           \A r \in Requests : Lane(r) # l => f[r] = fate[r]
    PROVE  ContractStep
<1> DEFINE next == PopNext(lanes[l])
           h == next.delivering
<1>1. lanes \in [Lanes -> LaneOf(Requests)] /\ Booked(l)
  BY TypeHas DEF Typed, Book
<1>2. h \in Requests /\ Lane(h) = l /\ h # None
  BY <1>1, NextBegins
<1>3. h = Head(lanes[l].queue) /\ next.queue = Tail(lanes[l].queue)
  BY <1>1, PopLane
<1>4. lanes' = [lanes EXCEPT ![l] = next] /\ Begin(h, f)
  BY DEF ServeNext
<1> HIDE DEF next
<1>5. \A q \in Requests : fate'[q] = IF q = h THEN "running" ELSE f[q]
  BY <1>2, <1>4, BeginType DEF Typed
<1>6. /\ lanes'[l].queue = Tail(lanes[l].queue)
      /\ \A m \in Lanes \ {l} : lanes'[m].queue = lanes[m].queue
  BY <1>1, <1>3, <1>4
<1> HIDE DEF h
<1>7. fate'[h] \in Alive
  BY <1>2, <1>5 DEF Alive
<1>8. Serving(l)' = h
  BY <1>2, <1>7, ServedThen
<1>9. \A q : Lane(q)' = Lane(q)
  BY LaneSame
<1>10. ASSUME NEW m \in Lanes \ {l} PROVE Serving(m)' = Serving(m)
  <2>1. \A q \in Requests : Lane(q) = m => fate'[q] = fate[q]
    BY <1>2, <1>5
  <2> QED
    BY <1>9, <2>1, ServedSame
<1> QED
  BY <1>3, <1>6, <1>8, <1>10, AsAdvance

LEMMA ServeContract ==
    ASSUME Typed, Book, Settled, Settled', NEW r \in Requests, Serve(r)
    PROVE  ContractStep
<1> SUFFICES ASSUME NEW l, l = Lane(r) PROVE ContractStep
  OBVIOUS
<1> DEFINE at == lanes[l].delivering
           gone == Supplanted(ins, lanes[l], r)
           stop == IF at \in gone THEN Stopped(at) ELSE {}
<1>1. l \in Lanes \cup {None} /\ fate[r] = "input" /\ provider = "alive"
      /\ UNCHANGED orderVars
  BY LaneOfRequest DEF Typed, Serve
<1>2. lanes \in [Lanes -> LaneOf(Requests)]
  BY TypeHas DEF Typed
<1>3. \A q : Lane(q)' = Lane(q)
  BY LaneSame, <1>1
<1>4. CASE l = None
  <2>1. Begin(r, fate) /\ UNCHANGED lanes
    BY <1>4 DEF Serve
  <2>2. \A q \in Requests : fate'[q] = IF q = r THEN "running" ELSE fate[q]
    BY <2>1, BeginType, TypeHas DEF Typed
  <2>3. \A q \in Requests : Lane(q) \in Lanes => (fate'[q] \in Alive <=> fate[q] \in Alive)
    BY <1>4, <2>2, NoNames
  <2> QED
    BY <1>1, <2>1, <2>3, CalmContract
<1>5. CASE l # None /\ at = None
  <2>1. lanes' = [lanes EXCEPT ![l] = Insert(ins, lanes[l], r)] /\ Begin(r, fate)
    BY <1>5 DEF Serve
  <2>2. Insert(ins, lanes[l], r) = [lanes[l] EXCEPT !.delivering = r]
    BY <1>5 DEF Insert
  <2>3. \A q \in Requests : fate'[q] = IF q = r THEN "running" ELSE fate[q]
    BY <2>1, BeginType, TypeHas DEF Typed
  <2>4. l \in Lanes /\ lanes[l].queue = <<>>
        /\ \A m \in Lanes : lanes'[m].queue = lanes[m].queue
    BY <1>1, <1>2, <1>5, <2>1, <2>2 DEF Book, Booked, LaneOf
  <2>5. \A q \in Requests : ~(fate[q] \in Alive /\ Lane(q) = l)
    BY <1>1, <1>5, <2>4, NoNames DEF Settled, Claimed
  <2>6. Serving(l) = None
    BY <2>4, <2>5, ServedNow
  <2>7. fate'[r] \in Alive
    BY <2>3 DEF Alive
  <2>8. Serving(l)' = r
    BY <1>1, <2>4, <2>7, ServedThen
  <2>9. ASSUME NEW m \in Lanes \ {l} PROVE Serving(m)' = Serving(m)
    BY <1>3, <2>3, ServedSame
  <2> QED
    BY <2>4, <2>6, <2>8, <2>9, AsEnter
<1>6. CASE l # None /\ at # None
  <2>1. /\ lanes' = [lanes EXCEPT ![l] = Insert(ins, lanes[l], r)]
        /\ fate' = [q \in Requests |-> IF q = r THEN "queued"
                                       ELSE IF q \in stop THEN "stopping"
                                       ELSE IF q \in gone \ {at} THEN "disposed"
                                       ELSE fate[q]]
    BY <1>6 DEF Serve
  <2>2. l \in Lanes /\ lanes[l] \in LaneOf(Requests) /\ Booked(l)
    BY <1>1, <1>2, <1>6 DEF Book
  <2>3. /\ Insert(ins, lanes[l], r).queue = Append(Without(lanes[l].queue, gone), r)
        /\ gone \subseteq ToSet(lanes[l].queue) \cup {at}
    BY <1>6, <2>2, InsertLane
  <2>4. \A q \in stop : fate[q] = "running"
    BY DEF Stopped
  <2>5. ToSet(lanes[l].queue) = {q \in Requests : fate[q] = "queued" /\ Lane(q) = l}
    BY <2>2 DEF Booked
  <2>6. /\ lanes'[l].queue = Append(Without(lanes[l].queue, gone), r)
        /\ \A m \in Lanes \ {l} : lanes'[m].queue = lanes[m].queue
    BY <1>2, <2>1, <2>2, <2>3
  <2> HIDE DEF gone, stop
  <2>7. \A q \in Requests : fate'[q] \in Alive <=> fate[q] \in Alive
    <3> TAKE q \in Requests
    <3>1. CASE fate[q] \in Alive
      <4>1. q # r /\ q \notin gone \ {at}
        BY <1>1, <2>3, <2>5, <3>1 DEF Alive
      <4> QED
        BY <2>1, <3>1, <4>1 DEF Alive
    <3>2. CASE fate[q] \notin Alive
      <4>1. q \notin stop
        BY <2>4, <3>2 DEF Alive
      <4> QED
        BY <2>1, <3>2, <4>1 DEF Alive
    <3> QED
      BY <3>1, <3>2
  <2>8. ASSUME NEW m \in Lanes PROVE Serving(m)' = Serving(m)
    BY <1>3, <2>7, ServedSame
  <2>9. r \notin ToSet(lanes[l].queue)
    BY <1>1, <2>5
  <2>10. r # Serving(l)
    <3>1. r # None /\ fate[r] \notin Alive
      BY <1>1, NoNames DEF Alive
    <3> QED
      BY <2>2, <3>1, ServedNow
  <2> QED
    BY <2>2, <2>6, <2>8, <2>9, <2>10, AsJoin
<1> QED
  BY <1>4, <1>5, <1>6

LEMMA CleanContract ==
    ASSUME Typed, Settled, Settled', NEW N, NEW s, Clean(N, s)
    PROVE  ContractStep
<1>1. PICK struck \in SUBSET {r \in Requests : fate[r] = "queued"} :
        /\ lanes' = [l \in Lanes |-> Strike(lanes[l], struck)]
        /\ \A r \in Requests :
              /\ r \in struck => fate'[r] \in Over
              /\ r \notin struck =>
                    \/ fate'[r] = fate[r]
                    \/ fate[r] = "input" /\ fate'[r] = "cleaned"
                    \/ fate[r] = "running" /\ fate'[r] = "cleaning"
                    \/ MayCleanTwice /\ fate[r] = "cleaning" /\ fate'[r] = "orphaned"
        /\ UNCHANGED <<orderVars, provider, fresh, unblock, phase>>
  BY CleanFates
<1>2. \A r \in struck : r \in Requests /\ fate[r] = "queued"
  BY <1>1
<1>3. \A r \in Requests : fate'[r] \in Alive <=> fate[r] \in Alive
  BY <1>1, <1>2 DEF Alive, Over
<1>4. SUFFICES ASSUME NEW gone, gone = {r \in struck : \E l \in Lanes : r \in ToSet(lanes[l].queue)}
               PROVE  ContractStep
  OBVIOUS
<1>5. ASSUME NEW l \in Lanes
      PROVE  /\ Serving(l)' = (IF Serving(l) \in gone THEN None ELSE Serving(l))
             /\ lanes'[l].queue = Without(lanes[l].queue, gone)
  <2>1. lanes[l] \in LaneOf(Requests) /\ lanes[l].queue \in Seq(Requests)
    BY TypeHas DEF Typed, LaneOf
  <2>2. lanes'[l].queue = Without(lanes[l].queue, struck)
    BY <1>1, <2>1, StrikeLane
  <2>3. Without(lanes[l].queue, struck) = Without(lanes[l].queue, gone)
    <3>1. ToSet(lanes[l].queue) \cap struck = ToSet(lanes[l].queue) \cap gone
      BY <1>4
    <3> QED
      BY <2>1, <3>1, WithoutSame
  <2>4. \A q : Lane(q)' = Lane(q)
    BY <1>1, LaneSame
  <2>5. Serving(l)' = Serving(l)
    BY <1>3, <2>4, ServedSame
  <2>6. Serving(l) \notin gone
    BY <1>2, <1>4, NoNames, ServedNow DEF Alive
  <2> QED
    BY <2>2, <2>3, <2>5, <2>6
<1>6. \A r \in gone : \E l \in Lanes :
         r \in ToSet(lanes[l].queue) \/ (r = Serving(l) /\ r # None)
  BY <1>4
<1> QED
  BY <1>5, <1>6, AsLeave

LEMMA DespawnContract ==
    ASSUME Typed, Book, Settled, Settled', Despawn
    PROVE  ContractStep
<1>1. /\ lanes' = [l \in Lanes |-> EmptyLane] /\ UNCHANGED orderVars
      /\ \A r \in Requests : fate'[r] = IF fate[r] = "queued" THEN "lost" ELSE fate[r]
  BY DEF Despawn
<1>2. SUFFICES ASSUME NEW gone, gone = UNION {ToSet(lanes[l].queue) : l \in Lanes}
               PROVE  ContractStep
  OBVIOUS
<1>3. \A r \in gone : r \in Requests /\ fate[r] = "queued"
  BY <1>2 DEF Book, Booked
<1>4. ASSUME NEW l \in Lanes
      PROVE  /\ Serving(l)' = (IF Serving(l) \in gone THEN None ELSE Serving(l))
             /\ lanes'[l].queue = Without(lanes[l].queue, gone)
  <2>1. lanes[l].queue \in Seq(Requests) /\ ToSet(lanes[l].queue) \subseteq gone
    BY <1>2, TypeHas DEF Typed, LaneOf
  <2>2. Without(lanes[l].queue, gone) = <<>> /\ lanes'[l].queue = <<>>
    BY <1>1, <2>1, WithoutAll DEF EmptyLane
  <2>3. \A q : Lane(q)' = Lane(q)
    BY <1>1, LaneSame
  <2>4. Serving(l)' = Serving(l)
    BY <1>1, <2>3, ServedSame DEF Alive
  <2>5. Serving(l) \notin gone
    BY <1>3, NoNames, ServedNow DEF Alive
  <2> QED
    BY <2>2, <2>4, <2>5
<1>5. \A r \in gone : \E l \in Lanes :
         r \in ToSet(lanes[l].queue) \/ (r = Serving(l) /\ r # None)
  BY <1>2
<1> QED
  BY <1>4, <1>5, AsLeave

LEMMA RequestContract ==
    ASSUME Typed, Book, Settled, Settled', NEW i \in Offered, Request(i)
    PROVE  ContractStep
<1> DEFINE n == made + 1
<1>1. n \in Requests /\ fate[n] = "unmade" /\ UNCHANGED <<mode, lanes>>
  BY NoNames, TypeHas DEF Typed, Request, Requests, Book, Unmade
<1>2. \A r \in Requests \ {n} : fate'[r] = fate[r] /\ Lane(r)' = Lane(r)
  BY <1>1, TypeHas DEF Typed, Request, Lane
<1>3. fate'[n] = "input"
  BY <1>1, TypeHas DEF Typed, Request
<1> HIDE DEF n
<1>4. ASSUME NEW l \in Lanes PROVE Serving(l)' = Serving(l)
  <2>1. \A r \in Requests : (fate'[r] \in Alive /\ Lane(r)' = l) <=> (fate[r] \in Alive /\ Lane(r) = l)
    BY <1>1, <1>2, <1>3 DEF Alive
  <2> QED
    BY <2>1, ServedSame
<1> QED
  BY <1>1, <1>4, AsStutter

LEMMA StepContract ==
    ASSUME Typed, Book, Settled, Settled', [Next]_vars
    PROVE  ContractStep
<1>1. CASE UnblockNext
  <2> DEFINE l == Head(unblock)
  <2>1. /\ unblock \in Seq(Lanes) /\ unblock # <<>> /\ ServeNext(l, fate)
        /\ UNCHANGED orderVars /\ fate \in [Requests -> Fates]
    BY <1>1, TypeHas DEF Typed, UnblockNext
  <2>2. l \in Lanes
    BY <2>1
  <2> HIDE DEF l
  <2>3. CASE provider = "alive" /\ lanes[l].queue # <<>>
    BY <2>1, <2>2, <2>3, ServeNextContract
  <2>4. CASE provider = "alive" /\ lanes[l].queue = <<>>
    <3>1. PopNext(lanes[l]) = EmptyLane /\ EmptyLane.delivering = None /\ EmptyLane.queue = <<>>
      BY <2>4 DEF PopNext, EmptyLane
    <3>2. lanes' = [lanes EXCEPT ![l] = EmptyLane] /\ Begin(None, fate)
      BY <2>1, <2>4, <3>1 DEF ServeNext
    <3>3. \A q \in Requests : fate'[q] = fate[q]
      BY <2>1, <3>2, BeginType, NoNames DEF Typed
    <3>4. \A m \in Lanes : lanes'[m].queue = lanes[m].queue
      BY <2>4, <3>1, <3>2, TypeHas DEF Typed
    <3> QED
      BY <2>1, <3>3, <3>4, CalmContract
  <2>5. CASE provider # "alive"
    <3>1. UNCHANGED <<fate, lanes>>
      BY <2>1, <2>5 DEF ServeNext
    <3> QED
      BY <2>1, <3>1, CalmContract
  <2> QED
    BY <2>3, <2>4, <2>5
<1>2. ASSUME NEW r \in Requests, SessionDone(r) PROVE ContractStep
  <2>1. PICK end \in Over :
           LET f == [fate EXCEPT ![r] = end]
           IN  /\ f \in [Requests -> Fates]
               /\ \/ Lane(r) # None /\ ServeNext(Lane(r), f)
                  \/ Lane(r) = None /\ fate' = f /\ UNCHANGED <<lanes, fresh>>
    BY <1>2, SessionDoneHas
  <2> DEFINE f == [fate EXCEPT ![r] = end]
  <2>2. /\ fate[r] \in Alive /\ UNCHANGED orderVars /\ provider = "alive"
    BY <1>2, TypeHas DEF SessionDone, Typed, WorkflowOK
  <2>3. /\ \A q \in Requests \ {r} : f[q] = fate[q]
        /\ f[r] \in Over
    BY TypeHas DEF Typed
  <2>4. \A q \in Requests : f[q] \in Alive <=> fate[q] \in Alive /\ q # r
    BY <2>3 DEF Alive, Over
  <2>5. CASE Lane(r) # None
    <3> SUFFICES ASSUME NEW l, l = Lane(r) PROVE ContractStep
      OBVIOUS
    <3>1. l \in Lanes /\ f \in [Requests -> Fates] /\ ServeNext(l, f)
      BY <2>1, <2>5, LaneOfRequest DEF Typed
    <3> HIDE DEF f
    <3>2. CASE lanes[l].queue # <<>>
      <4>1. \A q \in Requests : Lane(q) # l => f[q] = fate[q]
        BY <2>3
      <4> QED
        BY <2>2, <3>1, <3>2, <4>1, ServeNextContract
    <3>3. CASE lanes[l].queue = <<>>
      <4>1. PopNext(lanes[l]) = EmptyLane /\ EmptyLane.delivering = None /\ EmptyLane.queue = <<>>
        BY <3>3 DEF PopNext, EmptyLane
      <4>2. lanes' = [lanes EXCEPT ![l] = EmptyLane] /\ Begin(None, f)
        BY <2>2, <3>1, <4>1 DEF ServeNext
      <4>3. \A q \in Requests : fate'[q] = f[q]
        BY <3>1, <4>2, BeginType, NoNames DEF Typed
      <4>4. \A m \in Lanes : lanes'[m].queue = lanes[m].queue
        BY <3>3, <4>1, <4>2, TypeHas DEF Typed
      <4> QED
        BY <2>2, <2>4, <4>3, <4>4, EndContract
    <3> QED
      BY <3>2, <3>3
  <2>6. CASE Lane(r) = None
    <3>1. fate' = f /\ UNCHANGED lanes
      BY <2>1, <2>6
    <3> HIDE DEF f
    <3> QED
      BY <2>2, <2>4, <3>1, EndContract
  <2> QED
    BY <2>5, <2>6
<1>3. ASSUME NEW r \in Requests, fate[r] \in Alive, NEW end \in Over, fate' = [fate EXCEPT ![r] = end],
             UNCHANGED <<orderVars, lanes>>
      PROVE  ContractStep
  <2>1. \A q \in Requests : fate'[q] \in Alive <=> fate[q] \in Alive /\ q # r
    BY <1>3, TypeHas DEF Typed, Alive, Over
  <2> QED
    BY <1>3, <2>1, EndContract
<1>4. ASSUME NEW r \in Requests, TaskDone(r) PROVE ContractStep
  <2>1. "responded" \in Over /\ fate[r] \in Alive /\ Finish(r)
        /\ UNCHANGED <<orderVars, lanes>>
    BY <1>4 DEF TaskDone, Over, Alive
  <2> QED
    BY <1>3, <2>1 DEF Finish
<1>5. ASSUME NEW r \in Requests, TaskStopped(r) PROVE ContractStep
  <2>1. PICK end \in Over : fate' = [fate EXCEPT ![r] = end]
    BY <1>5, TypeHas DEF Typed, TaskStopped, Over
  <2>2. fate[r] \in Alive /\ UNCHANGED <<orderVars, lanes>>
    BY <1>5 DEF TaskStopped, Alive
  <2> QED
    BY <1>3, <2>1, <2>2
<1>6. ASSUME UNCHANGED <<orderVars, lanes>>, fate' = fate \/ DisposeInputs PROVE ContractStep
  <2>1. \A r \in Requests : fate'[r] \in Alive <=> fate[r] \in Alive
    BY <1>6 DEF DisposeInputs, Alive
  <2> QED
    BY <1>6, <2>1, CalmContract
<1>7. CASE ServeNobody \/ NoticeDespawn
  BY <1>6, <1>7 DEF ServeNobody, NoticeDespawn
<1>8. CASE NextPhase
  BY <1>6, <1>8 DEF NextPhase
<1>9. CASE UNCHANGED vars
  BY <1>6, <1>9 DEF vars, orderVars
<1>10. ASSUME NEW ready \in BOOLEAN, FirstPoll(ready) PROVE ContractStep
  <2> SUFFICES ASSUME NEW r, r = Head(fresh) PROVE ContractStep
    OBVIOUS
  <2>1. UNCHANGED <<orderVars, lanes>> /\ r \in Requests
    BY <1>10, TypeHas DEF Typed, FirstPoll
  <2>2. CASE ready /\ fate[r] = "running"
    <3>1. "responded" \in Over /\ fate[r] \in Alive /\ Finish(r)
      BY <1>10, <2>2 DEF FirstPoll, Over, Alive
    <3> QED
      BY <1>3, <2>1, <3>1 DEF Finish
  <2>3. CASE ~(ready /\ fate[r] = "running")
    <3>1. UNCHANGED fate
      BY <1>10, <2>3 DEF FirstPoll
    <3> QED
      BY <1>6, <2>1, <3>1
  <2> QED
    BY <2>2, <2>3
<1>11. ASSUME NEW s \in Sessions, CleanScope(s) PROVE ContractStep
  BY <1>11, CleanContract DEF CleanScope
<1>12. ASSUME NEW n \in Nodes, NEW s \in Sessions, Trim(n, s) PROVE ContractStep
  BY <1>12, CleanContract DEF Trim
<1> QED
  BY <1>1, <1>2, <1>4, <1>5, <1>7, <1>8, <1>9, <1>10, <1>11, <1>12, ServeContract, RequestContract,
     DespawnContract DEF Next, FlushStep

\* Until then the lanes keep the contract as well: one request at a time, in the
\* order of arrival, and who is served next is who waited longest.
THEOREM LanesServeInOrder ==
    Spec /\ NobodyGoneIsSupplanted => ServesInOrder
<1>1. Init => Contract!Init
  <2> SUFFICES ASSUME Init PROVE Contract!Init
    OBVIOUS
  <2>1. \A l \in Lanes : Serving(l) = None /\ lanes[l].queue = <<>>
    BY DEF Init, Serving, Alive, EmptyLane
  <2> QED
    BY <2>1 DEF Contract!Init
<1>2. Typed /\ Book /\ Settled /\ Settled' /\ [Next]_vars => [Contract!Next]_(Contract!vars)
  BY StepContract DEF ContractStep
<1>3. Spec /\ NobodyGoneIsSupplanted => [](Typed /\ Book /\ Settled)
  BY AlwaysSettled
<1> QED
  BY <1>1, <1>2, <1>3, PTL DEF Spec, ServesInOrder, Contract!Spec
=============================================================================
