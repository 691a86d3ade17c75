----------------------------- MODULE ScopeProofs -----------------------------
(***************************************************************************)
(* Theorems about Scope, for any sessions, parents and cleanup workflows,   *)
(* and whatever the outer workflow may do unless a theorem says otherwise.  *)
(***************************************************************************)
EXTENDS Scope, QueueLemmas, FiniteSetTheorems

-----------------------------------------------------------------------------
(* Sequences *)

LEMMA SeqMore ==
    ASSUME NEW X, NEW Y, X \subseteq Y, NEW q \in Seq(X)
    PROVE  q \in Seq(Y)
OBVIOUS

LEMMA ConcatSet ==
    ASSUME NEW X, NEW p \in Seq(X), NEW q \in Seq(X)
    PROVE  /\ p \o q \in Seq(X)
           /\ ToSet(p \o q) = ToSet(p) \cup ToSet(q)
<1> DEFINE r == p \o q
<1>1. r \in Seq(X) /\ Len(r) = Len(p) + Len(q)
  OBVIOUS
<1>2. \A i \in 1..Len(p) : r[i] = p[i]
  OBVIOUS
<1>3. \A i \in 1..Len(q) : r[Len(p) + i] = q[i]
  OBVIOUS
<1>4. ASSUME NEW x \in ToSet(r) PROVE x \in ToSet(p) \cup ToSet(q)
  <2>1. PICK i \in 1..Len(r) : r[i] = x
    BY DEF ToSet
  <2>2. CASE i <= Len(p)
    BY <1>2, <2>1, <2>2 DEF ToSet
  <2>3. CASE i > Len(p)
    <3>1. i - Len(p) \in 1..Len(q) /\ Len(p) + (i - Len(p)) = i
      BY <1>1, <2>1, <2>3
    <3>2. r[i] = q[i - Len(p)]
      BY <1>3, <3>1
    <3> QED
      BY <2>1, <3>1, <3>2 DEF ToSet
  <2> QED
    BY <2>2, <2>3, <1>1
<1>5. ASSUME NEW x \in ToSet(p) PROVE x \in ToSet(r)
  <2>1. PICK i \in 1..Len(p) : p[i] = x
    BY DEF ToSet
  <2>2. i \in 1..Len(r) /\ r[i] = x
    BY <1>1, <1>2, <2>1
  <2> QED
    BY <2>2 DEF ToSet
<1>6. ASSUME NEW x \in ToSet(q) PROVE x \in ToSet(r)
  <2>1. PICK i \in 1..Len(q) : q[i] = x
    BY DEF ToSet
  <2>2. Len(p) + i \in 1..Len(r) /\ r[Len(p) + i] = x
    BY <1>1, <1>3, <2>1
  <2> QED
    BY <2>2 DEF ToSet
<1> HIDE DEF r
<1>7. ToSet(r) = ToSet(p) \cup ToSet(q)
  BY <1>4, <1>5, <1>6
<1> QED
  BY <1>1, <1>7 DEF r

LEMMA RepeatSet ==
    ASSUME NEW X, NEW x \in X, NEW n \in Nat
    PROVE  /\ [i \in 1..n |-> x] \in Seq(X)
           /\ \A y : y \in ToSet([i \in 1..n |-> x]) <=> y = x /\ n > 0
<1> DEFINE r == [i \in 1..n |-> x]
<1>1. r \in Seq(X) /\ Len(r) = n /\ \A i \in 1..n : r[i] = x
  OBVIOUS
<1> HIDE DEF r
<1>2. ASSUME NEW y PROVE y \in ToSet(r) <=> y = x /\ n > 0
  <2>1. y \in ToSet(r) => y = x /\ n > 0
    BY <1>1 DEF ToSet
  <2>2. n > 0 => 1 \in 1..Len(r) /\ r[1] = x
    BY <1>1
  <2> QED
    BY <2>1, <2>2 DEF ToSet
<1> QED
  BY <1>1, <1>2 DEF r

LEMMA RepeatOne ==
    ASSUME NEW X, NEW q \in Seq(X), NEW x \in X
    PROVE  /\ q \o [i \in 1..1 |-> x] = Append(q, x)
           /\ q \o [i \in 1..0 |-> x] = q
OBVIOUS

LEMMA LastFront ==
    ASSUME NEW X, NEW q \in Seq(X), q # <<>>
    PROVE  /\ Len(q) \in DOMAIN q /\ Last(q) = q[Len(q)] /\ Last(q) \in X
           /\ Front(q) \in Seq(X) /\ Len(Front(q)) = Len(q) - 1
           /\ \A i \in DOMAIN Front(q) : i \in DOMAIN q /\ i # Len(q) /\ Front(q)[i] = q[i]
<1>1. Len(q) \in Nat \ {0} /\ DOMAIN q = 1..Len(q) /\ \A i \in 1..Len(q) : q[i] \in X
  OBVIOUS
<1> DEFINE p == SubSeq(q, 1, Len(q) - 1)
<1>2. p \in Seq(X) /\ Len(p) = Len(q) - 1 /\ DOMAIN p = 1..(Len(q) - 1)
  BY <1>1
<1>3. \A i \in 1..(Len(q) - 1) : p[i] = q[i]
  BY <1>1
<1>4. Front(q) = p /\ Last(q) = q[Len(q)]
  BY DEF Front, Last
<1>5. Len(q) \in 1..Len(q) /\ 1..(Len(q) - 1) \subseteq 1..Len(q) /\ Len(q) \notin 1..(Len(q) - 1)
  BY <1>1
<1> HIDE DEF p
<1>6. Len(q) \in DOMAIN q /\ Last(q) = q[Len(q)] /\ Last(q) \in X
  BY <1>1, <1>4, <1>5
<1>7. Front(q) \in Seq(X) /\ Len(Front(q)) = Len(q) - 1
  BY <1>2, <1>4
<1>8. \A i \in DOMAIN Front(q) : i \in DOMAIN q /\ i # Len(q) /\ Front(q)[i] = q[i]
  BY <1>1, <1>2, <1>3, <1>4, <1>5
<1> QED
  BY <1>6, <1>7, <1>8

LEMMA LeastIndex ==
    ASSUME NEW I, I \subseteq Nat, I # {}
    PROVE  Min(I) \in I
<1>1. \E n \in I : \A m \in I : n <= m
  BY LeastNumber
<1> QED
  BY <1>1 DEF Min

-----------------------------------------------------------------------------
(* Types *)

Nodes == Inner \cup {"scope", "terminal"}

InputsOK(f) ==
    /\ f \in [Nodes -> Seq(Sessions \cup Parents)]
    /\ f["scope"] \in Seq(Parents)
    /\ \A node \in Inner \cup {"terminal"} : f[node] \in Seq(Sessions)

LEMMA InputsType == NodeTypeOK <=> InputsOK(inputs) /\ staging \subseteq Sessions
BY DEF NodeTypeOK, InputsOK, Nodes

LEMMA InputsTypeNext == NodeTypeOK' <=> InputsOK(inputs') /\ staging' \subseteq Sessions
BY DEF NodeTypeOK, InputsOK, Nodes

LEMMA SetInput ==
    ASSUME NEW f, InputsOK(f), NEW node \in Inner \cup {"terminal"}, NEW q \in Seq(Sessions)
    PROVE  /\ InputsOK([f EXCEPT ![node] = q])
           /\ [f EXCEPT ![node] = q][node] = q
           /\ \A m \in Nodes \ {node} : [f EXCEPT ![node] = q][m] = f[m]
<1>1. q \in Seq(Sessions \cup Parents)
  BY SeqMore
<1>2. node \in Nodes /\ node # "scope" /\ DOMAIN f = Nodes
  BY DEF Nodes, Inner, InputsOK
<1> QED
  BY <1>1, <1>2 DEF InputsOK, Nodes

LEMMA SetScope ==
    ASSUME NEW f, InputsOK(f), NEW q \in Seq(Parents)
    PROVE  /\ InputsOK([f EXCEPT !["scope"] = q])
           /\ [f EXCEPT !["scope"] = q]["scope"] = q
           /\ \A m \in Nodes \ {"scope"} : [f EXCEPT !["scope"] = q][m] = f[m]
<1>1. q \in Seq(Sessions \cup Parents)
  BY SeqMore
<1>2. "scope" \in Nodes /\ "scope" \notin Inner \cup {"terminal"} /\ DOMAIN f = Nodes
  BY DEF Nodes, Inner, InputsOK
<1> QED
  BY <1>1, <1>2 DEF InputsOK, Nodes

LEMMA GiveIs ==
    ASSUME InputsOK(inputs), NEW node \in Inner \cup {"terminal"}, NEW s \in Sessions, NEW n \in Nat
    PROVE  /\ Give(node, s, n) \in Seq(Sessions)
           /\ WakeUps(node, s, n) \in Seq({node})
           /\ \A t : t \in ToSet(Give(node, s, n)) <=>
                        t \in ToSet(inputs[node]) \/ (t = s /\ s \in active /\ n > 0)
<1>1. inputs[node] \in Seq(Sessions)
  BY DEF InputsOK
<1>2. /\ [i \in 1..n |-> s] \in Seq(Sessions)
      /\ \A y : y \in ToSet([i \in 1..n |-> s]) <=> y = s /\ n > 0
  BY RepeatSet
<1>3. [i \in 1..n |-> node] \in Seq({node})
  BY RepeatSet
<1>4. WakeUps(node, s, n) \in Seq({node})
  BY <1>3 DEF WakeUps
<1>5. CASE s \in active
  <2> DEFINE r == [i \in 1..n |-> s]
  <2>1. Give(node, s, n) = inputs[node] \o r
    BY <1>5 DEF Give
  <2>2. r \in Seq(Sessions) /\ \A y : y \in ToSet(r) <=> y = s /\ n > 0
    BY <1>2
  <2> HIDE DEF r
  <2>3. inputs[node] \o r \in Seq(Sessions) /\ ToSet(inputs[node] \o r) = ToSet(inputs[node]) \cup ToSet(r)
    BY <1>1, <2>2, ConcatSet
  <2> QED
    BY <1>4, <1>5, <2>1, <2>2, <2>3
<1>6. CASE s \notin active
  BY <1>1, <1>4, <1>6 DEF Give
<1> QED
  BY <1>5, <1>6

Queued == Inner \cup {"scope", "terminal", "finish"}

\* The queue after an operation that wakes a node up.
LEMMA WakesTyped ==
    ASSUME NEW X, NEW q \in Seq(X), NEW node \in X, NEW w \in Seq({node})
    PROVE  q \o w \in Seq(X)
<1>1. w \in Seq(X)
  BY SeqMore
<1> QED
  BY <1>1

HistoryTypeOK ==
    /\ begun \in [Sessions -> Nat] /\ finals \in [Sessions -> Nat]
    /\ report \in [Sessions -> Seq({"response", "cancelled"})]
    /\ clean \subseteq Parents /\ asked \subseteq Sessions

LEMMA Parts ==
    TypeOK <=> /\ SessionTypeOK /\ TaskTypeOK /\ NodeTypeOK /\ CleanTypeOK /\ RosterTypeOK
               /\ HistoryTypeOK
BY DEF TypeOK, HistoryTypeOK

LEMMA PartsNext ==
    TypeOK' <=> /\ SessionTypeOK' /\ TaskTypeOK' /\ NodeTypeOK' /\ CleanTypeOK' /\ RosterTypeOK'
                /\ HistoryTypeOK'
BY DEF TypeOK, HistoryTypeOK

\* The kinds of ids are disjoint.
LEMMA IdsDiffer ==
    /\ Sessions \subseteq Nat /\ Sessions \cap Parents = {}
    /\ None \notin Sessions /\ None \notin Parents
    /\ All \notin Sessions /\ All \notin Parents
    /\ Sessions \subseteq CleanupIds /\ Parents \subseteq CleanupIds
    /\ None \notin CleanupIds /\ CleanupIds = Sessions \cup Parents
<1>1. Sessions \subseteq Nat
  <2>1. MaxSessions \in Nat
    BY ScopeAssumption
  <2> QED
    BY <2>1 DEF Sessions
<1>2. Parents \cap Nat = {} /\ {None, All} \cap (Nat \cup Parents) = {}
  BY ScopeAssumption
<1>3. CleanupIds = Sessions \cup Parents
  BY DEF CleanupIds
<1> QED
  BY <1>1, <1>2, <1>3

Entries == [session : Sessions, id : CleanupIds, why : Why, left : {None} \cup SUBSET Runs]

LEMMA EntryFound ==
    ASSUME awaiting \in Seq(Entries), NEW s
    PROVE  EntryOf(s) = 0 \/ (EntryOf(s) \in DOMAIN awaiting /\ awaiting[EntryOf(s)].session = s)
<1> DEFINE I == {i \in 1..Len(awaiting) : awaiting[i].session = s}
<1>1. EntryOf(s) = IF I # {} THEN Min(I) ELSE 0
  BY DEF SelectInSeq, EntryOf
<1>2. I \subseteq Nat /\ DOMAIN awaiting = 1..Len(awaiting)
  OBVIOUS
<1>3. I # {} => Min(I) \in I
  <2> HIDE DEF I
  <2> QED
    BY <1>2, LeastIndex
<1> QED
  BY <1>1, <1>2, <1>3

LEMMA RunFound ==
    ASSUME awaiting \in Seq(Entries), NEW r
    PROVE  EntryWith(r) = 0 \/ (/\ EntryWith(r) \in DOMAIN awaiting
                               /\ awaiting[EntryWith(r)].left # None
                               /\ r \in awaiting[EntryWith(r)].left)
<1> DEFINE I == {i \in 1..Len(awaiting) : awaiting[i].left # None /\ r \in awaiting[i].left}
<1>1. EntryWith(r) = IF I # {} THEN Min(I) ELSE 0
  BY DEF SelectInSeq, EntryWith
<1>2. I \subseteq Nat /\ DOMAIN awaiting = 1..Len(awaiting)
  OBVIOUS
<1>3. I # {} => Min(I) \in I
  <2> HIDE DEF I
  <2> QED
    BY <1>2, LeastIndex
<1> QED
  BY <1>1, <1>2, <1>3

LEMMA CloseTyped ==
    ASSUME TypeOK, NEW S \in SUBSET Sessions, NEW st \in Status, NEW why \in Why,
           NEW id, \A s \in S : id[s] \in CleanupIds, Close(S, st, id, why)
    PROVE  /\ status' \in [Sessions -> Status]
           /\ closing' \subseteq [session : Sessions, id : CleanupIds, why : Why]
BY DEF Close, TypeOK, SessionTypeOK

\* p is the list of entries q, with l left for the entry at i.
LeftSet(p, q, i, l) ==
    /\ p \in Seq(Entries) /\ DOMAIN p = DOMAIN q
    /\ \A j \in DOMAIN q : /\ p[j].session = q[j].session /\ p[j].why = q[j].why
                          /\ p[j].id = q[j].id
                          /\ p[j].left = IF j = i THEN l ELSE q[j].left

LEMMA SetLeft ==
    ASSUME NEW q \in Seq(Entries), NEW i \in DOMAIN q, NEW l \in {None} \cup SUBSET Runs
    PROVE  LeftSet([q EXCEPT ![i].left = l], q, i, l)
<1> DEFINE e == [q[i] EXCEPT !.left = l]
           p == [q EXCEPT ![i] = e]
<1>1. q[i] \in Entries
  OBVIOUS
<1>2. /\ e \in Entries /\ e.session = q[i].session /\ e.why = q[i].why /\ e.id = q[i].id
      /\ e.left = l
  BY <1>1 DEF Entries
<1>3. [q EXCEPT ![i].left = l] = p
  OBVIOUS
<1> HIDE DEF e
<1>4. p \in Seq(Entries) /\ DOMAIN p = DOMAIN q /\ \A j \in DOMAIN q : p[j] = IF j = i THEN e ELSE q[j]
  BY <1>2
<1> HIDE DEF p
<1>5. LeftSet(p, q, i, l)
  BY <1>2, <1>4 DEF LeftSet
<1> QED
  BY <1>3, <1>5

LEMMA RegisterTyped ==
    ASSUME TypeOK, NEW left \in SUBSET Inner, NEW s \in Sessions, NEW id \in CleanupIds,
           Register(left, s, id)
    PROVE  /\ contents' \in [CleanupIds -> SUBSET Inner]
           /\ finished' \in Seq([session : Sessions, id : CleanupIds])
<1>1. contents \in [CleanupIds -> SUBSET Inner] /\ finished \in Seq([session : Sessions, id : CleanupIds])
  BY DEF TypeOK, CleanTypeOK, RosterTypeOK
<1> DEFINE f == [session |-> s, id |-> id]
<1>2. f \in [session : Sessions, id : CleanupIds]
  OBVIOUS
<1> HIDE DEF f
<1>3. Append(finished, f) \in Seq([session : Sessions, id : CleanupIds])
  BY <1>1, <1>2
<1>4. finished' = finished \/ finished' = Append(finished, f)
  BY DEF Register, f
<1>5. contents' \in [CleanupIds -> SUBSET Inner]
  BY <1>1 DEF Register
<1> QED
  BY <1>1, <1>3, <1>4, <1>5

-----------------------------------------------------------------------------
(* Each step keeps the types *)

LEMMA InitTyped == Init => TypeOK
<1> SUFFICES ASSUME Init PROVE TypeOK
  OBVIOUS
<1> USE DEF Init
<1>1. SessionTypeOK
  BY DEF SessionTypeOK, Status
<1>2. TaskTypeOK
  BY DEF TaskTypeOK, Ids, NoItem
<1>3. NodeTypeOK
  BY DEF NodeTypeOK
<1>4. CleanTypeOK
  BY DEF CleanTypeOK
<1>5. RosterTypeOK
  <2>1. /\ awake = FALSE /\ phase = "cleanups" /\ queue = <<>> /\ deferred = <<>>
        /\ cancels = <<>> /\ disposed = <<>> /\ finished = <<>> /\ collected = {}
    OBVIOUS
  <2>2. \A X : <<>> \in Seq(X)
    OBVIOUS
  <2> HIDE DEF Init
  <2> QED
    BY <2>1, <2>2 DEF RosterTypeOK
<1> QED
  BY <1>1, <1>2, <1>3, <1>4, <1>5 DEF TypeOK

LEMMA CleanSessionTyped == TypeOK /\ CleanSession => TypeOK'
<1> SUFFICES ASSUME TypeOK, CleanSession PROVE TypeOK'
  OBVIOUS
<1>0. SessionTypeOK /\ TaskTypeOK /\ NodeTypeOK /\ CleanTypeOK /\ RosterTypeOK /\ HistoryTypeOK
  BY Parts
<1>1. PICK c \in closing :
        /\ closing' = closing \ {c}
        /\ awaiting' = Append(awaiting, [session |-> c.session, id |-> c.id, why |-> c.why, left |-> None])
        /\ inputs' = [node \in DOMAIN inputs |->
                        IF node \in Inner THEN Without(inputs[node], {c.session}) ELSE inputs[node]]
        /\ Register(IF AsyncIsClean(c.session, c.id) THEN {} ELSE {"async"}, c.session, c.id)
        /\ tasks' = [tasks EXCEPT ![c.session] =
                        IF @ = "running" THEN "cleaning"
                        ELSE IF @ = "cleaning" THEN "none" ELSE @]
        /\ taskId' = [taskId EXCEPT ![c.session] = IF tasks[c.session] \in {"running", "stopping"}
                                                   THEN c.id ELSE None]
        /\ arriving' = [arriving EXCEPT ![c.session] = IF tasks[c.session] = "running"
                                               THEN [id |-> c.id, dispose |-> FALSE] ELSE @]
        /\ active' = active \ {c.session}
        /\ UNCHANGED <<status, owner, parent, staging, finishVars, phase, queue,
                       deferred, cancels, disposed, collected, historyVars, awake>>
  BY DEF CleanSession
<1>2. c \in [session : Sessions, id : CleanupIds, why : Why]
  BY <1>0, <1>1 DEF CleanTypeOK
<1> DEFINE s == c.session
           id == c.id
<1>3. s \in Sessions /\ id \in CleanupIds /\ c.why \in Why /\ id \in Ids
  BY <1>2 DEF Ids
<1>4. SessionTypeOK'
  BY <1>0, <1>1 DEF SessionTypeOK
<1>5. TaskTypeOK'
  <2> HIDE DEF s, id
  <2>1. tasks' = [tasks EXCEPT ![s] = IF @ = "running" THEN "cleaning"
                                      ELSE IF @ = "cleaning" THEN "none" ELSE @]
    BY <1>1 DEF s
  <2>2. taskId' = [taskId EXCEPT ![s] = IF tasks[s] \in {"running", "stopping"} THEN id ELSE None]
    BY <1>1 DEF s, id
  <2>3. arriving' = [arriving EXCEPT ![s] = IF tasks[s] = "running" THEN [id |-> id, dispose |-> FALSE] ELSE @]
    BY <1>1 DEF s, id
  <2>4. tasks' \in [Sessions -> {"none", "running", "cleaning", "stopping"}]
    BY <1>0, <1>3, <2>1 DEF TaskTypeOK
  <2>5. taskId' \in [Sessions -> Ids]
    BY <1>0, <1>3, <2>2 DEF TaskTypeOK, Ids
  <2>6. arriving' \in [Sessions -> [id : Ids, dispose : BOOLEAN]]
    BY <1>0, <1>3, <2>3 DEF TaskTypeOK
  <2> QED
    BY <2>4, <2>5, <2>6 DEF TaskTypeOK
<1>6. NodeTypeOK'
  <2>1. InputsOK(inputs)
    BY <1>0, InputsType
  <2>2. \A node \in Inner : Without(inputs[node], {c.session}) \in Seq(Sessions)
    BY <2>1, WithoutSet DEF InputsOK
  <2>3. \A node \in Inner : Without(inputs[node], {c.session}) \in Seq(Sessions \cup Parents)
    BY <2>2, SeqMore
  <2>4. InputsOK(inputs')
    BY <1>1, <2>1, <2>2, <2>3 DEF InputsOK, Nodes, Inner
  <2> QED
    BY <1>0, <1>1, <2>4, InputsTypeNext DEF NodeTypeOK
<1>7. contents' \in [CleanupIds -> SUBSET Inner] /\ finished' \in Seq([session : Sessions, id : CleanupIds])
  BY <1>1, <1>3, RegisterTyped DEF Inner
<1>8. CleanTypeOK'
  <2> DEFINE a == [session |-> c.session, id |-> c.id, why |-> c.why, left |-> None]
  <2>1. a \in [session : Sessions, id : CleanupIds, why : Why, left : {None} \cup SUBSET Runs]
    BY <1>3
  <2>2. awaiting' = Append(awaiting, a)
    BY <1>1
  <2> HIDE DEF a
  <2> QED
    BY <1>0, <1>1, <1>7, <2>1, <2>2 DEF CleanTypeOK, finishVars
<1>9. RosterTypeOK'
  BY <1>0, <1>1, <1>7 DEF RosterTypeOK
<1>10. HistoryTypeOK'
  BY <1>0, <1>1 DEF HistoryTypeOK, historyVars
<1> QED
  BY <1>4, <1>5, <1>6, <1>8, <1>9, <1>10, PartsNext

LEMMA TriggerCleanupTyped == TypeOK /\ TriggerCleanup => TypeOK'
<1> SUFFICES ASSUME TypeOK, TriggerCleanup PROVE TypeOK'
  OBVIOUS
<1>0. SessionTypeOK /\ TaskTypeOK /\ NodeTypeOK /\ CleanTypeOK /\ RosterTypeOK /\ HistoryTypeOK
  BY Parts
<1> USE DEF TriggerCleanup
<1> DEFINE c == Last(finished)
           s == c.session
<1> DEFINE i == EntryOf(s)
           ws == IF awaiting[i].why = "Terminated" THEN OnTerminate ELSE OnCancelled
           begin == {[session |-> s, workflow |-> w, n |-> begun[s]] : w \in ws}
<1>1. finished # <<>> /\ finished \in Seq([session : Sessions, id : CleanupIds])
  BY <1>0 DEF RosterTypeOK
<1>2. c \in [session : Sessions, id : CleanupIds] /\ Front(finished) \in Seq([session : Sessions, id : CleanupIds])
  BY <1>1, LastFront
<1>3. s \in Sessions /\ c.id \in CleanupIds
  BY <1>2
<1>4. begin \subseteq Runs
  <2>1. ws \subseteq CleanupWorkflows
    BY ScopeAssumption
  <2>2. begun[s] \in Nat
    BY <1>0, <1>3 DEF HistoryTypeOK
  <2> HIDE DEF s, ws
  <2>3. \A w \in ws : [session |-> s, workflow |-> w, n |-> begun[s]] \in Runs
    BY <1>3, <2>1, <2>2 DEF Runs, s
  <2> QED
    BY <2>3
<1>5. i = 0 \/ i \in DOMAIN awaiting
  <2>1. awaiting \in Seq(Entries)
    BY <1>0 DEF CleanTypeOK, Entries
  <2> HIDE DEF s
  <2> QED
    BY <2>1, EntryFound
<1>6. /\ finished' = Front(finished)
      /\ contents' = [contents EXCEPT ![c.id] = {}]
      /\ status' = [status EXCEPT ![s] = IF HasPair(s) THEN "dropped" ELSE @]
  OBVIOUS
<1>7. IF i = 0 THEN UNCHANGED <<awaiting, checks, runs, queue, begun>>
      ELSE /\ awaiting' = [awaiting EXCEPT ![i].left = begin]
           /\ checks' = Append(checks, s)
           /\ queue' = Append(queue, "finish")
           /\ runs' = runs \cup begin
           /\ begun' = [begun EXCEPT ![s] = @ + 1]
  OBVIOUS
<1>8. UNCHANGED <<active, owner, parent, taskVars, nodeVars, closing, dones, phase, deferred,
                   cancels, disposed, collected, report, finals, clean, asked, awake>>
  OBVIOUS
<1> HIDE DEF c, s, i, ws, begin, TriggerCleanup
<1>9. SessionTypeOK'
  BY <1>0, <1>3, <1>6, <1>8 DEF SessionTypeOK, Status
<1>10. TaskTypeOK' /\ NodeTypeOK'
  BY <1>0, <1>8 DEF TaskTypeOK, taskVars, NodeTypeOK, nodeVars
<1>11. awaiting' \in Seq(Entries)
  <2>1. awaiting \in Seq(Entries)
    BY <1>0 DEF CleanTypeOK, Entries
  <2>2. CASE i = 0
    BY <1>7, <2>1, <2>2
  <2>3. CASE i # 0
    <3>1. awaiting' = [awaiting EXCEPT ![i].left = begin] /\ i \in DOMAIN awaiting
      BY <1>5, <1>7, <2>3
    <3> QED
      BY <1>4, <2>1, <3>1, SetLeft DEF LeftSet
  <2> QED
    BY <2>2, <2>3
<1>12. CleanTypeOK'
  <2>1. checks' \in Seq(Sessions) /\ runs' \subseteq Runs
    <3>1. checks \in Seq(Sessions) /\ runs \subseteq Runs /\ Append(checks, s) \in Seq(Sessions)
      BY <1>0, <1>3 DEF CleanTypeOK
    <3> QED
      BY <1>4, <1>7, <3>1
  <2>2. contents' \in [CleanupIds -> SUBSET Inner]
    BY <1>0, <1>3, <1>6 DEF CleanTypeOK
  <2> QED
    BY <1>0, <1>8, <1>11, <2>1, <2>2 DEF CleanTypeOK, Entries
<1>13. RosterTypeOK'
  <2>1. queue' \in Seq(Inner \cup {"scope", "terminal", "finish"})
    <3>1. /\ queue \in Seq(Inner \cup {"scope", "terminal", "finish"})
          /\ Append(queue, "finish") \in Seq(Inner \cup {"scope", "terminal", "finish"})
      BY <1>0 DEF RosterTypeOK
    <3> QED
      BY <1>7, <3>1
  <2> QED
    BY <1>0, <1>2, <1>6, <1>8, <2>1 DEF RosterTypeOK
<1>14. HistoryTypeOK'
  <2>1. begun' \in [Sessions -> Nat]
    BY <1>0, <1>3, <1>7 DEF HistoryTypeOK
  <2> QED
    BY <1>0, <1>8, <2>1 DEF HistoryTypeOK
<1> QED
  BY <1>9, <1>10, <1>12, <1>13, <1>14, PartsNext

LEMMA HandleCancelTyped == TypeOK /\ HandleCancel => TypeOK'
<1> SUFFICES ASSUME TypeOK, HandleCancel PROVE TypeOK'
  OBVIOUS
<1>0. SessionTypeOK /\ TaskTypeOK /\ NodeTypeOK /\ CleanTypeOK /\ RosterTypeOK /\ HistoryTypeOK
  BY Parts
<1> DEFINE x == Head(cancels)
           S == {s \in Sessions : CanCancel(s) /\ x \in {s, owner[s], All}}
           id == [s \in Sessions |-> CancelId(x, s)]
<1>1. /\ Close(S, "Cancelled", id, "Cancelled") /\ cancels # <<>> /\ cancels' = Tail(cancels) /\ phase' = "cancels"
      /\ UNCHANGED <<active, owner, parent, taskVars, nodeVars, cleanVars, finishVars,
                     queue, deferred, disposed, finished, collected, historyVars, awake>>
  BY DEF HandleCancel
<1>2. x \in CleanupIds \cup {All} /\ Tail(cancels) \in Seq(CleanupIds \cup {All})
  BY <1>0, <1>1, TailSet DEF RosterTypeOK
<1>3. \A s \in S : id[s] \in CleanupIds
  BY <1>2, IdsDiffer DEF CancelId
<1>4. status' \in [Sessions -> Status] /\ closing' \subseteq [session : Sessions, id : CleanupIds, why : Why]
  <2>1. S \in SUBSET Sessions /\ "Cancelled" \in Status /\ "Cancelled" \in Why
    BY DEF Status, Why
  <2> HIDE DEF S, id
  <2> QED
    BY <1>1, <1>3, <2>1, CloseTyped
<1> HIDE DEF x, S, id
<1>5. SessionTypeOK'
  BY <1>0, <1>1, <1>4 DEF SessionTypeOK
<1>6. TaskTypeOK' /\ NodeTypeOK'
  BY <1>0, <1>1 DEF TaskTypeOK, taskVars, NodeTypeOK, nodeVars
<1>7. CleanTypeOK'
  BY <1>0, <1>1, <1>4 DEF CleanTypeOK, cleanVars, finishVars
<1>8. RosterTypeOK'
  BY <1>0, <1>1, <1>2 DEF RosterTypeOK
<1>9. HistoryTypeOK'
  BY <1>0, <1>1 DEF HistoryTypeOK, historyVars
<1> QED
  BY <1>5, <1>6, <1>7, <1>8, <1>9, PartsNext

LEMMA PopTyped ==
    ASSUME RosterTypeOK, NEW node, Pop(node)
    PROVE  Tail(queue) \in Seq(Queued) /\ queue \in Seq(Queued) /\ phase' = "cleanups"
<1>1. queue \in Seq(Queued) /\ queue # <<>>
  BY DEF RosterTypeOK, Pop, Queued
<1> QED
  BY <1>1, TailSet DEF Pop

LEMMA InputsTail ==
    ASSUME InputsOK(inputs), NEW node \in Inner \cup {"terminal"}, inputs[node] # <<>>
    PROVE  Head(inputs[node]) \in Sessions /\ Tail(inputs[node]) \in Seq(Sessions)
<1>1. inputs[node] \in Seq(Sessions)
  BY DEF InputsOK
<1> QED
  BY <1>1, TailSet

LEMMA PopNothingTyped == TypeOK /\ PopNothing => TypeOK'
<1> SUFFICES ASSUME TypeOK, PopNothing PROVE TypeOK'
  OBVIOUS
<1>0. SessionTypeOK /\ TaskTypeOK /\ NodeTypeOK /\ CleanTypeOK /\ RosterTypeOK /\ HistoryTypeOK
  BY Parts
<1>1. Tail(queue) \in Seq(Queued) /\ queue' = Tail(queue) /\ phase' = "cleanups"
  BY <1>0, PopTyped DEF PopNothing
<1>2. UNCHANGED <<sessionVars, taskVars, nodeVars, closing, cleanVars, finishVars,
                  deferred, cancels, disposed, finished, collected, historyVars, awake>>
  BY DEF PopNothing
<1>3. RosterTypeOK'
  BY <1>0, <1>1, <1>2 DEF RosterTypeOK, Queued
<1> QED
  BY <1>0, <1>2, <1>3, PartsNext DEF SessionTypeOK, sessionVars, TaskTypeOK, taskVars,
     NodeTypeOK, nodeVars, CleanTypeOK, cleanVars, finishVars, HistoryTypeOK, historyVars

LEMMA ExecScopeTyped == TypeOK /\ ExecScope => TypeOK'
<1> SUFFICES ASSUME TypeOK, ExecScope PROVE TypeOK'
  OBVIOUS
<1>0. SessionTypeOK /\ TaskTypeOK /\ NodeTypeOK /\ CleanTypeOK /\ RosterTypeOK /\ HistoryTypeOK
  BY Parts
<1>1. Pop("scope") /\ UNCHANGED <<parent, taskVars, staging, closing, cleanVars, finishVars,
                   deferred, cancels, disposed, finished, collected, historyVars, awake>>
  BY DEF ExecScope
<1>2. Tail(queue) \in Seq(Queued) /\ phase' = "cleanups"
  BY <1>0, <1>1, PopTyped
<1>3. InputsOK(inputs) /\ staging \subseteq Sessions
  BY <1>0, InputsType
<1>4. CASE inputs["scope"] = <<>>
  <2>1. queue' = Tail(queue) /\ UNCHANGED <<status, active, owner, inputs>>
    BY <1>4 DEF ExecScope
  <2>2. RosterTypeOK'
    BY <1>0, <1>1, <1>2, <2>1 DEF RosterTypeOK, Queued
  <2> QED
    BY <1>0, <1>1, <2>1, <2>2, PartsNext DEF SessionTypeOK, TaskTypeOK, taskVars,
       NodeTypeOK, CleanTypeOK, cleanVars, finishVars, HistoryTypeOK, historyVars
<1>5. CASE inputs["scope"] # <<>>
  <2>1. PICK s \in Sessions :
            /\ status' = [status EXCEPT ![s] = "Ongoing"]
            /\ active' = active \cup {s}
            /\ owner' = [owner EXCEPT ![s] = Head(inputs["scope"])]
            /\ inputs' = [inputs EXCEPT !["scope"] = Tail(@), !["fork"] = Append(@, s)]
            /\ queue' = Append(Tail(queue), "fork")
    BY <1>5 DEF ExecScope
  <2>2. Head(inputs["scope"]) \in Parents /\ Tail(inputs["scope"]) \in Seq(Parents)
    <3>1. inputs["scope"] \in Seq(Parents)
      BY <1>3 DEF InputsOK
    <3> QED
      BY <1>5, <3>1, TailSet
  <2>3. SessionTypeOK'
    <3>1. "Ongoing" \in Status
      BY DEF Status
    <3> QED
      BY <1>0, <1>1, <2>1, <2>2, <3>1 DEF SessionTypeOK
  <2>4. InputsOK(inputs')
    <3> DEFINE q == Tail(inputs["scope"])
               f == [inputs EXCEPT !["scope"] = q]
    <3>1. InputsOK(f) /\ f["fork"] = inputs["fork"]
      <4>1. q \in Seq(Parents) /\ "fork" \in Nodes \ {"scope"}
        BY <2>2 DEF Nodes, Inner
      <4> HIDE DEF q
      <4> QED
        BY <1>3, <4>1, SetScope
    <3>2. Append(inputs["fork"], s) \in Seq(Sessions)
      BY <1>3 DEF InputsOK, Inner
    <3>3. inputs' = [f EXCEPT !["fork"] = Append(inputs["fork"], s)]
      <4>1. inputs \in [Nodes -> Seq(Sessions \cup Parents)]
        BY <1>3 DEF InputsOK
      <4> QED
        BY <2>1, <4>1 DEF Nodes, Inner
    <3> HIDE DEF f
    <3> QED
      BY <3>1, <3>2, <3>3, SetInput DEF Inner
  <2>5. RosterTypeOK'
    <3>1. queue' \in Seq(Queued)
      BY <1>2, <2>1 DEF Queued, Inner
    <3> QED
      BY <1>0, <1>1, <1>2, <3>1 DEF RosterTypeOK, Queued
  <2> QED
    BY <1>0, <1>1, <1>3, <2>3, <2>4, <2>5, PartsNext, InputsTypeNext DEF TaskTypeOK, taskVars,
       CleanTypeOK, cleanVars, finishVars, HistoryTypeOK, historyVars
<1> QED
  BY <1>4, <1>5

LEMMA ExecForkTyped ==
    ASSUME NEW toFilter \in BOOLEAN, NEW toAsync \in BOOLEAN, NEW n \in 0..MaxOutputs,
           TypeOK, ExecFork(toFilter, toAsync, n)
    PROVE  TypeOK'
<1>0. SessionTypeOK /\ TaskTypeOK /\ NodeTypeOK /\ CleanTypeOK /\ RosterTypeOK /\ HistoryTypeOK
  BY Parts
<1> DEFINE s == Head(inputs["fork"])
           f == IF toFilter THEN 1 ELSE 0
           k == IF toAsync THEN 1 ELSE 0
           g1 == Give("filter", s, f)
           g2 == Give("async", s, k)
           g3 == Give("terminal", s, n)
           w1 == WakeUps("filter", s, f)
           w2 == WakeUps("async", s, k)
           w3 == WakeUps("terminal", s, n)
           t == Tail(inputs["fork"])
<1>1. /\ Pop("fork") /\ inputs["fork"] # <<>>
      /\ UNCHANGED <<sessionVars, taskVars, staging, closing, cleanVars, finishVars,
                   deferred, cancels, finished, collected, historyVars, awake>>
  BY DEF ExecFork
<1>2. /\ inputs' = [inputs EXCEPT !["fork"] = t, !["filter"] = g1, !["async"] = g2, !["terminal"] = g3]
      /\ queue' = Tail(queue) \o w1 \o w2 \o w3
      /\ disposed' = disposed \/ disposed' = Append(disposed, s)
  BY DEF ExecFork
<1>3. InputsOK(inputs) /\ staging \subseteq Sessions
  BY <1>0, InputsType
<1>4. s \in Sessions /\ t \in Seq(Sessions)
  BY <1>1, <1>3, InputsTail DEF Inner
<1>5. n \in Nat /\ f \in Nat /\ k \in Nat
  <2>1. MaxOutputs \in Nat
    BY ScopeAssumption
  <2>2. n \in Nat
    BY <2>1
  <2> QED
    BY <2>2
<1> HIDE DEF s, f, k
<1>6. /\ g1 \in Seq(Sessions) /\ g2 \in Seq(Sessions) /\ g3 \in Seq(Sessions)
      /\ w1 \in Seq({"filter"}) /\ w2 \in Seq({"async"}) /\ w3 \in Seq({"terminal"})
  BY <1>3, <1>4, <1>5, GiveIs DEF Inner
<1> HIDE DEF g1, g2, g3, w1, w2, w3, t
<1>7. Tail(queue) \in Seq(Queued) /\ phase' = "cleanups"
  BY <1>0, <1>1, PopTyped
<1>8. queue' \in Seq(Queued)
  <2>1. {"filter", "async", "terminal"} \subseteq Queued
    BY DEF Queued, Inner
  <2>2. Tail(queue) \o w1 \in Seq(Queued)
    BY <1>6, <1>7, <2>1, WakesTyped
  <2>3. Tail(queue) \o w1 \o w2 \in Seq(Queued)
    BY <1>6, <2>1, <2>2, WakesTyped
  <2> QED
    BY <1>2, <1>6, <2>1, <2>3, WakesTyped
<1>9. InputsOK(inputs')
  <2> DEFINE f1 == [inputs EXCEPT !["fork"] = t]
             f2 == [f1 EXCEPT !["filter"] = g1]
             f3 == [f2 EXCEPT !["async"] = g2]
             f4 == [f3 EXCEPT !["terminal"] = g3]
  <2>1. inputs' = f4
    BY <1>2
  <2>2. InputsOK(f1)
    BY <1>3, <1>4, SetInput DEF Inner
  <2> HIDE DEF f1
  <2>3. InputsOK(f2)
    BY <1>6, <2>2, SetInput DEF Inner
  <2> HIDE DEF f2
  <2>4. InputsOK(f3)
    BY <1>6, <2>3, SetInput DEF Inner
  <2> HIDE DEF f3
  <2>5. InputsOK(f4)
    BY <1>6, <2>4, SetInput DEF Inner
  <2> QED
    BY <2>1, <2>5
<1>10. RosterTypeOK'
  <2>1. disposed' \in Seq(Sessions)
    <3>1. disposed \in Seq(Sessions)
      BY <1>0 DEF RosterTypeOK
    <3>2. Append(disposed, s) \in Seq(Sessions)
      BY <1>4, <3>1
    <3> QED
      BY <1>2, <3>1, <3>2
  <2> QED
    BY <1>0, <1>1, <1>7, <1>8, <2>1 DEF RosterTypeOK, Queued
<1> QED
  BY <1>0, <1>1, <1>3, <1>9, <1>10, PartsNext, InputsTypeNext DEF SessionTypeOK, sessionVars, TaskTypeOK,
     taskVars, CleanTypeOK, cleanVars, finishVars, HistoryTypeOK, historyVars

LEMMA ExecFilterTyped ==
    ASSUME NEW pass \in BOOLEAN, TypeOK, ExecFilter(pass)
    PROVE  TypeOK'
<1>0. SessionTypeOK /\ TaskTypeOK /\ NodeTypeOK /\ CleanTypeOK /\ RosterTypeOK /\ HistoryTypeOK
  BY Parts
<1> DEFINE s == Head(inputs["filter"])
           n == IF pass THEN 1 ELSE 0
           g == Give("terminal", s, n)
           w == WakeUps("terminal", s, n)
           t == Tail(inputs["filter"])
<1>1. /\ Pop("filter") /\ inputs["filter"] # <<>>
      /\ UNCHANGED <<sessionVars, taskVars, staging, closing, cleanVars, finishVars,
                   deferred, disposed, finished, collected, begun, report, finals, clean, awake>>
  BY DEF ExecFilter
<1>2. /\ inputs' = [inputs EXCEPT !["filter"] = t, !["terminal"] = g]
      /\ queue' = Tail(queue) \o w
      /\ cancels' = cancels \/ cancels' = Append(cancels, s)
      /\ asked' = asked \/ asked' = asked \cup {s}
  BY DEF ExecFilter
<1>3. InputsOK(inputs) /\ staging \subseteq Sessions
  BY <1>0, InputsType
<1>4. s \in Sessions /\ t \in Seq(Sessions)
  BY <1>1, <1>3, InputsTail DEF Inner
<1>5. n \in Nat
  OBVIOUS
<1> HIDE DEF s, n
<1>6. g \in Seq(Sessions) /\ w \in Seq({"terminal"})
  BY <1>3, <1>4, <1>5, GiveIs
<1> HIDE DEF g, w, t
<1>7. Tail(queue) \in Seq(Queued) /\ phase' = "cleanups"
  BY <1>0, <1>1, PopTyped
<1>8. queue' \in Seq(Queued)
  BY <1>2, <1>6, <1>7, WakesTyped DEF Queued
<1>9. InputsOK(inputs')
  <2> DEFINE f1 == [inputs EXCEPT !["filter"] = t]
             f2 == [f1 EXCEPT !["terminal"] = g]
  <2>1. inputs' = f2
    BY <1>2
  <2>2. InputsOK(f1)
    BY <1>3, <1>4, SetInput DEF Inner
  <2> HIDE DEF f1
  <2>3. InputsOK(f2)
    BY <1>6, <2>2, SetInput
  <2> QED
    BY <2>1, <2>3
<1>10. RosterTypeOK'
  <2>1. cancels' \in Seq(CleanupIds \cup {All})
    <3>1. cancels \in Seq(CleanupIds \cup {All}) /\ s \in CleanupIds \cup {All}
      BY <1>0, <1>4, IdsDiffer DEF RosterTypeOK
    <3>2. Append(cancels, s) \in Seq(CleanupIds \cup {All})
      BY <3>1
    <3> QED
      BY <1>2, <3>1, <3>2
  <2> QED
    BY <1>0, <1>1, <1>7, <1>8, <2>1 DEF RosterTypeOK, Queued
<1>11. HistoryTypeOK'
  BY <1>0, <1>1, <1>2, <1>4 DEF HistoryTypeOK
<1> QED
  BY <1>0, <1>1, <1>3, <1>9, <1>10, <1>11, PartsNext, InputsTypeNext DEF SessionTypeOK, sessionVars, TaskTypeOK,
     taskVars, CleanTypeOK, cleanVars, finishVars

LEMMA ExecAsyncTyped == TypeOK /\ ExecAsync => TypeOK'
<1> SUFFICES ASSUME TypeOK, ExecAsync PROVE TypeOK'
  OBVIOUS
<1>0. SessionTypeOK /\ TaskTypeOK /\ NodeTypeOK /\ CleanTypeOK /\ RosterTypeOK /\ HistoryTypeOK
  BY Parts
<1> DEFINE s == Head(inputs["async"])
           t == Tail(inputs["async"])
<1>1. /\ Pop("async") /\ inputs["async"] # <<>> /\ queue' = Tail(queue)
      /\ UNCHANGED <<sessionVars, taskId, arriving, staging, closing, cleanVars, finishVars,
                   deferred, cancels, disposed, finished, collected, historyVars, awake>>
  BY DEF ExecAsync
<1>2. /\ inputs' = [inputs EXCEPT !["async"] = t]
      /\ tasks' = [tasks EXCEPT ![s] = "running"]
  BY DEF ExecAsync
<1>3. InputsOK(inputs) /\ staging \subseteq Sessions
  BY <1>0, InputsType
<1>4. s \in Sessions /\ t \in Seq(Sessions)
  BY <1>1, <1>3, InputsTail DEF Inner
<1> HIDE DEF s, t
<1>5. InputsOK(inputs')
  BY <1>2, <1>3, <1>4, SetInput DEF Inner
<1>6. Tail(queue) \in Seq(Queued) /\ phase' = "cleanups"
  BY <1>0, <1>1, PopTyped
<1>7. RosterTypeOK'
  BY <1>0, <1>1, <1>6 DEF RosterTypeOK, Queued
<1>8. TaskTypeOK'
  BY <1>0, <1>1, <1>2, <1>4 DEF TaskTypeOK
<1> QED
  BY <1>0, <1>1, <1>3, <1>5, <1>7, <1>8, PartsNext, InputsTypeNext DEF SessionTypeOK, sessionVars,
     CleanTypeOK, cleanVars, finishVars, HistoryTypeOK, historyVars

LEMMA ExecTerminalTyped == TypeOK /\ ExecTerminal => TypeOK'
<1> SUFFICES ASSUME TypeOK, ExecTerminal PROVE TypeOK'
  OBVIOUS
<1>0. SessionTypeOK /\ TaskTypeOK /\ NodeTypeOK /\ CleanTypeOK /\ RosterTypeOK /\ HistoryTypeOK
  BY Parts
<1> DEFINE s == Head(inputs["terminal"])
           t == Tail(inputs["terminal"])
           id == [u \in Sessions |-> u]
<1>1. /\ Pop("terminal") /\ inputs["terminal"] # <<>> /\ queue' = Tail(queue)
      /\ UNCHANGED <<active, owner, parent, taskVars, cleanVars, finishVars, deferred, disposed,
                   finished, collected, historyVars, awake>>
  BY DEF ExecTerminal
<1>2. /\ inputs' = [inputs EXCEPT !["terminal"] = t]
      /\ staging' = staging \cup {s}
      /\ cancels' = cancels \/ cancels' = Append(cancels, All)
  BY DEF ExecTerminal
<1>3. \/ Close({s}, "Terminated", id, "Terminated")
      \/ Close({s}, "Cleanup", id, "Terminated")
      \/ UNCHANGED <<status, closing>>
  BY DEF ExecTerminal
<1>4. InputsOK(inputs) /\ staging \subseteq Sessions
  BY <1>0, InputsType
<1>5. s \in Sessions /\ t \in Seq(Sessions)
  BY <1>1, <1>4, InputsTail
<1>6. id[s] \in CleanupIds
  BY <1>5, IdsDiffer
<1> HIDE DEF s, t, id
<1>7. status' \in [Sessions -> Status] /\ closing' \subseteq [session : Sessions, id : CleanupIds, why : Why]
  <2>1. "Terminated" \in Status /\ "Cleanup" \in Status /\ "Terminated" \in Why
    BY DEF Status, Why
  <2>2. {s} \in SUBSET Sessions /\ \A u \in {s} : id[u] \in CleanupIds
    BY <1>5, <1>6
  <2>3. CASE Close({s}, "Terminated", id, "Terminated")
    BY <2>1, <2>2, <2>3, CloseTyped
  <2>4. CASE Close({s}, "Cleanup", id, "Terminated")
    BY <2>1, <2>2, <2>4, CloseTyped
  <2>5. CASE UNCHANGED <<status, closing>>
    BY <1>0, <2>5 DEF SessionTypeOK, CleanTypeOK
  <2> QED
    BY <1>3, <2>3, <2>4, <2>5
<1>8. InputsOK(inputs') /\ staging' \subseteq Sessions
  BY <1>2, <1>4, <1>5, SetInput
<1>9. Tail(queue) \in Seq(Queued) /\ phase' = "cleanups"
  BY <1>0, <1>1, PopTyped
<1>10. RosterTypeOK'
  <2>1. cancels' \in Seq(CleanupIds \cup {All})
    <3>1. cancels \in Seq(CleanupIds \cup {All}) /\ Append(cancels, All) \in Seq(CleanupIds \cup {All})
      BY <1>0 DEF RosterTypeOK
    <3> QED
      BY <1>2, <3>1
  <2> QED
    BY <1>0, <1>1, <1>9, <2>1 DEF RosterTypeOK, Queued
<1>11. SessionTypeOK' /\ CleanTypeOK'
  BY <1>0, <1>1, <1>7 DEF SessionTypeOK, CleanTypeOK, cleanVars, finishVars
<1> QED
  BY <1>0, <1>1, <1>8, <1>10, <1>11, PartsNext, InputsTypeNext DEF TaskTypeOK, taskVars,
     HistoryTypeOK, historyVars

LEMMA TaskDoneTyped ==
    ASSUME NEW s \in Sessions, TypeOK, TaskDone(s)
    PROVE  TypeOK'
<1>0. SessionTypeOK /\ TaskTypeOK /\ NodeTypeOK /\ CleanTypeOK /\ RosterTypeOK /\ HistoryTypeOK
  BY Parts
<1> DEFINE g == Give("terminal", s, 1)
           w == WakeUps("terminal", s, 1)
<1>1. /\ awake' = TRUE /\ tasks' = [tasks EXCEPT ![s] = "none"]
      /\ inputs' = [inputs EXCEPT !["terminal"] = g]
      /\ deferred' = deferred \o w /\ phase' = "cleanups"
      /\ UNCHANGED <<sessionVars, taskId, arriving, staging, closing, cleanVars, finishVars,
                   queue, cancels, disposed, finished, collected, historyVars>>
  BY DEF TaskDone
<1>2. InputsOK(inputs) /\ staging \subseteq Sessions
  BY <1>0, InputsType
<1>3. g \in Seq(Sessions) /\ w \in Seq({"terminal"})
  BY <1>2, GiveIs
<1> HIDE DEF g, w
<1>4. InputsOK(inputs')
  BY <1>1, <1>2, <1>3, SetInput
<1>5. RosterTypeOK'
  BY <1>0, <1>1, <1>3 DEF RosterTypeOK
<1>6. TaskTypeOK'
  BY <1>0, <1>1 DEF TaskTypeOK
<1> QED
  BY <1>0, <1>1, <1>2, <1>4, <1>5, <1>6, PartsNext, InputsTypeNext DEF SessionTypeOK, sessionVars,
     CleanTypeOK, cleanVars, finishVars, HistoryTypeOK, historyVars

LEMMA SupplantTaskTyped ==
    ASSUME NEW s \in Sessions, TypeOK, SupplantTask(s)
    PROVE  TypeOK'
<1>0. SessionTypeOK /\ TaskTypeOK /\ NodeTypeOK /\ CleanTypeOK /\ RosterTypeOK /\ HistoryTypeOK
  BY Parts
<1>1. /\ tasks' = [tasks EXCEPT ![s] = "stopping"]
      /\ arriving' = [arriving EXCEPT ![s] = [id |-> None, dispose |-> TRUE]]
      /\ phase' = "cleanups"
      /\ UNCHANGED <<sessionVars, taskId, nodeVars, closing, cleanVars, finishVars, rosterVars, historyVars>>
  BY DEF SupplantTask
<1>2. TaskTypeOK'
  <2>1. [id |-> None, dispose |-> TRUE] \in [id : Ids, dispose : BOOLEAN]
    BY DEF Ids
  <2> QED
    BY <1>0, <1>1, <2>1 DEF TaskTypeOK
<1>3. RosterTypeOK'
  BY <1>0, <1>1 DEF RosterTypeOK, rosterVars
<1> QED
  BY <1>0, <1>1, <1>2, <1>3, PartsNext DEF SessionTypeOK, sessionVars, NodeTypeOK, nodeVars,
     CleanTypeOK, cleanVars, finishVars, HistoryTypeOK, historyVars

LEMMA RemoveAtIn ==
    ASSUME NEW X, NEW q \in Seq(X), NEW i \in DOMAIN q
    PROVE  RemoveAt(q, i) \in Seq(X) /\ ToSet(RemoveAt(q, i)) \subseteq ToSet(q)
<1> DEFINE p == RemoveAt(q, i)
<1>1. i \in 1..Len(q)
  OBVIOUS
<1>2. /\ p \in Seq(X) /\ Len(p) = Len(q) - 1
      /\ \A j \in 1..(i - 1) : p[j] = q[j]
      /\ \A j \in i..(Len(q) - 1) : p[j] = q[j + 1]
  BY <1>1, RemoveAtIs
<1> HIDE DEF p
<1>3. ASSUME NEW x \in ToSet(p) PROVE x \in ToSet(q)
  <2>1. PICK j \in 1..Len(p) : p[j] = x
    BY DEF ToSet
  <2>2. CASE j < i
    <3>1. j \in 1..(i - 1) /\ j \in 1..Len(q)
      BY <1>1, <2>1, <2>2
    <3> QED
      BY <1>2, <2>1, <3>1 DEF ToSet
  <2>3. CASE j >= i
    <3>1. j \in i..(Len(q) - 1) /\ j + 1 \in 1..Len(q)
      BY <1>1, <1>2, <2>1, <2>3
    <3>2. q[j + 1] = x
      BY <1>2, <2>1, <3>1
    <3> QED
      BY <3>1, <3>2 DEF ToSet
  <2> QED
    BY <1>1, <2>1, <2>2, <2>3
<1> QED
  BY <1>2, <1>3 DEF p

LEMMA FinalizeTyped ==
    ASSUME TypeOK, NEW aw \in Seq(Entries), NEW i \in DOMAIN aw, owner[aw[i].session] \in Parents,
           FinalizeSession(i, aw)
    PROVE  /\ awaiting' \in Seq(Entries) /\ ToSet(awaiting') \subseteq ToSet(aw)
           /\ NodeTypeOK' /\ clean' \subseteq Parents
           /\ report' \in [Sessions -> Seq({"response", "cancelled"})]
           /\ finals' \in [Sessions -> Nat]
<1>0. SessionTypeOK /\ NodeTypeOK /\ HistoryTypeOK
  BY Parts
<1> DEFINE a == aw[i]
           s == a.session
           rest == EntriesKept(i, aw)
           same == {b \in ToSet(rest) : b.id = a.id}
           tell == /\ \E b \in same : b.why = "EarlyCleanup"
                   /\ CleaningFinished(same)
                   /\ \A t \in Sessions : HasPair(t) => owner[t] # owner[s]
           gone == {b \in ToSet(rest) : owner[b.session] = owner[s]}
           u == Without(inputs["terminal"], {s})
<1>1. a \in Entries
  OBVIOUS
<1>2. s \in Sessions /\ a.id \in CleanupIds
  BY <1>1 DEF Entries
<1>3. rest \in Seq(Entries) /\ ToSet(rest) \subseteq ToSet(aw)
  BY RemoveAtIn DEF EntriesKept
<1>4. /\ awaiting' = IF tell THEN Without(rest, gone) ELSE rest
      /\ clean' = IF tell /\ a.why = "EarlyCleanup" THEN clean \cup {owner[s]} ELSE clean
      /\ staging' = staging \ {s}
      /\ inputs' = IF a.why = "Terminated" THEN inputs ELSE [inputs EXCEPT !["terminal"] = u]
      /\ finals' = [finals EXCEPT ![s] = @ + 1]
  BY DEF FinalizeSession, StagingLeft
<1>5. \/ report' = [report EXCEPT ![s] = Append(@, "cancelled")]
      \/ report' = [report EXCEPT ![s] = Append(@, "response")]
      \/ report' = [report EXCEPT ![s] = @]
  BY DEF FinalizeSession
<1>7. InputsOK(inputs) /\ staging \subseteq Sessions
  BY <1>0, InputsType
<1>8. u \in Seq(Sessions)
  BY <1>7, WithoutSet DEF InputsOK
<1>9. awaiting' \in Seq(Entries) /\ ToSet(awaiting') \subseteq ToSet(aw)
  <2> HIDE DEF rest, gone, tell
  <2>1. Without(rest, gone) \in Seq(Entries) /\ ToSet(Without(rest, gone)) \subseteq ToSet(rest)
    BY <1>3, WithoutSet
  <2> QED
    BY <1>3, <1>4, <2>1
<1>10. NodeTypeOK'
  <2> HIDE DEF s, u, a
  <2>1. InputsOK(inputs')
    BY <1>4, <1>7, <1>8, SetInput
  <2> QED
    BY <1>4, <1>7, <2>1, InputsTypeNext
<1>11. clean' \subseteq Parents
  BY <1>0, <1>4 DEF HistoryTypeOK
<1>12. report' \in [Sessions -> Seq({"response", "cancelled"})]
  <2>1. \A q \in Seq({"response", "cancelled"}) :
           /\ Append(q, "cancelled") \in Seq({"response", "cancelled"})
           /\ Append(q, "response") \in Seq({"response", "cancelled"})
    OBVIOUS
  <2>2. report \in [Sessions -> Seq({"response", "cancelled"})]
    BY <1>0 DEF HistoryTypeOK
  <2> HIDE DEF s
  <2>3. CASE report' = [report EXCEPT ![s] = Append(@, "cancelled")]
    BY <1>2, <2>1, <2>2, <2>3
  <2>4. CASE report' = [report EXCEPT ![s] = Append(@, "response")]
    BY <1>2, <2>1, <2>2, <2>4
  <2>5. CASE report' = [report EXCEPT ![s] = @]
    BY <1>2, <2>2, <2>5
  <2> QED
    BY <1>5, <2>3, <2>4, <2>5
<1>13. finals' \in [Sessions -> Nat]
  BY <1>0, <1>2, <1>4 DEF HistoryTypeOK
<1> QED
  BY <1>9, <1>10, <1>11, <1>12, <1>13

\* Who ends was begun for a parent.
Owned ==
    /\ \A s \in Sessions : status[s] # "unborn" => owner[s] \in Parents
    /\ \A c \in closing : owner[c.session] \in Parents
    /\ \A a \in ToSet(awaiting) : owner[a.session] \in Parents

\* What the finish node does with the entries: one may get less to wait for, and
\* one may be finalized.
FinishStep(aw) ==
    \/ Unfinalized(aw)
    \/ \E i \in DOMAIN aw : FinalizeSession(i, aw)

Updated(aw) ==
    /\ aw \in Seq(Entries) /\ DOMAIN aw = DOMAIN awaiting
    /\ \A j \in DOMAIN aw : aw[j].session = awaiting[j].session /\ aw[j].why = awaiting[j].why

LEMMA UpdatedSame == awaiting \in Seq(Entries) => Updated(awaiting)
BY DEF Updated

LEMMA UpdatedLeft ==
    ASSUME awaiting \in Seq(Entries), NEW i \in DOMAIN awaiting, awaiting[i].left # None, NEW r
    PROVE  Updated([awaiting EXCEPT ![i].left = @ \ {r}])
<1>1. awaiting[i] \in Entries
  OBVIOUS
<1>2. awaiting[i].left \in SUBSET Runs
  BY <1>1 DEF Entries
<1> DEFINE l == awaiting[i].left \ {r}
<1>3. l \in {None} \cup SUBSET Runs
  BY <1>2
<1>4. [awaiting EXCEPT ![i].left = @ \ {r}] = [awaiting EXCEPT ![i].left = l]
  OBVIOUS
<1> HIDE DEF l
<1>5. Updated([awaiting EXCEPT ![i].left = l])
  <2> DEFINE aw == [awaiting EXCEPT ![i].left = l]
  <2>1. LeftSet(aw, awaiting, i, l)
    BY <1>3, SetLeft
  <2> HIDE DEF aw
  <2>2. Updated(aw)
    BY <2>1 DEF Updated, LeftSet
  <2> QED
    BY <2>2 DEF aw
<1> QED
  BY <1>4, <1>5

LEMMA FinishTyped ==
    ASSUME TypeOK, Owned, NEW aw, Updated(aw), FinishStep(aw)
    PROVE  /\ awaiting' \in Seq(Entries) /\ ToSet(awaiting') \subseteq ToSet(aw)
           /\ NodeTypeOK' /\ clean' \subseteq Parents
           /\ report' \in [Sessions -> Seq({"response", "cancelled"})]
           /\ finals' \in [Sessions -> Nat]
<1>1. CASE Unfinalized(aw)
  <2>1. awaiting' = aw /\ UNCHANGED <<nodeVars, clean, report, finals>>
    BY <1>1 DEF Unfinalized
  <2>2. NodeTypeOK'
    BY <2>1, Parts DEF NodeTypeOK, nodeVars
  <2> QED
    BY <2>1, <2>2, Parts DEF HistoryTypeOK, Updated
<1>2. ASSUME NEW i \in DOMAIN aw, FinalizeSession(i, aw)
      PROVE  /\ awaiting' \in Seq(Entries) /\ ToSet(awaiting') \subseteq ToSet(aw)
             /\ NodeTypeOK' /\ clean' \subseteq Parents
             /\ report' \in [Sessions -> Seq({"response", "cancelled"})]
             /\ finals' \in [Sessions -> Nat]
  <2>1. aw[i].session = awaiting[i].session /\ i \in DOMAIN awaiting /\ aw \in Seq(Entries)
    BY DEF Updated
  <2>2. awaiting \in Seq(Entries)
    BY Parts DEF CleanTypeOK, Entries
  <2>3. awaiting[i] \in ToSet(awaiting)
    BY <2>1, <2>2 DEF ToSet
  <2>4. owner[aw[i].session] \in Parents
    BY <2>1, <2>3 DEF Owned
  <2> QED
    BY <1>2, <2>1, <2>4, FinalizeTyped
<1> QED
  BY <1>1, <1>2 DEF FinishStep

\* Which inputs of the finish node a step takes: a check, or what came from a
\* cleanup workflow, or nothing.
LEMMA FinishIs ==
    ASSUME TypeOK, ExecFinish
    PROVE  \E aw : /\ Updated(aw) /\ FinishStep(aw)
                   /\ checks' \in Seq(Sessions) /\ dones' \in Seq(Runs)
<1>0. awaiting \in Seq(Entries) /\ checks \in Seq(Sessions) /\ dones \in Seq(Runs)
  BY Parts DEF CleanTypeOK, Entries
<1>1. CASE checks # <<>>
  <2> DEFINE i == EntryOf(Head(checks))
  <2>1. i = 0 \/ i \in DOMAIN awaiting
    BY <1>0, EntryFound
  <2>2. checks' = Tail(checks) /\ UNCHANGED dones
    BY <1>1 DEF ExecFinish
  <2>3. \/ Unfinalized(awaiting)
        \/ i # 0 /\ FinalizeSession(i, awaiting)
    BY <1>1 DEF ExecFinish
  <2> HIDE DEF i
  <2>4. FinishStep(awaiting)
    BY <2>1, <2>3 DEF FinishStep
  <2>5. Tail(checks) \in Seq(Sessions)
    BY <1>0, <1>1, TailSet
  <2> QED
    BY <1>0, <2>2, <2>4, <2>5, UpdatedSame
<1>2. CASE checks = <<>> /\ dones = <<>>
  <2>1. Unfinalized(awaiting) /\ UNCHANGED <<checks, dones>>
    BY <1>2 DEF ExecFinish
  <2> QED
    BY <1>0, <2>1, UpdatedSame DEF FinishStep
<1>3. CASE checks = <<>> /\ dones # <<>>
  <2> DEFINE r == Head(dones)
             i == EntryWith(r)
             aw == [awaiting EXCEPT ![i].left = @ \ {r}]
  <2>1. dones' = Tail(dones) /\ UNCHANGED checks
    BY <1>3 DEF ExecFinish
  <2>2. Tail(dones) \in Seq(Runs)
    BY <1>0, <1>3, TailSet
  <2>3. \/ i = 0 /\ Unfinalized(awaiting)
        \/ i # 0 /\ (FinalizeSession(i, aw) \/ Unfinalized(aw))
    BY <1>3 DEF ExecFinish
  <2>4. i # 0 => i \in DOMAIN awaiting /\ awaiting[i].left # None
    BY <1>0, RunFound
  <2> HIDE DEF r, i
  <2>5. CASE i = 0
    BY <1>0, <2>1, <2>2, <2>3, <2>5, UpdatedSame DEF FinishStep
  <2>6. CASE i # 0
    <3>1. Updated(aw)
      BY <1>0, <2>4, <2>6, UpdatedLeft
    <3>2. i \in DOMAIN aw
      BY <2>4, <2>6
    <3> HIDE DEF aw
    <3>3. FinishStep(aw)
      BY <2>3, <2>6, <3>2 DEF FinishStep
    <3> QED
      BY <1>0, <2>1, <2>2, <3>1, <3>3
  <2> QED
    BY <2>5, <2>6
<1> QED
  BY <1>1, <1>2, <1>3

LEMMA ExecFinishTyped == TypeOK /\ Owned /\ ExecFinish => TypeOK'
<1> SUFFICES ASSUME TypeOK, Owned, ExecFinish PROVE TypeOK'
  OBVIOUS
<1>0. SessionTypeOK /\ TaskTypeOK /\ NodeTypeOK /\ CleanTypeOK /\ RosterTypeOK /\ HistoryTypeOK
  BY Parts
<1>1. PICK aw : /\ Updated(aw) /\ FinishStep(aw)
                /\ checks' \in Seq(Sessions) /\ dones' \in Seq(Runs)
  BY FinishIs
<1>2. /\ awaiting' \in Seq(Entries) /\ NodeTypeOK' /\ clean' \subseteq Parents
      /\ report' \in [Sessions -> Seq({"response", "cancelled"})]
      /\ finals' \in [Sessions -> Nat]
  BY <1>1, FinishTyped
<1>3. Pop("finish") /\ queue' = Tail(queue)
      /\ UNCHANGED <<sessionVars, taskVars, closing, contents, runs, deferred, cancels,
                     disposed, finished, collected, begun, asked, awake>>
  BY DEF ExecFinish
<1>4. Tail(queue) \in Seq(Queued) /\ phase' = "cleanups"
  BY <1>0, <1>3, PopTyped
<1>5. RosterTypeOK'
  BY <1>0, <1>3, <1>4 DEF RosterTypeOK, Queued
<1>6. CleanTypeOK'
  BY <1>0, <1>1, <1>2, <1>3 DEF CleanTypeOK, Entries
<1>7. HistoryTypeOK'
  BY <1>0, <1>2, <1>3 DEF HistoryTypeOK
<1> QED
  BY <1>0, <1>2, <1>3, <1>5, <1>6, <1>7, PartsNext DEF SessionTypeOK, sessionVars, TaskTypeOK, taskVars

LEMMA CleanupWorkflowTyped ==
    ASSUME NEW r \in runs, TypeOK, CleanupWorkflowDone(r) \/ CleanupWorkflowCancelled(r)
    PROVE  TypeOK'
<1>0. SessionTypeOK /\ TaskTypeOK /\ NodeTypeOK /\ CleanTypeOK /\ RosterTypeOK /\ HistoryTypeOK
  BY Parts
<1>1. r \in Runs
  BY <1>0 DEF CleanTypeOK
<1>2. /\ runs' = runs \ {r} /\ phase' = "cleanups"
      /\ dones' = Append(dones, r) \/ UNCHANGED dones
      /\ queue' = Append(queue, "finish") \/ UNCHANGED queue
      /\ UNCHANGED <<sessionVars, taskVars, nodeVars, closing, cleanVars, checks, deferred,
                     cancels, disposed, finished, collected, historyVars, awake>>
  BY DEF CleanupWorkflowDone, CleanupWorkflowCancelled, rosterVars
<1>3. dones' \in Seq(Runs)
  <2>1. dones \in Seq(Runs)
    BY <1>0 DEF CleanTypeOK
  <2>2. Append(dones, r) \in Seq(Runs)
    BY <1>1, <2>1
  <2> QED
    BY <1>2, <2>1, <2>2
<1>4. CleanTypeOK'
  BY <1>0, <1>2, <1>3 DEF CleanTypeOK, cleanVars
<1>5. queue' \in Seq(Queued)
  <2>1. queue \in Seq(Queued) /\ Append(queue, "finish") \in Seq(Queued)
    BY <1>0 DEF RosterTypeOK, Queued
  <2> QED
    BY <1>2, <2>1
<1>6. RosterTypeOK'
  BY <1>0, <1>2, <1>5 DEF RosterTypeOK, Queued
<1> QED
  BY <1>0, <1>2, <1>4, <1>6, PartsNext DEF SessionTypeOK, sessionVars, TaskTypeOK, taskVars,
     NodeTypeOK, nodeVars, HistoryTypeOK, historyVars

LEMMA CollectTyped ==
    ASSUME NEW T \in SUBSET Sessions, TypeOK, Collect(T)
    PROVE  TypeOK'
<1>0. SessionTypeOK /\ TaskTypeOK /\ NodeTypeOK /\ CleanTypeOK /\ RosterTypeOK /\ HistoryTypeOK
  BY Parts
<1>1. /\ collected' = T /\ awake' = FALSE /\ phase' = "channel"
      /\ UNCHANGED <<sessionVars, taskVars, nodeVars, closing, cleanVars, finishVars,
                     queue, deferred, cancels, disposed, finished, historyVars>>
  BY DEF Collect
<1>2. RosterTypeOK'
  BY <1>0, <1>1 DEF RosterTypeOK
<1> QED
  BY <1>0, <1>1, <1>2, PartsNext DEF SessionTypeOK, sessionVars, TaskTypeOK, taskVars,
     NodeTypeOK, nodeVars, CleanTypeOK, cleanVars, finishVars, HistoryTypeOK, historyVars

LEMMA CollectTaskTyped ==
    ASSUME NEW s \in Sessions, TypeOK, CollectTask(s)
    PROVE  TypeOK'
<1>0. SessionTypeOK /\ TaskTypeOK /\ NodeTypeOK /\ CleanTypeOK /\ RosterTypeOK /\ HistoryTypeOK
  BY Parts
<1> DEFINE id == arriving[s].id
           ready == id # None /\ NoOtherTask(s, id) /\ contents[id] # {}
<1>1. /\ collected' = collected \ {s}
      /\ tasks' = [tasks EXCEPT ![s] = "none"]
      /\ taskId' = [taskId EXCEPT ![s] = None]
      /\ arriving' = [arriving EXCEPT ![s] = NoItem]
      /\ disposed' = disposed \/ disposed' = Append(disposed, s)
      /\ UNCHANGED <<sessionVars, nodeVars, closing, awaiting, finishVars, phase,
                     queue, deferred, cancels, historyVars, awake>>
  BY DEF CollectTask
<1>2. IF ready THEN Register(contents[id] \ {"async"}, s, id) ELSE UNCHANGED <<contents, finished>>
  BY DEF CollectTask
<1>3. id \in Ids
  BY <1>0 DEF TaskTypeOK
<1>4. contents' \in [CleanupIds -> SUBSET Inner] /\ finished' \in Seq([session : Sessions, id : CleanupIds])
  <2>1. CASE ready
    <3>1. id \in CleanupIds
      BY <1>3, <2>1 DEF Ids
    <3>2. contents[id] \ {"async"} \in SUBSET Inner
      BY <1>0, <3>1 DEF CleanTypeOK
    <3> HIDE DEF id
    <3> QED
      BY <1>2, <2>1, <3>1, <3>2, RegisterTyped
  <2>2. CASE ~ready
    BY <1>0, <1>2, <2>2 DEF CleanTypeOK, RosterTypeOK
  <2> QED
    BY <2>1, <2>2
<1>5. TaskTypeOK'
  BY <1>0, <1>1 DEF TaskTypeOK, NoItem, Ids
<1>6. CleanTypeOK'
  BY <1>0, <1>1, <1>4 DEF CleanTypeOK, finishVars
<1>7. disposed' \in Seq(Sessions)
  <2>1. disposed \in Seq(Sessions) /\ Append(disposed, s) \in Seq(Sessions)
    BY <1>0 DEF RosterTypeOK
  <2> QED
    BY <1>1, <2>1
<1>8. RosterTypeOK'
  BY <1>0, <1>1, <1>4, <1>7 DEF RosterTypeOK
<1> QED
  BY <1>0, <1>1, <1>5, <1>6, <1>8, PartsNext DEF SessionTypeOK, sessionVars,
     NodeTypeOK, nodeVars, HistoryTypeOK, historyVars

LEMMA CollectDeferredTyped == TypeOK /\ CollectDeferred => TypeOK'
<1> SUFFICES ASSUME TypeOK, CollectDeferred PROVE TypeOK'
  OBVIOUS
<1>0. SessionTypeOK /\ TaskTypeOK /\ NodeTypeOK /\ CleanTypeOK /\ RosterTypeOK /\ HistoryTypeOK
  BY Parts
<1>1. /\ queue' = queue \o deferred /\ deferred' = <<>>
      /\ phase' \in {"cleanups", "disposals"}
      /\ UNCHANGED <<sessionVars, taskVars, nodeVars, closing, cleanVars, finishVars,
                     cancels, disposed, finished, collected, historyVars, awake>>
  BY DEF CollectDeferred
<1>2. queue' \in Seq(Queued) /\ deferred' \in Seq({"terminal"})
  <2>1. queue \in Seq(Queued) /\ deferred \in Seq({"terminal"}) /\ "terminal" \in Queued
    BY <1>0 DEF RosterTypeOK, Queued
  <2>2. queue \o deferred \in Seq(Queued)
    BY <2>1, WakesTyped
  <2> QED
    BY <1>1, <2>2
<1>3. RosterTypeOK'
  BY <1>0, <1>1, <1>2 DEF RosterTypeOK, Queued
<1> QED
  BY <1>0, <1>1, <1>3, PartsNext DEF SessionTypeOK, sessionVars, TaskTypeOK, taskVars,
     NodeTypeOK, nodeVars, CleanTypeOK, cleanVars, finishVars, HistoryTypeOK, historyVars

LEMMA ValidateTyped == TypeOK /\ Validate => TypeOK'
<1> SUFFICES ASSUME TypeOK, Validate PROVE TypeOK'
  OBVIOUS
<1>0. SessionTypeOK /\ TaskTypeOK /\ NodeTypeOK /\ CleanTypeOK /\ RosterTypeOK /\ HistoryTypeOK
  BY Parts
<1> DEFINE s == Last(disposed)
           S == {t \in {s} : ~Reachable(t) /\ CanCancel(t)}
           id == [t \in Sessions |-> t]
<1>1. /\ disposed # <<>> /\ disposed' = Front(disposed) /\ phase' \in {"cleanups", "disposals"}
      /\ Close(S, "Cancelled", id, "Cancelled") /\ asked' = asked \cup S
      /\ UNCHANGED <<active, owner, parent, taskVars, nodeVars, cleanVars, finishVars, queue, deferred,
                     cancels, finished, collected, begun, report, finals, clean, awake>>
  BY DEF Validate
<1>2. s \in Sessions /\ Front(disposed) \in Seq(Sessions)
  BY <1>0, <1>1, LastFront DEF RosterTypeOK
<1>3. S \in SUBSET Sessions /\ \A t \in S : id[t] \in CleanupIds
  BY <1>2, IdsDiffer
<1> HIDE DEF s, S, id
<1>4. status' \in [Sessions -> Status] /\ closing' \subseteq [session : Sessions, id : CleanupIds, why : Why]
  BY <1>1, <1>3, CloseTyped DEF Status, Why
<1>5. SessionTypeOK' /\ CleanTypeOK'
  BY <1>0, <1>1, <1>4 DEF SessionTypeOK, CleanTypeOK, cleanVars, finishVars
<1>6. RosterTypeOK' /\ HistoryTypeOK'
  BY <1>0, <1>1, <1>2, <1>3 DEF RosterTypeOK, HistoryTypeOK
<1> QED
  BY <1>0, <1>1, <1>5, <1>6, PartsNext DEF TaskTypeOK, taskVars, NodeTypeOK, nodeVars

LEMMA OuterInputTyped ==
    ASSUME NEW p \in Parents, TypeOK, OuterInput(p)
    PROVE  TypeOK'
<1>0. SessionTypeOK /\ TaskTypeOK /\ NodeTypeOK /\ CleanTypeOK /\ RosterTypeOK /\ HistoryTypeOK
  BY Parts
<1>1. /\ inputs' = [inputs EXCEPT !["scope"] = Append(@, p)]
      /\ queue' = Append(queue, "scope") /\ phase' = "cleanups"
      /\ UNCHANGED <<sessionVars, taskVars, staging, closing, cleanVars, finishVars,
                     deferred, cancels, disposed, finished, collected, historyVars, awake>>
  BY DEF OuterInput
<1>2. InputsOK(inputs) /\ staging \subseteq Sessions
  BY <1>0, InputsType
<1>3. InputsOK(inputs')
  <2> DEFINE q == Append(inputs["scope"], p)
  <2>1. q \in Seq(Parents)
    BY <1>2 DEF InputsOK
  <2>2. inputs' = [inputs EXCEPT !["scope"] = q]
    BY <1>1
  <2> HIDE DEF q
  <2> QED
    BY <1>2, <2>1, <2>2, SetScope
<1>4. queue' \in Seq(Queued)
  BY <1>0, <1>1 DEF RosterTypeOK, Queued
<1>5. RosterTypeOK'
  BY <1>0, <1>1, <1>4 DEF RosterTypeOK, Queued
<1> QED
  BY <1>0, <1>1, <1>2, <1>3, <1>5, PartsNext, InputsTypeNext DEF SessionTypeOK, sessionVars,
     TaskTypeOK, taskVars, CleanTypeOK, cleanVars, finishVars, HistoryTypeOK, historyVars

LEMMA OuterCleanupTyped ==
    ASSUME NEW p \in Parents, TypeOK, OuterCleanup(p)
    PROVE  TypeOK'
<1>0. SessionTypeOK /\ TaskTypeOK /\ NodeTypeOK /\ CleanTypeOK /\ RosterTypeOK /\ HistoryTypeOK
  BY Parts
<1> DEFINE S == {s \in Sessions : HasPair(s) /\ owner[s] = p /\ status[s] # "Cleanup"}
           id == [s \in Sessions |-> p]
           q == Without(inputs["scope"], {p})
<1>1. /\ parent' = [parent EXCEPT ![p] = "cleaning"]
      /\ inputs' = [inputs EXCEPT !["scope"] = q] /\ phase' = "cleanups"
      /\ clean' = clean \cup {p} \/ clean' = clean
      /\ UNCHANGED <<active, owner, taskVars, staging, cleanVars, finishVars, rosterVars,
                     begun, report, finals, asked>>
  BY DEF OuterCleanup
<1>2. \/ /\ status' = [s \in Sessions |-> IF s \in S THEN "DeferredCleanup" ELSE status[s]]
         /\ UNCHANGED closing
      \/ Close(S, "Cleanup", id, "EarlyCleanup")
  BY DEF OuterCleanup
<1>3. InputsOK(inputs) /\ staging \subseteq Sessions
  BY <1>0, InputsType
<1>4. InputsOK(inputs')
  <2>1. q \in Seq(Parents)
    BY <1>3, WithoutSet DEF InputsOK
  <2> HIDE DEF q
  <2> QED
    BY <1>1, <1>3, <2>1, SetScope
<1>5. S \in SUBSET Sessions /\ \A t \in S : id[t] \in CleanupIds
  BY IdsDiffer
<1> HIDE DEF S, id
<1>6. status' \in [Sessions -> Status] /\ closing' \subseteq [session : Sessions, id : CleanupIds, why : Why]
  <2>1. "Cleanup" \in Status /\ "DeferredCleanup" \in Status /\ "EarlyCleanup" \in Why
    BY DEF Status, Why
  <2>2. CASE Close(S, "Cleanup", id, "EarlyCleanup")
    BY <1>5, <2>1, <2>2, CloseTyped
  <2>3. CASE /\ status' = [s \in Sessions |-> IF s \in S THEN "DeferredCleanup" ELSE status[s]]
             /\ UNCHANGED closing
    BY <1>0, <2>1, <2>3 DEF SessionTypeOK, CleanTypeOK
  <2> QED
    BY <1>2, <2>2, <2>3
<1>7. SessionTypeOK' /\ CleanTypeOK'
  BY <1>0, <1>1, <1>6 DEF SessionTypeOK, CleanTypeOK, cleanVars, finishVars
<1>8. RosterTypeOK' /\ HistoryTypeOK'
  BY <1>0, <1>1 DEF RosterTypeOK, HistoryTypeOK, rosterVars
<1> QED
  BY <1>0, <1>1, <1>3, <1>4, <1>7, <1>8, PartsNext, InputsTypeNext DEF TaskTypeOK, taskVars

LEMMA OuterStopTyped ==
    ASSUME NEW p \in Parents, TypeOK, OuterStop(p)
    PROVE  TypeOK'
<1>0. SessionTypeOK /\ TaskTypeOK /\ NodeTypeOK /\ CleanTypeOK /\ RosterTypeOK /\ HistoryTypeOK
  BY Parts
<1>1. /\ cancels' = Append(cancels, p) /\ phase' = "cleanups"
      /\ asked' = asked \cup {s \in Sessions : owner[s] = p}
      /\ UNCHANGED <<sessionVars, taskVars, nodeVars, closing, cleanVars, finishVars,
                     queue, deferred, disposed, finished, collected, begun, report, finals, clean, awake>>
  BY DEF OuterStop
<1>2. cancels' \in Seq(CleanupIds \cup {All})
  BY <1>0, <1>1, IdsDiffer DEF RosterTypeOK
<1>3. RosterTypeOK' /\ HistoryTypeOK'
  BY <1>0, <1>1, <1>2 DEF RosterTypeOK, HistoryTypeOK
<1> QED
  BY <1>0, <1>1, <1>3, PartsNext DEF SessionTypeOK, sessionVars, TaskTypeOK, taskVars,
     NodeTypeOK, nodeVars, CleanTypeOK, cleanVars, finishVars

LEMMA IdleTyped ==
    ASSUME TypeOK, OtherOperation \/ UNCHANGED vars
    PROVE  TypeOK'
<1>0. SessionTypeOK /\ TaskTypeOK /\ NodeTypeOK /\ CleanTypeOK /\ RosterTypeOK /\ HistoryTypeOK
  BY Parts
<1>1. /\ phase' \in {phase, "cleanups"}
      /\ UNCHANGED <<sessionVars, taskVars, nodeVars, closing, cleanVars, finishVars, rosterVars, historyVars>>
  BY DEF OtherOperation, vars
<1>2. RosterTypeOK'
  BY <1>0, <1>1 DEF RosterTypeOK, rosterVars
<1> QED
  BY <1>0, <1>1, <1>2, PartsNext DEF SessionTypeOK, sessionVars, TaskTypeOK, taskVars,
     NodeTypeOK, nodeVars, CleanTypeOK, cleanVars, finishVars, HistoryTypeOK, historyVars

-----------------------------------------------------------------------------
(* Whoever ends has a parent, and every variable keeps its type *)

\* A step keeps the owners if it begins sessions only for a parent, and if what
\* it closes and what it enters into the list of cleanups was begun before.
LEMMA OwnedKept ==
    ASSUME TypeOK, Owned,
           \A s \in Sessions : owner[s] \in Parents => owner'[s] \in Parents,
           \A s \in Sessions : status'[s] # "unborn" => status[s] # "unborn" \/ owner'[s] \in Parents,
           \A c \in closing' : c \in closing \/ (c.session \in Sessions /\ status[c.session] # "unborn"),
           \A a \in ToSet(awaiting') : \/ \E b \in ToSet(awaiting) : b.session = a.session
                                       \/ \E c \in closing : c.session = a.session
    PROVE  Owned'
<1>1. \A c \in closing : c.session \in Sessions
  BY DEF TypeOK, CleanTypeOK
<1>2. \A b \in ToSet(awaiting) : b.session \in Sessions
  <2>1. awaiting \in Seq(Entries)
    BY DEF TypeOK, CleanTypeOK, Entries
  <2>2. \A b \in ToSet(awaiting) : b \in Entries
    BY <2>1 DEF ToSet
  <2>3. \A b \in Entries : b.session \in Sessions
    BY DEF Entries
  <2> QED
    BY <2>2, <2>3
<1>3. \A s \in Sessions : status'[s] # "unborn" => owner'[s] \in Parents
  BY DEF Owned
<1>4. \A c \in closing' : owner'[c.session] \in Parents
  BY <1>1 DEF Owned
<1>5. \A a \in ToSet(awaiting') : owner'[a.session] \in Parents
  BY <1>1, <1>2 DEF Owned
<1> QED
  BY <1>3, <1>4, <1>5 DEF Owned

\* Most steps leave the sessions and the list of cleanups alone.
Calm == UNCHANGED <<status, owner, closing, awaiting>>

LEMMA CalmOwned == Owned /\ Calm => Owned'
BY DEF Owned, Calm

LEMMA CloseOwned ==
    ASSUME TypeOK, Owned, NEW S \in SUBSET Sessions, \A s \in S : status[s] # "unborn",
           NEW st, NEW id, NEW why, Close(S, st, id, why), UNCHANGED <<owner, awaiting>>
    PROVE  Owned'
<1>1. \A s \in Sessions : status'[s] = IF s \in S THEN st ELSE status[s]
  BY DEF Close
<1>2. \A c \in closing' : c.session \in S
  BY DEF Close
<1>3. \A c \in closing' : c \in closing \/ (c.session \in Sessions /\ status[c.session] # "unborn")
  BY <1>2
<1>4. \A s \in Sessions : status'[s] # "unborn" => status[s] # "unborn" \/ owner'[s] \in Parents
  BY <1>1
<1> QED
  BY <1>3, <1>4, OwnedKept

LEMMA CleanSessionOwned == TypeOK /\ Owned /\ CleanSession => Owned'
<1> SUFFICES ASSUME TypeOK, Owned, CleanSession PROVE Owned'
  OBVIOUS
<1>1. PICK c \in closing :
        /\ closing' = closing \ {c}
        /\ awaiting' = Append(awaiting, [session |-> c.session, id |-> c.id, why |-> c.why, left |-> None])
        /\ UNCHANGED <<status, owner>>
  BY DEF CleanSession
<1> DEFINE a == [session |-> c.session, id |-> c.id, why |-> c.why, left |-> None]
<1>2. awaiting \in Seq(Entries) /\ a \in Entries /\ a.session = c.session
  BY DEF TypeOK, CleanTypeOK, Entries
<1> HIDE DEF a
<1>3. ToSet(awaiting') = ToSet(awaiting) \cup {a}
  <2>1. awaiting' = Append(awaiting, a)
    BY <1>1 DEF a
  <2> QED
    BY <1>2, <2>1, AppendSet
<1> QED
  BY <1>1, <1>2, <1>3, OwnedKept

LEMMA UpdatedSessions ==
    ASSUME NEW aw, Updated(aw), awaiting \in Seq(Entries)
    PROVE  \A a \in ToSet(aw) : \E b \in ToSet(awaiting) : b.session = a.session
<1> SUFFICES ASSUME NEW a \in ToSet(aw) PROVE \E b \in ToSet(awaiting) : b.session = a.session
  OBVIOUS
<1>1. PICK j \in 1..Len(aw) : aw[j] = a
  BY DEF ToSet
<1>2. j \in DOMAIN aw /\ DOMAIN awaiting = 1..Len(awaiting)
  BY DEF Updated
<1>3. awaiting[j].session = a.session /\ j \in 1..Len(awaiting)
  BY <1>1, <1>2 DEF Updated
<1> QED
  BY <1>3 DEF ToSet

LEMMA TriggerCleanupOwned == TypeOK /\ Owned /\ TriggerCleanup => Owned'
<1> SUFFICES ASSUME TypeOK, Owned, TriggerCleanup PROVE Owned'
  OBVIOUS
<1> DEFINE s == Last(finished).session
           i == EntryOf(s)
<1>0. awaiting \in Seq(Entries) /\ awaiting' \in Seq(Entries) /\ status \in [Sessions -> Status]
  <2>1. TypeOK'
    BY TriggerCleanupTyped
  <2> QED
    BY <2>1 DEF TypeOK, CleanTypeOK, Entries, SessionTypeOK
<1>1. /\ status' = [status EXCEPT ![s] = IF HasPair(s) THEN "dropped" ELSE @]
      /\ UNCHANGED <<owner, closing>>
  BY DEF TriggerCleanup
<1>2. \/ UNCHANGED awaiting
      \/ i # 0 /\ \E l : awaiting' = [awaiting EXCEPT ![i].left = l]
  BY DEF TriggerCleanup
<1>3. i = 0 \/ i \in DOMAIN awaiting
  <2> HIDE DEF s
  <2> QED
    BY <1>0, EntryFound
<1> HIDE DEF i
<1>4. \A a \in ToSet(awaiting') : \E b \in ToSet(awaiting) : b.session = a.session
  <2>1. CASE UNCHANGED awaiting
    BY <2>1
  <2>2. CASE i # 0 /\ \E l : awaiting' = [awaiting EXCEPT ![i].left = l]
    <3>1. PICK l : awaiting' = [awaiting EXCEPT ![i].left = l]
      BY <2>2
    <3>2. DOMAIN awaiting' = DOMAIN awaiting
      BY <3>1
    <3>3. \A j \in DOMAIN awaiting : awaiting[j] \in Entries
      BY <1>0
    <3>4. \A j \in DOMAIN awaiting : awaiting'[j].session = awaiting[j].session
      BY <1>3, <2>2, <3>1, <3>3 DEF Entries
    <3>5. SUFFICES ASSUME NEW a \in ToSet(awaiting')
                   PROVE  \E b \in ToSet(awaiting) : b.session = a.session
      OBVIOUS
    <3>6. PICK j \in 1..Len(awaiting') : awaiting'[j] = a
      BY <3>5 DEF ToSet
    <3>7. j \in DOMAIN awaiting /\ j \in 1..Len(awaiting)
      BY <1>0, <3>2
    <3> QED
      BY <3>4, <3>6, <3>7 DEF ToSet
  <2> QED
    BY <1>2, <2>1, <2>2
<1>5. \A t \in Sessions : status'[t] # "unborn" => status[t] # "unborn" \/ owner'[t] \in Parents
  BY <1>0, <1>1 DEF HasPair
<1> QED
  BY <1>1, <1>4, <1>5, OwnedKept

LEMMA ExecFinishOwned == TypeOK /\ Owned /\ ExecFinish => Owned'
<1> SUFFICES ASSUME TypeOK, Owned, ExecFinish PROVE Owned'
  OBVIOUS
<1>1. PICK aw : Updated(aw) /\ FinishStep(aw)
  BY FinishIs
<1>2. ToSet(awaiting') \subseteq ToSet(aw) /\ awaiting \in Seq(Entries)
  BY <1>1, FinishTyped DEF TypeOK, CleanTypeOK, Entries
<1>3. \A a \in ToSet(awaiting') : \E b \in ToSet(awaiting) : b.session = a.session
  BY <1>1, <1>2, UpdatedSessions
<1>4. UNCHANGED <<status, owner, closing>>
  BY DEF ExecFinish, sessionVars
<1> QED
  BY <1>3, <1>4, OwnedKept

LEMMA ExecScopeOwned == TypeOK /\ Owned /\ ExecScope => Owned'
<1> SUFFICES ASSUME TypeOK, Owned, ExecScope PROVE Owned'
  OBVIOUS
<1>0. UNCHANGED <<closing, awaiting>>
  BY DEF ExecScope, cleanVars
<1>1. CASE inputs["scope"] = <<>>
  <2>1. UNCHANGED <<status, owner>>
    BY <1>1 DEF ExecScope
  <2> QED
    BY <1>0, <2>1, CalmOwned DEF Calm
<1>2. CASE inputs["scope"] # <<>>
  <2>1. PICK s \in Sessions :
            /\ status' = [status EXCEPT ![s] = "Ongoing"]
            /\ owner' = [owner EXCEPT ![s] = Head(inputs["scope"])]
    BY <1>2 DEF ExecScope
  <2>2. Head(inputs["scope"]) \in Parents
    <3>1. inputs["scope"] \in Seq(Parents)
      BY DEF TypeOK, NodeTypeOK
    <3> QED
      BY <1>2, <3>1, TailSet
  <2>3. status \in [Sessions -> Status] /\ owner \in [Sessions -> Parents \cup {None}]
    BY DEF TypeOK, SessionTypeOK
  <2>4. \A t \in Sessions : status'[t] # "unborn" => status[t] # "unborn" \/ owner'[t] \in Parents
    BY <2>1, <2>2, <2>3
  <2>5. \A t \in Sessions : owner[t] \in Parents => owner'[t] \in Parents
    BY <2>1, <2>2, <2>3
  <2> QED
    BY <1>0, <2>4, <2>5, OwnedKept
<1> QED
  BY <1>1, <1>2

LEMMA ClosersOwned ==
    ASSUME TypeOK, Owned,
           HandleCancel \/ Validate \/ ExecTerminal \/ \E p \in Parents : OuterCleanup(p)
    PROVE  Owned'
<1>1. CASE HandleCancel
  <2> DEFINE x == Head(cancels)
             S == {s \in Sessions : CanCancel(s) /\ x \in {s, owner[s], All}}
             id == [s \in Sessions |-> CancelId(x, s)]
  <2>1. Close(S, "Cancelled", id, "Cancelled") /\ UNCHANGED <<owner, awaiting>>
    BY <1>1 DEF HandleCancel, cleanVars
  <2>2. S \in SUBSET Sessions /\ \A s \in S : status[s] # "unborn"
    BY DEF CanCancel
  <2> HIDE DEF S, id
  <2> QED
    BY <2>1, <2>2, CloseOwned
<1>2. CASE Validate
  <2> DEFINE s == Last(disposed)
             S == {t \in {s} : ~Reachable(t) /\ CanCancel(t)}
             id == [t \in Sessions |-> t]
  <2>1. Close(S, "Cancelled", id, "Cancelled") /\ UNCHANGED <<owner, awaiting>> /\ disposed # <<>>
    BY <1>2 DEF Validate, cleanVars
  <2>2. s \in Sessions
    BY <2>1, LastFront DEF TypeOK, RosterTypeOK
  <2>3. S \in SUBSET Sessions /\ \A t \in S : status[t] # "unborn"
    BY <2>2 DEF CanCancel
  <2> HIDE DEF S, id
  <2> QED
    BY <2>1, <2>3, CloseOwned
<1>3. CASE ExecTerminal
  <2> DEFINE s == Head(inputs["terminal"])
             id == [t \in Sessions |-> t]
             S == {s}
  <2>1. UNCHANGED <<owner, awaiting>> /\ inputs["terminal"] # <<>>
    BY <1>3 DEF ExecTerminal, cleanVars
  <2>2. \/ status[s] = "Ongoing" /\ Close(S, "Terminated", id, "Terminated")
        \/ status[s] = "DeferredCleanup" /\ Close(S, "Cleanup", id, "Terminated")
        \/ UNCHANGED <<status, closing>>
    BY <1>3 DEF ExecTerminal
  <2>3. s \in Sessions
    BY <2>1, InputsTail, InputsType DEF TypeOK
  <2>4. S \in SUBSET Sessions
    BY <2>3
  <2>5. status[s] \in {"Ongoing", "DeferredCleanup"} => \A t \in S : status[t] # "unborn"
    OBVIOUS
  <2> HIDE DEF S, s, id
  <2>6. CASE status[s] = "Ongoing" /\ Close(S, "Terminated", id, "Terminated")
    BY <2>1, <2>4, <2>5, <2>6, CloseOwned
  <2>7. CASE status[s] = "DeferredCleanup" /\ Close(S, "Cleanup", id, "Terminated")
    BY <2>1, <2>4, <2>5, <2>7, CloseOwned
  <2>8. CASE UNCHANGED <<status, closing>>
    BY <2>1, <2>8, CalmOwned DEF Calm
  <2> QED
    BY <2>2, <2>6, <2>7, <2>8
<1>4. ASSUME NEW p \in Parents, OuterCleanup(p) PROVE Owned'
  <2> DEFINE S == {s \in Sessions : HasPair(s) /\ owner[s] = p /\ status[s] # "Cleanup"}
             id == [s \in Sessions |-> p]
  <2>1. UNCHANGED <<owner, awaiting>>
    BY <1>4 DEF OuterCleanup, cleanVars
  <2>2. \/ /\ status' = [s \in Sessions |-> IF s \in S THEN "DeferredCleanup" ELSE status[s]]
           /\ UNCHANGED closing
        \/ Close(S, "Cleanup", id, "EarlyCleanup")
    BY <1>4 DEF OuterCleanup
  <2>3. S \in SUBSET Sessions /\ \A s \in S : status[s] # "unborn"
    BY DEF HasPair
  <2> HIDE DEF S, id
  <2>4. CASE Close(S, "Cleanup", id, "EarlyCleanup")
    BY <2>1, <2>3, <2>4, CloseOwned
  <2>5. CASE /\ status' = [s \in Sessions |-> IF s \in S THEN "DeferredCleanup" ELSE status[s]]
             /\ UNCHANGED closing
    <3>1. \A t \in Sessions : status'[t] # "unborn" => status[t] # "unborn" \/ owner'[t] \in Parents
      BY <2>3, <2>5
    <3> QED
      BY <2>1, <2>5, <3>1, OwnedKept
  <2> QED
    BY <2>2, <2>4, <2>5
<1> QED
  BY <1>1, <1>2, <1>3, <1>4

\* The steps that neither begin nor end a session.
LEMMA OthersOwned ==
    ASSUME Owned,
           \/ PopNothing \/ ExecAsync \/ CollectDeferred \/ OtherOperation
           \/ \E toFilter, toAsync \in BOOLEAN, n \in 0..MaxOutputs : ExecFork(toFilter, toAsync, n)
           \/ \E pass \in BOOLEAN : ExecFilter(pass)
           \/ \E T \in SUBSET Sessions : Collect(T)
           \/ \E s \in Sessions : CollectTask(s) \/ TaskDone(s) \/ SupplantTask(s)
           \/ \E r \in runs : CleanupWorkflowDone(r) \/ CleanupWorkflowCancelled(r)
           \/ \E p \in Parents : OuterInput(p) \/ OuterStop(p)
           \/ UNCHANGED vars
    PROVE  Owned'
<1>1. Calm
  BY DEF Calm, PopNothing, ExecAsync, CollectDeferred, OtherOperation, ExecFork, ExecFilter,
     Collect, CollectTask, TaskDone, SupplantTask, CleanupWorkflowDone, CleanupWorkflowCancelled,
     OuterInput, OuterStop, vars, sessionVars, cleanVars
<1> QED
  BY <1>1, CalmOwned

\* The types are inductive together with Owned.
Typed == TypeOK /\ Owned

LEMMA InitOwned == Init => Owned
<1> SUFFICES ASSUME Init PROVE Owned
  OBVIOUS
<1>1. ToSet(awaiting) = {}
  BY DEF Init, ToSet
<1> QED
  BY <1>1 DEF Init, Owned

LEMMA StepTyped == Typed /\ [Next]_vars => Typed'
<1> SUFFICES ASSUME Typed, [Next]_vars PROVE Typed'
  OBVIOUS
<1>0. TypeOK /\ Owned
  BY DEF Typed
<1>1. TypeOK'
  <2>1. CASE FlushStep
    <3>1. {s \in Sessions : arriving[s] # NoItem} \in SUBSET Sessions
      OBVIOUS
    <3> QED
      BY <1>0, <2>1, <3>1, CleanSessionTyped, TriggerCleanupTyped, HandleCancelTyped, PopNothingTyped,
         ExecScopeTyped, ExecAsyncTyped, ExecTerminalTyped, ExecFinishTyped, ExecForkTyped,
         ExecFilterTyped, CollectTyped, CollectTaskTyped, CollectDeferredTyped, ValidateTyped
         DEF FlushStep
  <2>2. CASE ~FlushStep
    BY <1>0, <2>2, CollectTyped, TaskDoneTyped, SupplantTaskTyped, CleanupWorkflowTyped,
       OuterInputTyped, OuterCleanupTyped, OuterStopTyped, IdleTyped DEF Next
  <2> QED
    BY <2>1, <2>2
<1>2. Owned'
  <2>1. CASE FlushStep
    <3>1. {s \in Sessions : arriving[s] # NoItem} \in SUBSET Sessions
      OBVIOUS
    <3> QED
      BY <1>0, <2>1, <3>1, CleanSessionOwned, TriggerCleanupOwned, ClosersOwned, ExecScopeOwned,
         ExecFinishOwned, OthersOwned DEF FlushStep
  <2>2. CASE ~FlushStep
    BY <1>0, <2>2, ClosersOwned, OthersOwned DEF Next
  <2> QED
    BY <2>1, <2>2
<1> QED
  BY <1>1, <1>2 DEF Typed

\* Every variable of the scope keeps its type (the components of OperateScope,
\* Terminate and FinishCleanup, and the fields of OperationRoster), whatever the outer
\* workflow does and whenever.
THEOREM ScopeTypeCorrect == Spec => []TypeOK
<1>1. Init => Typed
  BY InitTyped, InitOwned DEF Typed
<1>2. Typed /\ [Next]_vars => Typed'
  BY StepTyped
<1>3. Typed => TypeOK
  BY DEF Typed
<1> QED
  BY <1>1, <1>2, <1>3, PTL DEF Spec

-----------------------------------------------------------------------------
(* The order in which a session ends *)

\* A session is open, then closing, then it waits for its nodes (awaiting), then its
\* nodes are clean (finished), then its cleanup workflows were begun, and then it is
\* finalized.  It is in one of these stages at a time, and it only moves forward.
Open(s) == status[s] \in {"unborn", "Ongoing", "DeferredCleanup"}
Closing(s) == \E c \in closing : c.session = s
Has(q, s) == \E a \in ToSet(q) : a.session = s
Distinct(q) == IsInjective(q) /\ \A a, b \in ToSet(q) : a.session = b.session => a = b
Enters(s) == \E node \in Inner : s \in ToSet(inputs[node])

OneEach ==
    /\ \A c, d \in closing : c.session = d.session => c = d
    /\ Distinct(finished) /\ Distinct(awaiting) /\ IsInjective(checks)
    /\ IsInjective(inputs["fork"]) /\ IsInjective(inputs["async"])

Stage(s) ==
    /\ Open(s) \/ Closing(s) => /\ tasks[s] # "cleaning" /\ begun[s] = 0
                                /\ ~Has(finished, s) /\ ~Has(awaiting, s)
    /\ Open(s) => ~Closing(s)
    /\ Has(finished, s) => begun[s] = 0
    /\ begun[s] = 0 => s \notin ToSet(checks) /\ finals[s] = 0
    /\ begun[s] <= 1 /\ finals[s] <= 1 /\ Len(report[s]) <= finals[s]

\* What is left of the work of s: the cleanup of its nodes ends it, and a task that is
\* cancelled has to report before the nodes are clean.
Work(s) ==
    /\ status[s] = "unborn" => s \notin active /\ ~Enters(s) /\ tasks[s] = "none"
    /\ arriving[s] = NoItem <=> tasks[s] \in {"none", "running"}
    /\ tasks[s] # "cleaning" => arriving[s].id = None
    /\ tasks[s] = "cleaning" => begun[s] = 0 /\ ~Has(finished, s)
    /\ tasks[s] = "cleaning" \/ Has(finished, s) \/ begun[s] > 0 => s \notin active /\ ~Enters(s)
    /\ Has(finished, s) \/ begun[s] > 0 => tasks[s] = "none"

\* "async" gets one input of each session at most, and then runs one task for it.
Fed(s) ==
    /\ s \in ToSet(inputs["fork"]) => s \notin ToSet(inputs["async"])
    /\ s \in ToSet(inputs["fork"]) \cup ToSet(inputs["async"]) => tasks[s] = "none"

\* An entry learns of cleanup workflows only when they begin, and once its session is
\* finalized there are none left to wait for.
Entry(a) ==
    /\ a.left # None => begun[a.session] > 0
    /\ finals[a.session] > 0 => a.left = {} /\ a.session \notin ToSet(checks)

EndInv ==
    /\ OneEach
    /\ \A s \in Sessions : Stage(s) /\ Work(s) /\ Fed(s)
    /\ \A a \in ToSet(awaiting) : Entry(a)

-----------------------------------------------------------------------------
(* Steps that do not end anything *)

\* What a step may do to a session that it is not about: nothing, or less.
Same(t) ==
    /\ status'[t] = status[t] /\ tasks'[t] = tasks[t] /\ arriving'[t] = arriving[t]
    /\ begun'[t] = begun[t] /\ finals'[t] = finals[t] /\ report'[t] = report[t]
    /\ Closing(t)' => Closing(t)
    /\ Has(finished', t) => Has(finished, t)
    /\ Has(awaiting', t) => Has(awaiting, t)
    /\ t \in ToSet(checks') => t \in ToSet(checks)
    /\ t \in active' => t \in active
    /\ Enters(t)' => Enters(t)

LEMMA SameKept ==
    ASSUME NEW t \in Sessions, Stage(t), Work(t), Same(t)
    PROVE  Stage(t)' /\ Work(t)'
<1>1. Stage(t)'
  BY DEF Stage, Same, Open
<1>2. Work(t)'
  BY DEF Work, Same
<1> QED
  BY <1>1, <1>2

\* Nothing ends or is being ended.
NoEnd == UNCHANGED <<closing, awaiting, checks, finished, begun, report, finals>>

InnerSame == \A node \in Inner : inputs'[node] = inputs[node]

LEMMA InnerSameIs ==
    ASSUME InnerSame
    PROVE  /\ inputs'["fork"] = inputs["fork"] /\ inputs'["async"] = inputs["async"]
           /\ \A t : Enters(t)' <=> Enters(t)
BY DEF InnerSame, Inner, Enters

LEMMA NoEndKept ==
    ASSUME EndInv, NoEnd,
           IsInjective(inputs'["fork"]) /\ IsInjective(inputs'["async"]),
           \A t \in Sessions : Stage(t)' /\ Work(t)' /\ Fed(t)'
    PROVE  EndInv'
<1>1. OneEach'
  BY DEF EndInv, OneEach, NoEnd, Distinct
<1>2. \A a \in ToSet(awaiting') : Entry(a)'
  BY DEF EndInv, Entry, NoEnd
<1> QED
  BY <1>1, <1>2 DEF EndInv

\* Nothing that the invariant is about changes.
Quiet == NoEnd /\ InnerSame /\ UNCHANGED <<status, active, tasks, arriving>>

LEMMA QuietKept == EndInv /\ Quiet => EndInv'
<1> SUFFICES ASSUME EndInv, Quiet PROVE EndInv'
  OBVIOUS
<1>1. /\ inputs'["fork"] = inputs["fork"] /\ inputs'["async"] = inputs["async"]
      /\ \A t : Enters(t)' <=> Enters(t)
  BY InnerSameIs DEF Quiet
<1>2. ASSUME NEW t \in Sessions PROVE Stage(t)' /\ Work(t)' /\ Fed(t)'
  <2>1. Same(t)
    BY <1>1 DEF Same, Quiet, NoEnd, Closing
  <2>2. Stage(t) /\ Work(t) /\ Fed(t)
    BY DEF EndInv
  <2>3. Fed(t)'
    BY <1>1, <2>2 DEF Fed, Quiet
  <2> QED
    BY <2>1, <2>2, <2>3, SameKept
<1>3. IsInjective(inputs'["fork"]) /\ IsInjective(inputs'["async"])
  BY <1>1 DEF EndInv, OneEach
<1> QED
  BY <1>2, <1>3, NoEndKept DEF Quiet

LEMMA QuietSteps ==
    ASSUME Typed, EndInv,
           \/ PopNothing \/ CollectDeferred \/ OtherOperation
           \/ \E T \in SUBSET Sessions : Collect(T)
           \/ \E r \in runs : CleanupWorkflowDone(r) \/ CleanupWorkflowCancelled(r)
           \/ \E p \in Parents : OuterInput(p) \/ OuterStop(p)
           \/ UNCHANGED vars
    PROVE  EndInv'
<1>1. NoEnd /\ UNCHANGED <<status, active, tasks, arriving>>
  BY DEF NoEnd, PopNothing, CollectDeferred, OtherOperation, Collect, CleanupWorkflowDone,
     CleanupWorkflowCancelled, OuterInput, OuterStop, vars, sessionVars, cleanVars, taskVars,
     finishVars, historyVars, rosterVars
<1>2. InnerSame
  <2>1. CASE UNCHANGED inputs
    BY <2>1 DEF InnerSame
  <2>2. ASSUME NEW p \in Parents, OuterInput(p) PROVE InnerSame
    <3> DEFINE q == Append(inputs["scope"], p)
    <3>1. InputsOK(inputs) /\ q \in Seq(Parents)
      BY InputsType DEF Typed, TypeOK, InputsOK
    <3>2. inputs' = [inputs EXCEPT !["scope"] = q]
      BY <2>2 DEF OuterInput
    <3> HIDE DEF q
    <3> QED
      BY <3>1, <3>2, SetScope DEF InnerSame, Nodes, Inner
  <2>3. UNCHANGED inputs \/ \E p \in Parents : OuterInput(p)
    BY DEF PopNothing, CollectDeferred, OtherOperation, Collect, CleanupWorkflowDone,
       CleanupWorkflowCancelled, OuterStop, vars, nodeVars
  <2> QED
    BY <2>1, <2>2, <2>3
<1> QED
  BY <1>1, <1>2, QuietKept DEF Quiet

-----------------------------------------------------------------------------
(* The steps of the nodes *)

LEMMA ExecScopeEnd == Typed /\ EndInv /\ ExecScope => EndInv'
<1> SUFFICES ASSUME Typed, EndInv, ExecScope PROVE EndInv'
  OBVIOUS
<1>0. InputsOK(inputs) /\ status \in [Sessions -> Status]
  BY InputsType DEF Typed, TypeOK, SessionTypeOK
<1>1. NoEnd /\ UNCHANGED <<tasks, arriving>>
  BY DEF ExecScope, NoEnd, cleanVars, finishVars, taskVars, historyVars
<1>2. CASE inputs["scope"] = <<>>
  <2>1. UNCHANGED <<status, active, inputs>>
    BY <1>2 DEF ExecScope
  <2> QED
    BY <1>1, <2>1, QuietKept DEF Quiet, InnerSame
<1>3. CASE inputs["scope"] # <<>>
  <2>1. PICK s \in Sessions :
            /\ status[s] = "unborn"
            /\ status' = [status EXCEPT ![s] = "Ongoing"]
            /\ active' = active \cup {s}
            /\ inputs' = [inputs EXCEPT !["scope"] = Tail(@), !["fork"] = Append(@, s)]
    BY <1>3 DEF ExecScope
  <2>2. inputs \in [Nodes -> Seq(Sessions \cup Parents)] /\ inputs["fork"] \in Seq(Sessions)
    BY <1>0 DEF InputsOK, Inner
  <2>3. /\ inputs'["fork"] = Append(inputs["fork"], s)
        /\ inputs'["async"] = inputs["async"] /\ inputs'["filter"] = inputs["filter"]
    BY <2>1, <2>2 DEF Nodes, Inner
  <2>4. Stage(s) /\ Work(s) /\ Fed(s) /\ Open(s) /\ ~Enters(s)
    BY <2>1 DEF EndInv, Open, Work
  <2>5. s \notin ToSet(inputs["fork"]) /\ s \notin ToSet(inputs["async"])
    BY <2>4 DEF Enters, Inner
  <2>6. ToSet(inputs'["fork"]) = ToSet(inputs["fork"]) \cup {s} /\ IsInjective(inputs'["fork"])
    <3>1. IsInjective(inputs["fork"])
      BY DEF EndInv, OneEach
    <3> QED
      BY <2>2, <2>3, <2>5, <3>1, AppendSet
  <2>7. \A t \in Sessions \ {s} : Enters(t)' => Enters(t)
    BY <2>3, <2>6 DEF Enters, Inner
  <2>8. ASSUME NEW t \in Sessions, t # s PROVE Stage(t)' /\ Work(t)' /\ Fed(t)'
    <3>1. Same(t)
      BY <1>0, <1>1, <2>1, <2>7, <2>8 DEF Same, NoEnd, Closing
    <3>2. Stage(t) /\ Work(t) /\ Fed(t)
      BY DEF EndInv
    <3>3. Fed(t)'
      BY <1>1, <2>3, <2>6, <2>8, <3>2 DEF Fed
    <3> QED
      BY <3>1, <3>2, <3>3, SameKept
  <2>9. Stage(s)' /\ Work(s)' /\ Fed(s)'
    <3>1. status'[s] = "Ongoing"
      BY <1>0, <2>1
    <3>2. Stage(s)'
      BY <1>1, <2>4, <3>1 DEF Stage, Open, NoEnd, Closing
    <3>3. Work(s)'
      BY <1>1, <2>4, <3>1 DEF Work, Stage, NoEnd
    <3>4. Fed(s)'
      BY <1>1, <2>1, <2>3, <2>4, <2>5 DEF Fed, Work
    <3> QED
      BY <3>2, <3>3, <3>4
  <2>10. IsInjective(inputs'["async"])
    BY <2>3 DEF EndInv, OneEach
  <2> QED
    BY <1>1, <2>6, <2>8, <2>9, <2>10, NoEndKept
<1> QED
  BY <1>2, <1>3

LEMMA ExecForkEnd ==
    ASSUME NEW toFilter \in BOOLEAN, NEW toAsync \in BOOLEAN, NEW n \in 0..MaxOutputs,
           Typed, EndInv, ExecFork(toFilter, toAsync, n)
    PROVE  EndInv'
<1> DEFINE s == Head(inputs["fork"])
           f == IF toFilter THEN 1 ELSE 0
           k == IF toAsync THEN 1 ELSE 0
           g1 == Give("filter", s, f)
           g2 == Give("async", s, k)
           t == Tail(inputs["fork"])
<1>0. InputsOK(inputs) /\ inputs["fork"] # <<>>
  BY InputsType DEF Typed, TypeOK, ExecFork
<1>1. NoEnd /\ UNCHANGED <<tasks, arriving, status, active>>
  BY DEF ExecFork, NoEnd, cleanVars, finishVars, taskVars, sessionVars, historyVars
<1>2. inputs' = [inputs EXCEPT !["fork"] = t, !["filter"] = g1, !["async"] = g2,
                               !["terminal"] = Give("terminal", s, n)]
  BY DEF ExecFork
<1>3. /\ s \in Sessions /\ s \in ToSet(inputs["fork"])
      /\ ToSet(inputs["fork"]) = {s} \cup ToSet(t) /\ s \notin ToSet(t) /\ IsInjective(t)
  <2>1. inputs["fork"] \in Seq(Sessions) /\ IsInjective(inputs["fork"])
    BY <1>0 DEF InputsOK, Inner, EndInv, OneEach
  <2> QED
    BY <1>0, <2>1, TailSet
<1>4. /\ \A u \in ToSet(g1) : u \in ToSet(inputs["filter"]) \/ u = s
      /\ \A u \in ToSet(g2) : u \in ToSet(inputs["async"]) \/ u = s
  <2>1. f \in Nat /\ k \in Nat
    OBVIOUS
  <2> HIDE DEF s, f, k
  <2> QED
    BY <1>0, <1>3, <2>1, GiveIs DEF Inner
<1>5. IsInjective(g2)
  <2>1. inputs["async"] \in Seq(Sessions) /\ IsInjective(inputs["async"])
    BY <1>0 DEF InputsOK, Inner, EndInv, OneEach
  <2>2. s \notin ToSet(inputs["async"])
    BY <1>3 DEF EndInv, Fed
  <2>3. g2 = inputs["async"] \/ g2 = Append(inputs["async"], s)
    <3> HIDE DEF s
    <3>1. /\ inputs["async"] \o [i \in 1..1 |-> s] = Append(inputs["async"], s)
          /\ inputs["async"] \o [i \in 1..0 |-> s] = inputs["async"]
      BY <1>3, <2>1, RepeatOne
    <3> QED
      BY <3>1 DEF Give
  <2> HIDE DEF s, g2
  <2>4. IsInjective(Append(inputs["async"], s))
    BY <1>3, <2>1, <2>2, AppendSet
  <2> QED
    BY <2>1, <2>3, <2>4
<1> HIDE DEF s, f, k, g1, g2, t
<1>6. inputs'["fork"] = t /\ inputs'["filter"] = g1 /\ inputs'["async"] = g2
  <2>1. inputs \in [Nodes -> Seq(Sessions \cup Parents)]
    BY <1>0 DEF InputsOK
  <2> QED
    BY <1>2, <2>1 DEF Nodes, Inner
<1>7. \A u : Enters(u)' => Enters(u)
  BY <1>3, <1>4, <1>6 DEF Enters, Inner
<1>8. ASSUME NEW u \in Sessions PROVE Stage(u)' /\ Work(u)' /\ Fed(u)'
  <2>1. Same(u)
    BY <1>1, <1>7 DEF Same, NoEnd, Closing
  <2>2. Stage(u) /\ Work(u) /\ Fed(u)
    BY DEF EndInv
  <2>3. Fed(u)'
    BY <1>1, <1>3, <1>4, <1>6, <2>2 DEF Fed
  <2> QED
    BY <2>1, <2>2, <2>3, SameKept
<1> QED
  BY <1>1, <1>3, <1>5, <1>6, <1>8, NoEndKept

LEMMA ExecFilterEnd ==
    ASSUME NEW pass \in BOOLEAN, Typed, EndInv, ExecFilter(pass)
    PROVE  EndInv'
<1> DEFINE t == Tail(inputs["filter"])
<1>0. InputsOK(inputs) /\ inputs["filter"] # <<>>
  BY InputsType DEF Typed, TypeOK, ExecFilter
<1>1. NoEnd /\ UNCHANGED <<tasks, arriving, status, active>>
  BY DEF ExecFilter, NoEnd, cleanVars, finishVars, taskVars, sessionVars
<1>2. \E g : inputs' = [inputs EXCEPT !["filter"] = t, !["terminal"] = g]
  BY DEF ExecFilter
<1>3. ToSet(t) \subseteq ToSet(inputs["filter"])
  <2>1. inputs["filter"] \in Seq(Sessions)
    BY <1>0 DEF InputsOK, Inner
  <2> QED
    BY <1>0, <2>1, TailSet
<1> HIDE DEF t
<1>4. inputs'["fork"] = inputs["fork"] /\ inputs'["filter"] = t /\ inputs'["async"] = inputs["async"]
  <2>1. inputs \in [Nodes -> Seq(Sessions \cup Parents)]
    BY <1>0 DEF InputsOK
  <2> QED
    BY <1>2, <2>1 DEF Nodes, Inner
<1>5. \A u : Enters(u)' => Enters(u)
  BY <1>3, <1>4 DEF Enters, Inner
<1>6. ASSUME NEW u \in Sessions PROVE Stage(u)' /\ Work(u)' /\ Fed(u)'
  <2>1. Same(u)
    BY <1>1, <1>5 DEF Same, NoEnd, Closing
  <2>2. Stage(u) /\ Work(u) /\ Fed(u)
    BY DEF EndInv
  <2>3. Fed(u)'
    BY <1>1, <1>4, <2>2 DEF Fed
  <2> QED
    BY <2>1, <2>2, <2>3, SameKept
<1>7. IsInjective(inputs["fork"]) /\ IsInjective(inputs["async"])
  BY DEF EndInv, OneEach
<1> QED
  BY <1>1, <1>4, <1>6, <1>7, NoEndKept

\* The steps of a task of s: it is spawned, it is done, or it is supplanted.
LEMMA TaskEnd ==
    ASSUME NEW s \in Sessions, Typed, EndInv, NoEnd, UNCHANGED <<status, active>>,
           NEW to \in {"none", "running", "stopping"}, tasks' = [tasks EXCEPT ![s] = to],
           arriving'[s].id = None /\ (arriving'[s] = NoItem <=> to # "stopping"),
           \A t \in Sessions \ {s} : arriving'[t] = arriving[t],
           \A u : Enters(u)' => Enters(u),
           Enters(s) \/ tasks[s] = "running",
           status[s] # "unborn",
           begun[s] = 0 /\ ~Has(finished, s),
           \A t \in Sessions : Fed(t)',
           IsInjective(inputs'["fork"]) /\ IsInjective(inputs'["async"])
    PROVE  EndInv'
<1>0. tasks \in [Sessions -> {"none", "running", "cleaning", "stopping"}]
  BY DEF Typed, TypeOK, TaskTypeOK
<1>1. ASSUME NEW t \in Sessions, t # s PROVE Stage(t)' /\ Work(t)'
  <2>1. Same(t)
    BY <1>0, <1>1 DEF Same, NoEnd, Closing
  <2>2. Stage(t) /\ Work(t)
    BY DEF EndInv
  <2> QED
    BY <2>1, <2>2, SameKept
<1>2. Stage(s)' /\ Work(s)'
  <2>1. Stage(s) /\ Work(s)
    BY DEF EndInv
  <2>2. tasks'[s] = to
    BY <1>0
  <2>3. Stage(s)'
    BY <2>1, <2>2 DEF Stage, NoEnd, Open, Closing
  <2>4. Work(s)'
    BY <2>1, <2>2 DEF Work, NoEnd
  <2> QED
    BY <2>3, <2>4
<1> QED
  BY <1>1, <1>2, NoEndKept

LEMMA ExecAsyncEnd == Typed /\ EndInv /\ ExecAsync => EndInv'
<1> SUFFICES ASSUME Typed, EndInv, ExecAsync PROVE EndInv'
  OBVIOUS
<1> DEFINE t == Tail(inputs["async"])
<1>0. InputsOK(inputs) /\ inputs["async"] # <<>>
  BY InputsType DEF Typed, TypeOK, ExecAsync
<1>1. NoEnd /\ UNCHANGED <<arriving, status, active>>
  BY DEF ExecAsync, NoEnd, cleanVars, finishVars, sessionVars, historyVars
<1>s. PICK s \in Sessions : s = Head(inputs["async"])
  BY <1>0, InputsTail DEF Inner
<1>2. inputs' = [inputs EXCEPT !["async"] = t] /\ tasks' = [tasks EXCEPT ![s] = "running"]
  BY <1>s DEF ExecAsync
<1>3. /\ s \in ToSet(inputs["async"])
      /\ ToSet(inputs["async"]) = {s} \cup ToSet(t) /\ s \notin ToSet(t) /\ IsInjective(t)
  <2>1. inputs["async"] \in Seq(Sessions) /\ IsInjective(inputs["async"])
    BY <1>0 DEF InputsOK, Inner, EndInv, OneEach
  <2> QED
    BY <1>0, <1>s, <2>1, TailSet
<1> HIDE DEF t
<1>4. inputs'["fork"] = inputs["fork"] /\ inputs'["filter"] = inputs["filter"] /\ inputs'["async"] = t
  <2>1. inputs \in [Nodes -> Seq(Sessions \cup Parents)]
    BY <1>0 DEF InputsOK
  <2> QED
    BY <1>2, <2>1 DEF Nodes, Inner
<1>5. \A u : Enters(u)' => Enters(u)
  BY <1>3, <1>4 DEF Enters, Inner
<1>6. Stage(s) /\ Work(s) /\ Fed(s) /\ Enters(s)
  BY <1>3 DEF EndInv, Enters, Inner
<1>7. tasks[s] = "none" /\ s \notin ToSet(inputs["fork"])
  BY <1>3, <1>6 DEF Fed
<1>8. tasks \in [Sessions -> {"none", "running", "cleaning", "stopping"}] /\ begun[s] \in Nat
  BY <1>3 DEF Typed, TypeOK, TaskTypeOK
<1>9. \A u \in Sessions : Fed(u)'
  <2>1. \A u \in Sessions \ {s} : tasks'[u] = tasks[u]
    BY <1>2, <1>8
  <2>2. Fed(s)'
    BY <1>3, <1>4, <1>7 DEF Fed
  <2>3. \A u \in Sessions \ {s} : Fed(u)'
    BY <1>3, <1>4, <2>1 DEF EndInv, Fed
  <2> QED
    BY <2>2, <2>3
<1>10. status[s] # "unborn" /\ begun[s] = 0 /\ ~Has(finished, s)
  BY <1>6, <1>8 DEF Work
<1>11. arriving'[s].id = None /\ arriving'[s] = NoItem
  BY <1>1, <1>6, <1>7 DEF Work
<1>12. IsInjective(inputs'["fork"]) /\ IsInjective(inputs'["async"])
  BY <1>3, <1>4 DEF EndInv, OneEach
<1> QED
  BY <1>1, <1>2, <1>3, <1>5, <1>6, <1>9, <1>10, <1>11, <1>12, TaskEnd

LEMMA TaskStepsEnd ==
    ASSUME NEW s \in Sessions, Typed, EndInv, TaskDone(s) \/ SupplantTask(s)
    PROVE  EndInv'
<1>0. /\ tasks \in [Sessions -> {"none", "running", "cleaning", "stopping"}] /\ begun[s] \in Nat
      /\ arriving \in [Sessions -> [id : Ids, dispose : BOOLEAN]]
  BY DEF Typed, TypeOK, TaskTypeOK
<1>1. NoEnd /\ UNCHANGED <<status, active>> /\ tasks[s] = "running"
  BY DEF TaskDone, SupplantTask, NoEnd, cleanVars, finishVars, sessionVars, historyVars, rosterVars
<1>2. InnerSame
  <2>1. CASE TaskDone(s)
    <3> DEFINE g == Give("terminal", s, 1)
    <3>1. InputsOK(inputs) /\ inputs' = [inputs EXCEPT !["terminal"] = g]
      BY <2>1, InputsType DEF Typed, TypeOK, TaskDone
    <3>2. g \in Seq(Sessions)
      BY <3>1, GiveIs
    <3> HIDE DEF g
    <3> QED
      BY <3>1, <3>2, SetInput DEF InnerSame, Nodes, Inner
  <2>2. CASE SupplantTask(s)
    BY <2>2 DEF SupplantTask, nodeVars, InnerSame
  <2> QED
    BY <2>1, <2>2
<1>3. /\ inputs'["fork"] = inputs["fork"] /\ inputs'["async"] = inputs["async"]
      /\ \A t : Enters(t)' <=> Enters(t)
  BY <1>2, InnerSameIs
<1>4. Work(s) /\ Fed(s)
  BY DEF EndInv
<1>5. s \notin ToSet(inputs["fork"]) /\ s \notin ToSet(inputs["async"])
  BY <1>1, <1>4 DEF Fed
<1>6. status[s] # "unborn" /\ begun[s] = 0 /\ ~Has(finished, s)
  BY <1>0, <1>1, <1>4 DEF Work
<1>7. PICK to \in {"none", "stopping"} :
         /\ tasks' = [tasks EXCEPT ![s] = to]
         /\ to = "none" => UNCHANGED arriving
         /\ to = "stopping" => arriving' = [arriving EXCEPT ![s] = [id |-> None, dispose |-> TRUE]]
  BY DEF TaskDone, SupplantTask
<1>8. /\ arriving'[s].id = None /\ (arriving'[s] = NoItem <=> to # "stopping")
      /\ \A t \in Sessions \ {s} : arriving'[t] = arriving[t]
  <2>1. arriving[s] = NoItem
    BY <1>1, <1>4 DEF Work
  <2>2. NoItem.id = None /\ NoItem.dispose = FALSE
    BY DEF NoItem
  <2> QED
    BY <1>0, <1>7, <2>1, <2>2
<1>9. \A t \in Sessions : Fed(t)'
  <2>1. \A t \in Sessions \ {s} : tasks'[t] = tasks[t]
    BY <1>0, <1>7
  <2> QED
    BY <1>3, <1>5, <2>1 DEF EndInv, Fed
<1>10. IsInjective(inputs'["fork"]) /\ IsInjective(inputs'["async"])
  BY <1>3 DEF EndInv, OneEach
<1> QED
  BY <1>1, <1>3, <1>6, <1>7, <1>8, <1>9, <1>10, TaskEnd

-----------------------------------------------------------------------------
(* The steps that close sessions *)

LEMMA CloseEnd ==
    ASSUME Typed, EndInv, NEW S \in SUBSET Sessions,
           \A s \in S : Open(s) /\ status[s] # "unborn",
           NEW st \in {"Terminated", "Cleanup", "Cancelled"}, NEW id, NEW why, Close(S, st, id, why),
           closing = {}, InnerSame,
           UNCHANGED <<awaiting, checks, finished, begun, report, finals, active, tasks, arriving>>
    PROVE  EndInv'
<1>1. /\ \A t \in Sessions : status'[t] = IF t \in S THEN st ELSE status[t]
      /\ \A t : Closing(t)' <=> t \in S
      /\ \A c, d \in closing' : c.session = d.session => c = d
  <2> DEFINE item(t) == [session |-> t, id |-> id[t], why |-> why]
  <2>1. closing' = {item(t) : t \in S}
    BY DEF Close
  <2>2. \A t : item(t).session = t
    OBVIOUS
  <2> HIDE DEF item
  <2>3. \A t \in Sessions : status'[t] = IF t \in S THEN st ELSE status[t]
    BY DEF Close
  <2>4. \A t : Closing(t)' <=> t \in S
    BY <2>1, <2>2 DEF Closing
  <2> QED
    BY <2>1, <2>2, <2>3, <2>4
<1>2. /\ inputs'["fork"] = inputs["fork"] /\ inputs'["async"] = inputs["async"]
      /\ \A t : Enters(t)' <=> Enters(t)
  BY InnerSameIs
<1>3. ASSUME NEW t \in Sessions PROVE Stage(t)' /\ Work(t)' /\ Fed(t)'
  <2>1. Stage(t) /\ Work(t) /\ Fed(t)
    BY DEF EndInv
  <2>2. Fed(t)'
    BY <1>2, <2>1 DEF Fed
  <2>3. CASE t \notin S
    <3>1. Same(t)
      BY <1>1, <1>2, <2>3 DEF Same
    <3> QED
      BY <2>1, <2>2, <3>1, SameKept
  <2>4. CASE t \in S
    <3>1. /\ ~Open(t)' /\ status'[t] # "unborn" /\ Closing(t)' /\ Open(t)
      BY <1>1, <2>4 DEF Open
    <3>2. Stage(t)'
      BY <2>1, <3>1 DEF Stage
    <3>3. Work(t)'
      BY <1>2, <2>1, <3>1 DEF Work
    <3> QED
      BY <2>2, <3>2, <3>3
  <2> QED
    BY <2>3, <2>4
<1>4. OneEach'
  BY <1>1, <1>2 DEF EndInv, OneEach, Distinct
<1>5. \A a \in ToSet(awaiting') : Entry(a)'
  BY DEF EndInv, Entry
<1> QED
  BY <1>3, <1>4, <1>5 DEF EndInv

LEMMA HandleCancelEnd == Typed /\ EndInv /\ HandleCancel => EndInv'
<1> SUFFICES ASSUME Typed, EndInv, HandleCancel PROVE EndInv'
  OBVIOUS
<1> DEFINE x == Head(cancels)
           S == {s \in Sessions : CanCancel(s) /\ x \in {s, owner[s], All}}
           id == [s \in Sessions |-> CancelId(x, s)]
<1>1. /\ Close(S, "Cancelled", id, "Cancelled") /\ closing = {} /\ UNCHANGED inputs
      /\ UNCHANGED <<awaiting, checks, finished, begun, report, finals, active, tasks, arriving>>
  BY DEF HandleCancel, cleanVars, finishVars, historyVars, taskVars, nodeVars
<1>2. S \in SUBSET Sessions /\ \A s \in S : Open(s) /\ status[s] # "unborn"
  BY DEF CanCancel, Open
<1> HIDE DEF S, id
<1> QED
  BY <1>1, <1>2, CloseEnd DEF InnerSame

LEMMA ValidateEnd == Typed /\ EndInv /\ Validate => EndInv'
<1> SUFFICES ASSUME Typed, EndInv, Validate PROVE EndInv'
  OBVIOUS
<1> DEFINE s == Last(disposed)
           S == {t \in {s} : ~Reachable(t) /\ CanCancel(t)}
           id == [t \in Sessions |-> t]
<1>1. /\ Close(S, "Cancelled", id, "Cancelled") /\ closing = {} /\ UNCHANGED inputs /\ disposed # <<>>
      /\ UNCHANGED <<awaiting, checks, finished, begun, report, finals, active, tasks, arriving>>
  BY DEF Validate, cleanVars, finishVars, taskVars, nodeVars
<1>2. s \in Sessions
  BY <1>1, LastFront DEF Typed, TypeOK, RosterTypeOK
<1>3. S \in SUBSET Sessions /\ \A t \in S : Open(t) /\ status[t] # "unborn"
  BY <1>2 DEF CanCancel, Open
<1> HIDE DEF S, id
<1> QED
  BY <1>1, <1>3, CloseEnd DEF InnerSame

LEMMA ExecTerminalEnd == Typed /\ EndInv /\ ExecTerminal => EndInv'
<1> SUFFICES ASSUME Typed, EndInv, ExecTerminal PROVE EndInv'
  OBVIOUS
<1> DEFINE s == Head(inputs["terminal"])
           q == Tail(inputs["terminal"])
           id == [t \in Sessions |-> t]
           S == {s}
<1>1. /\ inputs["terminal"] # <<>> /\ closing = {} /\ inputs' = [inputs EXCEPT !["terminal"] = q]
      /\ UNCHANGED <<awaiting, checks, finished, begun, report, finals, active, tasks, arriving>>
  BY DEF ExecTerminal, cleanVars, finishVars, historyVars, taskVars, Pop, QueueRuns, Running
<1>2. \/ status[s] = "Ongoing" /\ Close(S, "Terminated", id, "Terminated")
      \/ status[s] = "DeferredCleanup" /\ Close(S, "Cleanup", id, "Terminated")
      \/ UNCHANGED <<status, closing>>
  BY DEF ExecTerminal
<1>3. InputsOK(inputs) /\ s \in Sessions /\ q \in Seq(Sessions)
  BY <1>1, InputsTail, InputsType DEF Typed, TypeOK
<1>4. InnerSame
  <2> HIDE DEF q
  <2> QED
    BY <1>1, <1>3, SetInput DEF InnerSame, Nodes, Inner
<1>5. S \in SUBSET Sessions
  BY <1>3
<1>6. status[s] \in {"Ongoing", "DeferredCleanup"} => \A t \in S : Open(t) /\ status[t] # "unborn"
  BY DEF Open
<1> HIDE DEF S, s, id, q
<1>7. CASE status[s] = "Ongoing" /\ Close(S, "Terminated", id, "Terminated")
  BY <1>1, <1>4, <1>5, <1>6, <1>7, CloseEnd
<1>8. CASE status[s] = "DeferredCleanup" /\ Close(S, "Cleanup", id, "Terminated")
  BY <1>1, <1>4, <1>5, <1>6, <1>8, CloseEnd
<1>9. CASE UNCHANGED <<status, closing>>
  BY <1>1, <1>4, <1>9, QuietKept DEF Quiet, NoEnd
<1> QED
  BY <1>2, <1>7, <1>8, <1>9

\* The outer workflow cleans up only what is still ongoing.
LEMMA OuterCleanupEnd ==
    ASSUME NEW p \in Parents, Typed, EndInv, EarlyCleanup # "any time", OuterCleanup(p)
    PROVE  EndInv'
<1> DEFINE S == {s \in Sessions : HasPair(s) /\ owner[s] = p /\ status[s] # "Cleanup"}
           id == [s \in Sessions |-> p]
           q == Without(inputs["scope"], {p})
<1>1. /\ inputs' = [inputs EXCEPT !["scope"] = q] /\ closing = {}
      /\ UNCHANGED <<awaiting, checks, finished, begun, report, finals, active, tasks, arriving>>
  BY DEF OuterCleanup, cleanVars, finishVars, taskVars, rosterVars, QueueRuns, Running
<1>2. \/ /\ status' = [s \in Sessions |-> IF s \in S THEN "DeferredCleanup" ELSE status[s]]
         /\ UNCHANGED closing
      \/ Close(S, "Cleanup", id, "EarlyCleanup")
  BY DEF OuterCleanup
<1>3. \A s \in Sessions : owner[s] = p => status[s] = "Ongoing"
  BY ScopeAssumption DEF OuterCleanup
<1>4. S \in SUBSET Sessions /\ \A s \in S : Open(s) /\ status[s] # "unborn"
  BY <1>3 DEF Open
<1>5. InnerSame
  <2>1. InputsOK(inputs)
    BY InputsType DEF Typed, TypeOK
  <2>2. q \in Seq(Parents)
    BY <2>1, WithoutSet DEF InputsOK
  <2> HIDE DEF q, S, id
  <2> DEFINE f == [inputs EXCEPT !["scope"] = q]
  <2>4. \A m \in Nodes \ {"scope"} : f[m] = inputs[m]
    BY <2>1, <2>2, SetScope
  <2>5. inputs' = f
    BY <1>1
  <2> HIDE DEF f
  <2>3. \A m \in Nodes \ {"scope"} : inputs'[m] = inputs[m]
    BY <2>4, <2>5
  <2> QED
    BY <2>3 DEF InnerSame, Nodes, Inner
<1> HIDE DEF S, id
<1>6. CASE Close(S, "Cleanup", id, "EarlyCleanup")
  BY <1>1, <1>4, <1>5, <1>6, CloseEnd
<1>7. CASE /\ status' = [s \in Sessions |-> IF s \in S THEN "DeferredCleanup" ELSE status[s]]
           /\ UNCHANGED closing
  <2>1. /\ inputs'["fork"] = inputs["fork"] /\ inputs'["async"] = inputs["async"]
        /\ \A t : Enters(t)' <=> Enters(t)
    BY <1>5, InnerSameIs
  <2>2. ASSUME NEW t \in Sessions PROVE Stage(t)' /\ Work(t)' /\ Fed(t)'
    <3>1. Stage(t) /\ Work(t) /\ Fed(t)
      BY DEF EndInv
    <3>2. status'[t] = IF t \in S THEN "DeferredCleanup" ELSE status[t]
      BY <1>7
    <3>3. (Open(t)' <=> Open(t)) /\ (status'[t] = "unborn" <=> status[t] = "unborn")
      BY <1>4, <3>2 DEF Open
    <3>4. Stage(t)'
      BY <1>1, <1>7, <3>1, <3>3 DEF Stage, Closing
    <3>5. Work(t)'
      BY <1>1, <2>1, <3>1, <3>3 DEF Work
    <3>6. Fed(t)'
      BY <1>1, <2>1, <3>1 DEF Fed
    <3> QED
      BY <3>4, <3>5, <3>6
  <2>3. IsInjective(inputs'["fork"]) /\ IsInjective(inputs'["async"])
    BY <2>1 DEF EndInv, OneEach
  <2> QED
    BY <1>1, <1>7, <2>2, <2>3, NoEndKept DEF NoEnd
<1> QED
  BY <1>2, <1>6, <1>7

-----------------------------------------------------------------------------
(* The steps that end a session *)

LEMMA HasAppend ==
    ASSUME NEW X, NEW q \in Seq(X), NEW e \in X, Distinct(q), ~Has(q, e.session)
    PROVE  /\ Distinct(Append(q, e))
           /\ \A t : Has(Append(q, e), t) <=> Has(q, t) \/ t = e.session
<1>1. ToSet(Append(q, e)) = ToSet(q) \cup {e} /\ (IsInjective(q) /\ e \notin ToSet(q) => IsInjective(Append(q, e)))
  BY AppendSet
<1>2. e \notin ToSet(q)
  BY DEF Has
<1> QED
  BY <1>1, <1>2 DEF Distinct, Has

LEMMA HasFront ==
    ASSUME NEW X, NEW q \in Seq(X), q # <<>>, Distinct(q)
    PROVE  /\ Distinct(Front(q)) /\ Has(q, Last(q).session)
           /\ \A t : Has(Front(q), t) => Has(q, t) /\ t # Last(q).session
<1> DEFINE p == Front(q)
           l == Last(q)
<1>1. /\ Len(q) \in DOMAIN q /\ l = q[Len(q)] /\ p \in Seq(X)
      /\ \A i \in DOMAIN p : i \in DOMAIN q /\ i # Len(q) /\ p[i] = q[i]
  BY LastFront
<1>2. DOMAIN q = 1..Len(q) /\ DOMAIN p = 1..Len(p)
  BY <1>1
<1> HIDE DEF p, l
<1>3. IsInjective(q) /\ \A a, b \in ToSet(q) : a.session = b.session => a = b
  BY DEF Distinct
<1>4. IsInjective(p)
  BY <1>1, <1>3 DEF IsInjective
<1>5. l \in ToSet(q)
  BY <1>1, <1>2 DEF ToSet
<1>6. \A a \in ToSet(p) : a \in ToSet(q) /\ a # l
  <2> SUFFICES ASSUME NEW a \in ToSet(p) PROVE a \in ToSet(q) /\ a # l
    OBVIOUS
  <2>1. PICK i \in DOMAIN p : a = p[i]
    BY <1>2 DEF ToSet
  <2>2. i \in DOMAIN q /\ i # Len(q) /\ a = q[i]
    BY <1>1, <2>1
  <2>3. a # l
    BY <1>1, <1>3, <2>2 DEF IsInjective
  <2> QED
    BY <1>2, <2>2, <2>3 DEF ToSet
<1>7. Distinct(p) /\ Has(q, l.session)
  BY <1>3, <1>4, <1>5, <1>6 DEF Distinct, Has
<1>8. \A t : Has(p, t) => Has(q, t) /\ t # l.session
  BY <1>3, <1>5, <1>6 DEF Has
<1> QED
  BY <1>7, <1>8 DEF p, l

Cleans == [session : Sessions, id : CleanupIds]

LEMMA RegisterEnd ==
    ASSUME finished \in Seq(Cleans), Distinct(finished), NEW s \in Sessions, NEW id \in CleanupIds,
           ~Has(finished, s), NEW left, Register(left, s, id)
    PROVE  /\ Distinct(finished')
           /\ \A t : Has(finished', t) <=> Has(finished, t) \/ (t = s /\ left = {})
<1> DEFINE e == [session |-> s, id |-> id]
<1>1. e \in Cleans /\ e.session = s
  BY DEF Cleans
<1>2. finished' = IF left = {} THEN Append(finished, e) ELSE finished
  BY DEF Register
<1> HIDE DEF e
<1>3. CASE left = {}
  <2>1. /\ Distinct(Append(finished, e))
        /\ \A t : Has(Append(finished, e), t) <=> Has(finished, t) \/ t = e.session
    BY <1>1, HasAppend
  <2> QED
    BY <1>1, <1>2, <1>3, <2>1
<1>4. CASE left # {}
  BY <1>2, <1>4
<1> QED
  BY <1>3, <1>4

LEMMA CleanSessionEnd == Typed /\ EndInv /\ CleanSession => EndInv'
<1> SUFFICES ASSUME Typed, EndInv, CleanSession PROVE EndInv'
  OBVIOUS
<1>0. /\ InputsOK(inputs) /\ awaiting \in Seq(Entries) /\ finished \in Seq(Cleans)
      /\ tasks \in [Sessions -> {"none", "running", "cleaning", "stopping"}]
      /\ arriving \in [Sessions -> [id : Ids, dispose : BOOLEAN]]
      /\ begun \in [Sessions -> Nat]
  BY InputsType DEF Typed, TypeOK, CleanTypeOK, RosterTypeOK, TaskTypeOK, Entries, Cleans
<1>1. PICK c \in closing :
        /\ closing' = closing \ {c}
        /\ awaiting' = Append(awaiting, [session |-> c.session, id |-> c.id, why |-> c.why, left |-> None])
        /\ inputs' = [node \in DOMAIN inputs |->
                        IF node \in Inner THEN Without(inputs[node], {c.session}) ELSE inputs[node]]
        /\ Register(IF AsyncIsClean(c.session, c.id) THEN {} ELSE {"async"}, c.session, c.id)
        /\ tasks' = [tasks EXCEPT ![c.session] =
                        IF @ = "running" THEN "cleaning"
                        ELSE IF @ = "cleaning" THEN "none" ELSE @]
        /\ arriving' = [arriving EXCEPT ![c.session] = IF tasks[c.session] = "running"
                                               THEN [id |-> c.id, dispose |-> FALSE] ELSE @]
        /\ active' = active \ {c.session}
        /\ UNCHANGED <<status, checks, begun, finals, report>>
  BY DEF CleanSession, finishVars, historyVars
<1>2. PICK s \in Sessions : s = c.session
  BY <1>1 DEF Typed, TypeOK, CleanTypeOK
<1>3. PICK id \in CleanupIds : id = c.id
  BY <1>1 DEF Typed, TypeOK, CleanTypeOK
<1>4. Stage(s) /\ Work(s) /\ Fed(s) /\ Closing(s)
  BY <1>1, <1>2 DEF EndInv, Closing
<1>5. /\ ~Open(s) /\ tasks[s] # "cleaning" /\ ~Has(finished, s) /\ ~Has(awaiting, s)
      /\ begun[s] = 0 /\ finals[s] = 0 /\ s \notin ToSet(checks)
  BY <1>4 DEF Stage
<1>6. /\ Closing(s)' = FALSE /\ \A t : Closing(t)' => Closing(t)
      /\ \A d, e \in closing' : d.session = e.session => d = e
  BY <1>1, <1>2 DEF EndInv, OneEach, Closing
\* The entry that is added.
<1> DEFINE a == [session |-> c.session, id |-> c.id, why |-> c.why, left |-> None]
<1>7. a \in Entries /\ a.session = s /\ a.left = None
  BY <1>1, <1>2 DEF Typed, TypeOK, CleanTypeOK, Entries
<1>8. /\ ToSet(awaiting') = ToSet(awaiting) \cup {a} /\ Distinct(awaiting')
      /\ \A t : Has(awaiting', t) <=> Has(awaiting, t) \/ t = s
  <2>1. awaiting' = Append(awaiting, a) /\ Distinct(awaiting)
    BY <1>1 DEF EndInv, OneEach
  <2> HIDE DEF a
  <2>2. ToSet(Append(awaiting, a)) = ToSet(awaiting) \cup {a}
    BY <1>0, <1>7, AppendSet
  <2>3. Distinct(Append(awaiting, a)) /\ \A t : Has(Append(awaiting, a), t) <=> Has(awaiting, t) \/ t = a.session
    BY <1>0, <1>5, <1>7, <2>1, HasAppend
  <2> QED
    BY <1>7, <2>1, <2>2, <2>3
<1> HIDE DEF a
\* Its nodes are clean unless its task runs.
<1>9. /\ Distinct(finished')
      /\ \A t : Has(finished', t) <=> Has(finished, t) \/ (t = s /\ tasks[s] = "none")
  <2> DEFINE left == IF AsyncIsClean(s, id) THEN {} ELSE {"async"}
  <2>1. Register(left, s, id) /\ Distinct(finished)
    BY <1>1, <1>2, <1>3 DEF EndInv, OneEach
  <2>2. left = {} <=> tasks[s] = "none"
    BY <1>5 DEF AsyncIsClean
  <2> HIDE DEF left
  <2>3. /\ Distinct(finished')
        /\ \A t : Has(finished', t) <=> Has(finished, t) \/ (t = s /\ left = {})
    BY <1>0, <1>5, <2>1, RegisterEnd
  <2> QED
    BY <2>2, <2>3
<1>10. \A node \in Inner : /\ inputs'[node] = Without(inputs[node], {s})
                           /\ ToSet(inputs'[node]) = ToSet(inputs[node]) \ {s}
                           /\ IsInjective(inputs[node]) => IsInjective(inputs'[node])
  <2> SUFFICES ASSUME NEW node \in Inner
               PROVE  /\ inputs'[node] = Without(inputs[node], {s})
                      /\ ToSet(inputs'[node]) = ToSet(inputs[node]) \ {s}
                      /\ IsInjective(inputs[node]) => IsInjective(inputs'[node])
    OBVIOUS
  <2>1. inputs[node] \in Seq(Sessions) /\ node \in DOMAIN inputs
    BY <1>0 DEF InputsOK, Nodes
  <2>2. inputs'[node] = Without(inputs[node], {s})
    BY <1>1, <1>2, <2>1
  <2> QED
    BY <2>1, <2>2, WithoutSet
<1>11. ~Enters(s)' /\ \A t : Enters(t)' => Enters(t)
  BY <1>10 DEF Enters
<1>12. ASSUME NEW t \in Sessions PROVE Fed(t)'
  <2>1. t # s => tasks'[t] = tasks[t]
    BY <1>0, <1>1, <1>2
  <2>2. Fed(t)
    BY DEF EndInv
  <2>3. /\ ToSet(inputs'["fork"]) = ToSet(inputs["fork"]) \ {s}
        /\ ToSet(inputs'["async"]) = ToSet(inputs["async"]) \ {s}
    BY <1>10 DEF Inner
  <2> QED
    BY <2>1, <2>2, <2>3 DEF Fed
<1>13. ASSUME NEW t \in Sessions, t # s PROVE Stage(t)' /\ Work(t)'
  <2>1. tasks'[t] = tasks[t] /\ arriving'[t] = arriving[t]
    BY <1>0, <1>1, <1>2, <1>13
  <2>2. Same(t)
    BY <1>1, <1>6, <1>8, <1>9, <1>11, <1>13, <2>1 DEF Same
  <2>3. Stage(t) /\ Work(t)
    BY DEF EndInv
  <2> QED
    BY <2>2, <2>3, SameKept
<1>14. Stage(s)' /\ Work(s)'
  <2>1. tasks'[s] = IF tasks[s] = "running" THEN "cleaning" ELSE tasks[s]
    BY <1>0, <1>1, <1>2, <1>5
  <2>2. arriving'[s] = IF tasks[s] = "running" THEN [id |-> id, dispose |-> FALSE] ELSE arriving[s]
    BY <1>0, <1>1, <1>2, <1>3
  <2>3. id # None
    BY <1>3, IdsDiffer
  <2>4. [id |-> id, dispose |-> FALSE] # NoItem
    BY <2>3 DEF NoItem
  <2>5. s \notin active'
    BY <1>1, <1>2
  <2>6. Stage(s)'
    BY <1>1, <1>4, <1>5, <1>6 DEF Stage, Open
  <2>7. Work(s)'
    <3>1. status'[s] # "unborn" /\ begun'[s] = 0
      BY <1>1, <1>5 DEF Open
    <3>2. arriving'[s] = NoItem <=> tasks'[s] \in {"none", "running"}
      BY <1>4, <2>1, <2>2, <2>4 DEF Work
    <3>3. tasks'[s] # "cleaning" => arriving'[s].id = None
      BY <1>4, <1>5, <2>1, <2>2 DEF Work
    <3>4. /\ tasks'[s] = "cleaning" => ~Has(finished', s)
          /\ Has(finished', s) => tasks'[s] = "none"
      BY <1>5, <1>9, <2>1
    <3> QED
      BY <1>11, <2>5, <3>1, <3>2, <3>3, <3>4 DEF Work
  <2> QED
    BY <2>6, <2>7
<1>15. ASSUME NEW b \in ToSet(awaiting') PROVE Entry(b)'
  <2>1. CASE b = a
    <3>1. b.session = s /\ b.left = None
      BY <1>7, <2>1
    <3>2. finals'[s] = 0
      BY <1>1, <1>5
    <3> QED
      BY <3>1, <3>2 DEF Entry
  <2>2. CASE b \in ToSet(awaiting)
    <3>1. Entry(b)
      BY <2>2 DEF EndInv
    <3> QED
      BY <1>1, <3>1 DEF Entry
  <2> QED
    BY <1>8, <2>1, <2>2
<1>16. OneEach'
  <2>1. IsInjective(inputs'["fork"]) /\ IsInjective(inputs'["async"])
    BY <1>10 DEF Inner, EndInv, OneEach
  <2> QED
    BY <1>1, <1>6, <1>8, <1>9, <2>1 DEF EndInv, OneEach
<1> QED
  BY <1>12, <1>13, <1>14, <1>15, <1>16 DEF EndInv

LEMMA CollectTaskEnd ==
    ASSUME NEW s \in Sessions, Typed, EndInv, CollectTask(s)
    PROVE  EndInv'
<1>0. /\ finished \in Seq(Cleans)
      /\ tasks \in [Sessions -> {"none", "running", "cleaning", "stopping"}]
      /\ arriving \in [Sessions -> [id : Ids, dispose : BOOLEAN]]
      /\ begun \in [Sessions -> Nat]
  BY DEF Typed, TypeOK, RosterTypeOK, TaskTypeOK, Cleans
<1> DEFINE id == arriving[s].id
           ready == id # None /\ NoOtherTask(s, id) /\ contents[id] # {}
<1>1. /\ tasks' = [tasks EXCEPT ![s] = "none"]
      /\ arriving' = [arriving EXCEPT ![s] = NoItem]
      /\ UNCHANGED <<status, active, inputs, closing, awaiting, checks, begun, finals, report>>
  BY DEF CollectTask, sessionVars, nodeVars, finishVars, historyVars
<1>2. IF ready THEN Register(contents[id] \ {"async"}, s, id) ELSE UNCHANGED <<contents, finished>>
  BY DEF CollectTask
<1>3. Stage(s) /\ Work(s) /\ Fed(s)
  BY DEF EndInv
<1>4. ready => id \in CleanupIds
  BY <1>0 DEF Ids
<1>5. ready => tasks[s] = "cleaning"
  BY <1>3 DEF Work
<1>6. tasks[s] = "cleaning" => /\ ~Open(s) /\ ~Closing(s) /\ begun[s] = 0 /\ ~Has(finished, s)
                              /\ s \notin active /\ ~Enters(s)
  BY <1>3 DEF Stage, Work
<1> HIDE DEF ready
<1>7. /\ Distinct(finished')
      /\ \A t \in Sessions \ {s} : Has(finished', t) => Has(finished, t)
      /\ Has(finished', s) => Has(finished, s) \/ tasks[s] = "cleaning"
  <2>1. CASE ready
    <3> DEFINE left == contents[id] \ {"async"}
    <3>1. Register(left, s, id) /\ Distinct(finished) /\ id \in CleanupIds
      BY <1>2, <1>4, <2>1 DEF EndInv, OneEach
    <3> HIDE DEF left, id
    <3>2. /\ Distinct(finished')
          /\ \A t : Has(finished', t) <=> Has(finished, t) \/ (t = s /\ left = {})
      BY <1>0, <1>5, <1>6, <2>1, <3>1, RegisterEnd
    <3> QED
      BY <1>5, <2>1, <3>2
  <2>2. CASE ~ready
    BY <1>2, <2>2 DEF EndInv, OneEach
  <2> QED
    BY <2>1, <2>2
<1> HIDE DEF id
<1>8. \A t : (Enters(t)' <=> Enters(t)) /\ (Closing(t)' <=> Closing(t))
  BY <1>1 DEF Enters, Closing
<1>9. ASSUME NEW t \in Sessions, t # s PROVE Stage(t)' /\ Work(t)' /\ Fed(t)'
  <2>1. tasks'[t] = tasks[t] /\ arriving'[t] = arriving[t]
    BY <1>0, <1>1, <1>9
  <2>2. Same(t)
    BY <1>1, <1>7, <1>8, <1>9, <2>1 DEF Same
  <2>3. Stage(t) /\ Work(t) /\ Fed(t)
    BY DEF EndInv
  <2>4. Fed(t)'
    BY <1>1, <2>1, <2>3 DEF Fed
  <2> QED
    BY <2>2, <2>3, <2>4, SameKept
<1>10. Stage(s)' /\ Work(s)' /\ Fed(s)'
  <2>1. tasks'[s] = "none" /\ arriving'[s] = NoItem /\ NoItem.id = None
    BY <1>0, <1>1 DEF NoItem
  <2>2. Stage(s)'
    BY <1>1, <1>3, <1>6, <1>7, <1>8, <2>1 DEF Stage, Open
  <2>3. Work(s)'
    <3>1. Has(finished', s) \/ begun'[s] > 0 => s \notin active' /\ ~Enters(s)'
      BY <1>1, <1>3, <1>6, <1>7, <1>8 DEF Work
    <3>2. status'[s] = "unborn" => s \notin active' /\ ~Enters(s)'
      BY <1>1, <1>3, <1>8 DEF Work
    <3> QED
      BY <2>1, <3>1, <3>2 DEF Work
  <2>4. Fed(s)'
    BY <1>1, <1>3, <2>1 DEF Fed
  <2> QED
    BY <2>2, <2>3, <2>4
<1>11. OneEach'
  BY <1>1, <1>7 DEF EndInv, OneEach, Distinct
<1>12. \A b \in ToSet(awaiting') : Entry(b)'
  BY <1>1 DEF EndInv, Entry
<1> QED
  BY <1>9, <1>10, <1>11, <1>12 DEF EndInv

\* Giving entries new things to wait for leaves them as distinct as they were.
LEMMA UpdatedDistinct ==
    ASSUME awaiting \in Seq(Entries), Distinct(awaiting), NEW aw, Updated(aw)
    PROVE  /\ Distinct(aw)
           /\ \A t : Has(aw, t) <=> Has(awaiting, t)
           /\ \A i, j \in DOMAIN aw : aw[i].session = aw[j].session => i = j
<1>1. /\ DOMAIN aw = 1..Len(aw) /\ DOMAIN awaiting = 1..Len(awaiting) /\ DOMAIN aw = DOMAIN awaiting
      /\ \A j \in DOMAIN aw : aw[j].session = awaiting[j].session
  BY DEF Updated
<1>2. \A i, j \in DOMAIN aw : aw[i].session = aw[j].session => i = j
  <2> SUFFICES ASSUME NEW i \in DOMAIN aw, NEW j \in DOMAIN aw, aw[i].session = aw[j].session
               PROVE  i = j
    OBVIOUS
  <2>1. awaiting[i] \in ToSet(awaiting) /\ awaiting[j] \in ToSet(awaiting)
    BY <1>1 DEF ToSet
  <2>2. awaiting[i].session = awaiting[j].session
    BY <1>1
  <2>3. awaiting[i] = awaiting[j]
    BY <2>1, <2>2 DEF Distinct
  <2> QED
    BY <1>1, <2>3 DEF Distinct, IsInjective
<1>3. IsInjective(aw)
  BY <1>2 DEF IsInjective
<1>4. \A a, b \in ToSet(aw) : a.session = b.session => a = b
  BY <1>1, <1>2 DEF ToSet
<1>5. \A t : Has(aw, t) <=> Has(awaiting, t)
  <2>1. ToSet(aw) = {aw[i] : i \in DOMAIN aw} /\ ToSet(awaiting) = {awaiting[i] : i \in DOMAIN aw}
    BY <1>1 DEF ToSet
  <2> QED
    BY <1>1, <2>1 DEF Has
<1> QED
  BY <1>2, <1>3, <1>4, <1>5 DEF Distinct

LEMMA TriggerCleanupEnd == Typed /\ EndInv /\ TriggerCleanup => EndInv'
<1> SUFFICES ASSUME Typed, EndInv, TriggerCleanup PROVE EndInv'
  OBVIOUS
<1>0. /\ finished \in Seq(Cleans) /\ finished # <<>> /\ awaiting \in Seq(Entries) /\ checks \in Seq(Sessions)
      /\ status \in [Sessions -> Status] /\ begun \in [Sessions -> Nat]
  BY DEF Typed, TypeOK, SessionTypeOK, CleanTypeOK, RosterTypeOK, Cleans, Entries, TriggerCleanup
<1>01. Last(finished).session \in Sessions
  <2>1. Last(finished) \in Cleans
    BY <1>0, LastFront
  <2> QED
    BY <2>1 DEF Cleans
<1>02. PICK s \in Sessions : s = Last(finished).session
  BY <1>01
<1> DEFINE i == EntryOf(s)
<1>1. /\ finished' = Front(finished)
      /\ status' = [status EXCEPT ![s] = IF HasPair(s) THEN "dropped" ELSE @]
      /\ UNCHANGED <<active, inputs, tasks, arriving, closing, report, finals>>
  BY <1>02 DEF TriggerCleanup, taskVars, nodeVars
<1>2. \/ UNCHANGED <<awaiting, checks, begun>>
      \/ /\ i # 0 /\ checks' = Append(checks, s) /\ begun' = [begun EXCEPT ![s] = @ + 1]
         /\ \E ws : /\ ws \subseteq CleanupWorkflows
                    /\ awaiting' = [awaiting EXCEPT ![i].left =
                                       {[session |-> s, workflow |-> w, n |-> begun[s]] : w \in ws}]
  <2> DEFINE ws == IF awaiting[i].why = "Terminated" THEN OnTerminate ELSE OnCancelled
             begin == {[session |-> s, workflow |-> w, n |-> begun[s]] : w \in ws}
  <2>1. ws \subseteq CleanupWorkflows
    BY ScopeAssumption
  <2>2. \/ UNCHANGED <<awaiting, checks, begun>>
        \/ /\ i # 0 /\ checks' = Append(checks, s) /\ begun' = [begun EXCEPT ![s] = @ + 1]
           /\ awaiting' = [awaiting EXCEPT ![i].left = begin]
    BY <1>02 DEF TriggerCleanup
  <2> HIDE DEF ws, i
  <2> QED
    BY <2>1, <2>2
<1>3. i = 0 \/ (i \in DOMAIN awaiting /\ awaiting[i].session = s)
  BY <1>0, EntryFound
<1> HIDE DEF i
<1>4. /\ Distinct(finished') /\ Has(finished, s)
      /\ \A t : Has(finished', t) => Has(finished, t) /\ t # s
  <2>1. Distinct(finished)
    BY DEF EndInv, OneEach
  <2> QED
    BY <1>0, <1>02, <1>1, <2>1, HasFront
<1>5. Stage(s) /\ Work(s) /\ Fed(s)
  BY DEF EndInv
<1>6. /\ ~Open(s) /\ ~Closing(s) /\ begun[s] = 0 /\ finals[s] = 0 /\ s \notin ToSet(checks)
      /\ tasks[s] = "none" /\ s \notin active /\ ~Enters(s)
  BY <1>4, <1>5 DEF Stage, Work
<1>7. \A t : (Enters(t)' <=> Enters(t)) /\ (Closing(t)' <=> Closing(t))
  BY <1>1 DEF Enters, Closing
<1>8. /\ \A t \in Sessions \ {s} : status'[t] = status[t] /\ begun'[t] = begun[t]
      /\ ~Open(s)' /\ status'[s] # "unborn" /\ begun'[s] \in {0, 1}
      /\ UNCHANGED <<awaiting, checks, begun>> \/ begun'[s] = 1
  <2>1. begun'[s] \in {0, 1} /\ (UNCHANGED <<awaiting, checks, begun>> \/ begun'[s] = 1)
    BY <1>0, <1>2, <1>6
  <2>2. \A t \in Sessions \ {s} : status'[t] = status[t] /\ begun'[t] = begun[t]
    BY <1>0, <1>1, <1>2
  <2>3. ~Open(s)' /\ status'[s] # "unborn"
    <3>1. status'[s] \in {"dropped", status[s]}
      BY <1>0, <1>1
    <3> QED
      BY <1>6, <3>1 DEF Open
  <2> QED
    BY <2>1, <2>2, <2>3
<1>9. /\ IsInjective(checks')
      /\ \A t \in ToSet(checks') : t \in ToSet(checks) \/ t = s
      /\ begun'[s] = 0 => s \notin ToSet(checks')
  <2>1. IsInjective(checks)
    BY DEF EndInv, OneEach
  <2>2. ToSet(Append(checks, s)) = ToSet(checks) \cup {s} /\ IsInjective(Append(checks, s))
    BY <1>0, <1>6, <2>1, AppendSet
  <2>3. CASE UNCHANGED <<awaiting, checks, begun>>
    BY <1>6, <2>1, <2>3
  <2>4. CASE checks' = Append(checks, s) /\ begun' = [begun EXCEPT ![s] = @ + 1]
    <3>1. begun'[s] = 1
      BY <1>0, <1>6, <2>4
    <3> QED
      BY <2>2, <2>4, <3>1
  <2> QED
    BY <1>2, <2>3, <2>4
\* The entries: one of them learns of the cleanup workflows.
<1>10. /\ Distinct(awaiting') /\ \A t : Has(awaiting', t) <=> Has(awaiting, t)
       /\ \A b \in ToSet(awaiting') : b \in ToSet(awaiting) \/ (b.session = s /\ begun'[s] = 1)
  <2>1. Distinct(awaiting)
    BY DEF EndInv, OneEach
  <2>2. CASE UNCHANGED <<awaiting, checks, begun>>
    BY <2>1, <2>2
  <2>3. ASSUME i # 0, begun' = [begun EXCEPT ![s] = @ + 1], NEW ws, ws \subseteq CleanupWorkflows,
               awaiting' = [awaiting EXCEPT ![i].left =
                               {[session |-> s, workflow |-> w, n |-> begun[s]] : w \in ws}]
        PROVE  /\ Distinct(awaiting') /\ \A t : Has(awaiting', t) <=> Has(awaiting, t)
               /\ \A b \in ToSet(awaiting') : b \in ToSet(awaiting) \/ (b.session = s /\ begun'[s] = 1)
    <3> DEFINE l == {[session |-> s, workflow |-> w, n |-> begun[s]] : w \in ws}
               aw == [awaiting EXCEPT ![i].left = l]
    <3>1. l \in {None} \cup SUBSET Runs /\ i \in DOMAIN awaiting
      <4>1. begun[s] \in Nat /\ s \in Sessions
        BY <1>0
      <4>2. \A w \in ws : [session |-> s, workflow |-> w, n |-> begun[s]] \in Runs
        BY <2>3, <4>1 DEF Runs
      <4> QED
        BY <1>3, <2>3, <4>2
    <3>2. begun'[s] = 1
      BY <1>0, <1>6, <2>3
    <3>3. awaiting' = aw
      BY <2>3
    <3> HIDE DEF l
    <3>4. LeftSet(aw, awaiting, i, l)
      BY <1>0, <3>1, SetLeft
    <3> HIDE DEF aw
    <3>5. Updated(aw)
      BY <3>4 DEF Updated, LeftSet
    <3>6. Distinct(aw) /\ \A t : Has(aw, t) <=> Has(awaiting, t)
      BY <1>0, <2>1, <3>5, UpdatedDistinct
    <3>7. ASSUME NEW b \in ToSet(aw) PROVE b \in ToSet(awaiting) \/ b.session = s
      <4>1. PICK j \in DOMAIN aw : b = aw[j]
        <5>1. DOMAIN aw = 1..Len(aw)
          BY <3>5 DEF Updated
        <5> QED
          BY <5>1 DEF ToSet
      <4>2. CASE j = i
        BY <1>3, <3>1, <3>5, <4>1, <4>2 DEF Updated
      <4>3. CASE j # i
        <5>1. aw[j] = awaiting[j] /\ j \in DOMAIN awaiting
          BY <3>5, <4>1, <4>3 DEF aw, Updated
        <5>2. DOMAIN awaiting = 1..Len(awaiting)
          BY <1>0
        <5> QED
          BY <4>1, <5>1, <5>2 DEF ToSet
      <4> QED
        BY <4>2, <4>3
    <3> QED
      BY <3>2, <3>3, <3>6, <3>7
  <2> QED
    BY <1>2, <2>2, <2>3
<1>11. ASSUME NEW t \in Sessions PROVE Fed(t)'
  <2>1. Fed(t)
    BY DEF EndInv
  <2> QED
    BY <1>1, <2>1 DEF Fed
<1>12. ASSUME NEW t \in Sessions, t # s PROVE Stage(t)' /\ Work(t)'
  <2>1. Same(t)
    BY <1>1, <1>4, <1>7, <1>8, <1>9, <1>10, <1>12 DEF Same
  <2>2. Stage(t) /\ Work(t)
    BY DEF EndInv
  <2> QED
    BY <2>1, <2>2, SameKept
<1>13. Stage(s)' /\ Work(s)'
  <2>1. ~Has(finished', s)
    BY <1>4
  <2>2. Stage(s)'
    BY <1>1, <1>5, <1>6, <1>7, <1>8, <1>9, <2>1 DEF Stage
  <2>3. Work(s)'
    BY <1>1, <1>5, <1>6, <1>7, <1>8, <2>1 DEF Work
  <2> QED
    BY <2>2, <2>3
<1>14. ASSUME NEW b \in ToSet(awaiting') PROVE Entry(b)'
  <2>1. CASE b.session = s
    <3>1. finals'[s] = 0
      BY <1>1, <1>6
    <3>2. begun'[s] = 1 \/ (b \in ToSet(awaiting) /\ begun' = begun)
      BY <1>8, <1>10, <2>1
    <3>3. b \in ToSet(awaiting) => Entry(b)
      BY DEF EndInv
    <3> QED
      BY <2>1, <3>1, <3>2, <3>3 DEF Entry
  <2>2. CASE b.session # s
    <3>1. b \in ToSet(awaiting)
      BY <1>10, <2>2
    <3>2. Entry(b) /\ b.session \in Sessions
      <4>1. \A e \in ToSet(awaiting) : e \in Entries
        BY <1>0 DEF ToSet
      <4> QED
        BY <3>1, <4>1 DEF EndInv, Entries
    <3>3. begun'[b.session] = begun[b.session] /\ finals' = finals
      BY <1>1, <1>8, <2>2, <3>2
    <3> QED
      BY <1>9, <2>2, <3>2, <3>3 DEF Entry
  <2> QED
    BY <2>1, <2>2
<1>15. OneEach'
  BY <1>1, <1>4, <1>9, <1>10 DEF EndInv, OneEach
<1> QED
  BY <1>11, <1>12, <1>13, <1>14, <1>15 DEF EndInv

\* The entries may have less to wait for than before.
Trimmed(aw) ==
    /\ Updated(aw)
    /\ \A j \in DOMAIN aw : \/ aw[j].left = awaiting[j].left
                            \/ awaiting[j].left # None /\ aw[j].left \subseteq awaiting[j].left

\* What may be finalized: an entry whose cleanup workflows were begun and have ended, of
\* a session that was not finalized before and is not to be checked again.
Ready(aw, i) ==
    /\ i \in DOMAIN aw /\ aw[i].left = {}
    /\ begun[aw[i].session] > 0 /\ finals[aw[i].session] = 0
    /\ aw[i].session \notin ToSet(checks')

LEMMA FinishWhat ==
    ASSUME Typed, EndInv, ExecFinish
    PROVE  \E aw : /\ Trimmed(aw)
                   /\ ToSet(checks') \subseteq ToSet(checks) /\ IsInjective(checks')
                   /\ Unfinalized(aw) \/ \E i : Ready(aw, i) /\ FinalizeSession(i, aw)
<1>0. /\ awaiting \in Seq(Entries) /\ checks \in Seq(Sessions) /\ IsInjective(checks)
      /\ begun \in [Sessions -> Nat] /\ finals \in [Sessions -> Nat]
  BY DEF Typed, TypeOK, CleanTypeOK, Entries, EndInv, OneEach
<1>1. Trimmed(awaiting)
  BY <1>0, UpdatedSame DEF Trimmed
<1>2. CASE checks # <<>>
  <2>1. PICK s \in Sessions : s = Head(checks)
    BY <1>0, <1>2, TailSet
  <2> DEFINE i == EntryOf(s)
  <2>2. checks' = Tail(checks)
    BY <1>2 DEF ExecFinish
  <2>3. \/ Unfinalized(awaiting)
        \/ i # 0 /\ awaiting[i].left = {} /\ FinalizeSession(i, awaiting)
    BY <1>2, <2>1 DEF ExecFinish
  <2>4. i = 0 \/ (i \in DOMAIN awaiting /\ awaiting[i].session = s)
    BY <1>0, EntryFound
  <2> HIDE DEF i
  <2>5. /\ s \in ToSet(checks) /\ ToSet(checks) = {s} \cup ToSet(Tail(checks))
        /\ s \notin ToSet(Tail(checks)) /\ IsInjective(Tail(checks))
    BY <1>0, <1>2, <2>1, TailSet
  <2>6. begun[s] > 0
    <3>1. Stage(s) /\ begun[s] \in Nat
      BY <1>0 DEF EndInv
    <3> QED
      BY <2>5, <3>1 DEF Stage
  <2>7. ASSUME i # 0, awaiting[i].left = {} PROVE Ready(awaiting, i)
    <3>1. awaiting[i] \in ToSet(awaiting) /\ awaiting[i].session = s /\ i \in DOMAIN awaiting
      BY <1>0, <2>4, <2>7 DEF ToSet
    <3>2. Entry(awaiting[i]) /\ finals[s] \in Nat
      BY <1>0, <3>1 DEF EndInv
    <3>3. finals[s] = 0
      BY <2>5, <3>1, <3>2 DEF Entry
    <3> QED
      BY <2>2, <2>5, <2>6, <2>7, <3>1, <3>3 DEF Ready
  <2> QED
    BY <1>1, <2>2, <2>3, <2>5, <2>7
<1>3. CASE checks = <<>> /\ dones = <<>>
  <2>1. Unfinalized(awaiting) /\ UNCHANGED checks
    BY <1>3 DEF ExecFinish
  <2> QED
    BY <1>0, <1>1, <2>1
<1>4. CASE checks = <<>> /\ dones # <<>>
  <2>1. PICK r : r = Head(dones)
    OBVIOUS
  <2> DEFINE i == EntryWith(r)
             aw == [awaiting EXCEPT ![i].left = @ \ {r}]
  <2>2. UNCHANGED checks
    BY <1>4 DEF ExecFinish
  <2>3. \/ i = 0 /\ Unfinalized(awaiting)
        \/ i # 0 /\ (Unfinalized(aw) \/ (aw[i].left = {} /\ FinalizeSession(i, aw)))
    BY <1>4, <2>1 DEF ExecFinish
  <2>4. i = 0 \/ (i \in DOMAIN awaiting /\ awaiting[i].left # None /\ r \in awaiting[i].left)
    BY <1>0, RunFound
  <2> HIDE DEF i
  <2>5. CASE i = 0
    BY <1>0, <1>1, <2>2, <2>3, <2>5
  <2>6. CASE i # 0
    <3>1. i \in DOMAIN awaiting /\ awaiting[i].left # None /\ r \in awaiting[i].left
      BY <2>4, <2>6
    <3>2. Updated(aw)
      BY <1>0, <3>1, UpdatedLeft
    <3>3. awaiting[i] \in Entries /\ awaiting[i] \in ToSet(awaiting)
      BY <1>0, <3>1 DEF ToSet
    <3>4. /\ aw[i].left = awaiting[i].left \ {r}
          /\ \A j \in DOMAIN awaiting : j # i => aw[j] = awaiting[j]
      BY <3>1, <3>3 DEF Entries
    <3> HIDE DEF aw
    <3>5. Trimmed(aw)
      <4> SUFFICES ASSUME NEW j \in DOMAIN aw
                   PROVE  \/ aw[j].left = awaiting[j].left
                          \/ awaiting[j].left # None /\ aw[j].left \subseteq awaiting[j].left
        BY <3>2 DEF Trimmed
      <4>1. j \in DOMAIN awaiting
        BY <3>2 DEF Updated
      <4>2. CASE j = i
        BY <3>1, <3>4, <4>2
      <4>3. CASE j # i
        BY <3>4, <4>1, <4>3
      <4> QED
        BY <4>2, <4>3
    <3>6. ASSUME aw[i].left = {} PROVE Ready(aw, i)
      <4>1. aw[i].session = awaiting[i].session /\ i \in DOMAIN aw /\ awaiting[i].session \in Sessions
        BY <3>1, <3>2, <3>3 DEF Updated, Entries
      <4>2. Entry(awaiting[i]) /\ finals[awaiting[i].session] \in Nat
        BY <1>0, <3>3, <4>1 DEF EndInv
      <4>3. begun[awaiting[i].session] > 0 /\ finals[awaiting[i].session] = 0
        BY <3>1, <4>2 DEF Entry
      <4>4. ToSet(checks') = {}
        BY <1>4, <2>2 DEF ToSet
      <4> QED
        BY <3>6, <4>1, <4>3, <4>4 DEF Ready
    <3> QED
      BY <1>0, <2>2, <2>3, <2>6, <3>5, <3>6
  <2> QED
    BY <2>5, <2>6
<1> QED
  BY <1>2, <1>3, <1>4

\* Removing entries leaves the rest distinct.
LEMMA FewerDistinct ==
    ASSUME NEW p, NEW q, Distinct(q), IsInjective(p), ToSet(p) \subseteq ToSet(q)
    PROVE  Distinct(p) /\ \A t : Has(p, t) => Has(q, t)
BY DEF Distinct, Has

LEMMA FinalizeEnd ==
    ASSUME NEW aw \in Seq(Entries), NEW i \in DOMAIN aw, Distinct(aw), FinalizeSession(i, aw)
    PROVE  IsInjective(awaiting') /\ ToSet(awaiting') \subseteq ToSet(aw)
<1> DEFINE rest == EntriesKept(i, aw)
<1>1. IsInjective(aw) /\ i \in 1..Len(aw)
  BY DEF Distinct
<1>2. IsInjective(RemoveAt(aw, i)) /\ RemoveAt(aw, i) \in Seq(Entries) /\ ToSet(RemoveAt(aw, i)) \subseteq ToSet(aw)
  BY <1>1, RemoveAtIs, RemoveAtSet
<1>3. rest \in Seq(Entries) /\ ToSet(rest) \subseteq ToSet(aw) /\ IsInjective(rest)
  BY <1>1, <1>2 DEF EntriesKept
<1>4. awaiting' = rest \/ \E gone : awaiting' = Without(rest, gone)
  BY DEF FinalizeSession
<1> HIDE DEF rest
<1>5. \A gone : IsInjective(Without(rest, gone)) /\ ToSet(Without(rest, gone)) \subseteq ToSet(rest)
  BY <1>3, WithoutSet
<1> QED
  BY <1>3, <1>4, <1>5

LEMMA ExecFinishEnd == Typed /\ EndInv /\ ExecFinish => EndInv'
<1> SUFFICES ASSUME Typed, EndInv, ExecFinish PROVE EndInv'
  OBVIOUS
<1>0. /\ InputsOK(inputs) /\ awaiting \in Seq(Entries)
      /\ begun \in [Sessions -> Nat] /\ finals \in [Sessions -> Nat]
      /\ report \in [Sessions -> Seq({"response", "cancelled"})]
  BY InputsType DEF Typed, TypeOK, CleanTypeOK, Entries
<1>1. PICK aw : /\ Trimmed(aw)
                /\ ToSet(checks') \subseteq ToSet(checks) /\ IsInjective(checks')
                /\ Unfinalized(aw) \/ \E i : Ready(aw, i) /\ FinalizeSession(i, aw)
  BY FinishWhat
<1>2. UNCHANGED <<status, active, tasks, arriving, closing, finished, begun>>
  BY DEF ExecFinish, sessionVars, taskVars
<1>3. /\ Updated(aw) /\ aw \in Seq(Entries) /\ Distinct(aw)
      /\ \A t : Has(aw, t) <=> Has(awaiting, t)
      /\ \A j, k \in DOMAIN aw : aw[j].session = aw[k].session => j = k
  <2>1. Updated(aw) /\ Distinct(awaiting)
    BY <1>1 DEF Trimmed, EndInv, OneEach
  <2>2. aw \in Seq(Entries)
    BY <2>1 DEF Updated
  <2> QED
    BY <1>0, <2>1, <2>2, UpdatedDistinct
\* Each entry of aw is as it was, with less to wait for.
<1>4. ASSUME NEW b \in ToSet(aw)
      PROVE  /\ b.session \in Sessions /\ Entry(b)
             /\ \E j \in DOMAIN aw : b = aw[j]
  <2>0. DOMAIN aw = 1..Len(aw) /\ DOMAIN aw = 1..Len(awaiting)
    BY <1>0, <1>3 DEF Updated
  <2>1. PICK j \in DOMAIN aw : b = aw[j]
    BY <2>0 DEF ToSet
  <2>2. awaiting[j] \in ToSet(awaiting) /\ b.session = awaiting[j].session /\ b \in Entries
    BY <1>3, <2>0, <2>1 DEF ToSet, Updated
  <2>3. Entry(awaiting[j])
    BY <2>2 DEF EndInv
  <2>4. \/ b.left = awaiting[j].left
        \/ awaiting[j].left # None /\ b.left \subseteq awaiting[j].left
    BY <1>1, <2>1 DEF Trimmed
  <2>5. b.session \in Sessions
    BY <2>2 DEF Entries
  <2>6. Entry(b)
    <3>1. b.left # None => begun[b.session] > 0
      BY <2>2, <2>3, <2>4 DEF Entry
    <3>2. finals[b.session] > 0 => b.left = {} /\ b.session \notin ToSet(checks)
      BY <2>2, <2>3, <2>4 DEF Entry
    <3> QED
      BY <3>1, <3>2 DEF Entry
  <2> QED
    BY <2>1, <2>5, <2>6
<1>5. /\ InnerSame /\ IsInjective(awaiting') /\ ToSet(awaiting') \subseteq ToSet(aw)
      /\ \/ UNCHANGED <<report, finals>>
         \/ \E s \in Sessions :
              /\ finals' = [finals EXCEPT ![s] = @ + 1] /\ finals[s] = 0 /\ begun[s] > 0
              /\ s \notin ToSet(checks')
              /\ \A b \in ToSet(aw) : b.session = s => b.left = {}
              /\ \/ report' = [report EXCEPT ![s] = Append(@, "cancelled")]
                 \/ report' = [report EXCEPT ![s] = Append(@, "response")]
                 \/ report' = [report EXCEPT ![s] = @]
  <2>1. CASE Unfinalized(aw)
    BY <1>3, <2>1 DEF Unfinalized, nodeVars, InnerSame, Distinct
  <2>2. ASSUME NEW i, Ready(aw, i), FinalizeSession(i, aw)
        PROVE  /\ InnerSame /\ IsInjective(awaiting') /\ ToSet(awaiting') \subseteq ToSet(aw)
               /\ \E s \in Sessions :
                    /\ finals' = [finals EXCEPT ![s] = @ + 1] /\ finals[s] = 0 /\ begun[s] > 0
                    /\ s \notin ToSet(checks')
                    /\ \A b \in ToSet(aw) : b.session = s => b.left = {}
                    /\ \/ report' = [report EXCEPT ![s] = Append(@, "cancelled")]
                       \/ report' = [report EXCEPT ![s] = Append(@, "response")]
                       \/ report' = [report EXCEPT ![s] = @]
    <3>1. i \in DOMAIN aw
      BY <2>2 DEF Ready
    <3>2. IsInjective(awaiting') /\ ToSet(awaiting') \subseteq ToSet(aw)
      BY <1>3, <2>2, <3>1, FinalizeEnd
    <3>3. PICK s \in Sessions : s = aw[i].session
      <4>1. aw[i] \in Entries
        BY <1>3, <3>1
      <4> QED
        BY <4>1 DEF Entries
    <3>4. /\ finals' = [finals EXCEPT ![s] = @ + 1]
          /\ \/ report' = [report EXCEPT ![s] = Append(@, "cancelled")]
             \/ report' = [report EXCEPT ![s] = Append(@, "response")]
             \/ report' = [report EXCEPT ![s] = @]
      BY <2>2, <3>3 DEF FinalizeSession
    <3>5. InnerSame
      <4> DEFINE u == Without(inputs["terminal"], {s})
      <4>1. UNCHANGED inputs \/ inputs' = [inputs EXCEPT !["terminal"] = u]
        BY <2>2, <3>3 DEF FinalizeSession
      <4>2. u \in Seq(Sessions)
        BY <1>0, WithoutSet DEF InputsOK
      <4> HIDE DEF u
      <4> DEFINE f == [inputs EXCEPT !["terminal"] = u]
      <4>3. \A m \in Nodes \ {"terminal"} : f[m] = inputs[m]
        BY <1>0, <4>2, SetInput
      <4>4. UNCHANGED inputs \/ inputs' = f
        BY <4>1
      <4> HIDE DEF f
      <4> QED
        BY <4>3, <4>4 DEF InnerSame, Nodes, Inner
    <3>6. finals[s] = 0 /\ begun[s] > 0 /\ s \notin ToSet(checks') /\ aw[i].left = {}
      BY <2>2, <3>3 DEF Ready
    <3>7. \A b \in ToSet(aw) : b.session = s => b.left = {}
      BY <1>3, <1>4, <3>1, <3>3, <3>6
    <3> QED
      BY <3>2, <3>4, <3>5, <3>6, <3>7
  <2> QED
    BY <1>1, <2>1, <2>2
<1>6. /\ inputs'["fork"] = inputs["fork"] /\ inputs'["async"] = inputs["async"]
      /\ \A t : Enters(t)' <=> Enters(t)
  BY <1>5, InnerSameIs
<1>7. /\ Distinct(awaiting') /\ \A t : Has(awaiting', t) => Has(awaiting, t)
  BY <1>3, <1>5, FewerDistinct
<1>8. ASSUME NEW t \in Sessions, finals'[t] = finals[t], report'[t] = report[t]
      PROVE  Stage(t)' /\ Work(t)'
  <2>1. Same(t)
    BY <1>1, <1>2, <1>6, <1>7, <1>8 DEF Same, Closing
  <2>2. Stage(t) /\ Work(t)
    BY DEF EndInv
  <2> QED
    BY <2>1, <2>2, SameKept
<1>9. \A t \in Sessions : Fed(t)'
  BY <1>2, <1>6 DEF EndInv, Fed
<1>10. OneEach'
  BY <1>1, <1>2, <1>6, <1>7 DEF EndInv, OneEach, Distinct
<1>11. CASE UNCHANGED <<report, finals>>
  <2>1. ASSUME NEW b \in ToSet(awaiting') PROVE Entry(b)'
    <3>1. Entry(b)
      BY <1>4, <1>5
    <3> QED
      BY <1>1, <1>2, <1>11, <3>1 DEF Entry
  <2> QED
    BY <1>8, <1>9, <1>10, <1>11, <2>1 DEF EndInv
<1>12. ASSUME NEW s \in Sessions,
              finals' = [finals EXCEPT ![s] = @ + 1], finals[s] = 0, begun[s] > 0,
              s \notin ToSet(checks'),
              \A b \in ToSet(aw) : b.session = s => b.left = {},
              \/ report' = [report EXCEPT ![s] = Append(@, "cancelled")]
              \/ report' = [report EXCEPT ![s] = Append(@, "response")]
              \/ report' = [report EXCEPT ![s] = @]
       PROVE  EndInv'
  <2>1. finals'[s] = 1 /\ \A t \in Sessions \ {s} : finals'[t] = finals[t] /\ report'[t] = report[t]
    BY <1>0, <1>12
  <2>2. Len(report'[s]) <= 1
    <3>1. Stage(s)
      BY DEF EndInv
    <3>2. report[s] \in Seq({"response", "cancelled"}) /\ Len(report[s]) = 0
      <4>1. report[s] \in Seq({"response", "cancelled"})
        BY <1>0
      <4>2. Len(report[s]) <= 0 /\ Len(report[s]) \in Nat
        BY <1>12, <3>1, <4>1 DEF Stage
      <4> QED
        BY <4>1, <4>2
    <3>3. report'[s] \in {Append(report[s], "cancelled"), Append(report[s], "response"), report[s]}
      BY <1>0, <1>12
    <3>4. Len(Append(report[s], "cancelled")) = 1 /\ Len(Append(report[s], "response")) = 1
      BY <3>2
    <3> QED
      BY <3>2, <3>3, <3>4
  <2>3. Stage(s)' /\ Work(s)'
    <3>1. Stage(s) /\ Work(s) /\ begun[s] \in Nat
      BY <1>0 DEF EndInv
    <3>2. Closing(s)' <=> Closing(s)
      BY <1>2 DEF Closing
    <3>3. Stage(s)'
      BY <1>2, <1>7, <1>12, <2>1, <2>2, <3>1, <3>2 DEF Stage, Open
    <3>4. Work(s)'
      BY <1>2, <1>6, <3>1 DEF Work
    <3> QED
      BY <3>3, <3>4
  <2>4. \A t \in Sessions : Stage(t)' /\ Work(t)' /\ Fed(t)'
    BY <1>8, <1>9, <2>1, <2>3
  <2>5. ASSUME NEW b \in ToSet(awaiting') PROVE Entry(b)'
    <3>1. b \in ToSet(aw) /\ Entry(b) /\ b.session \in Sessions
      BY <1>4, <1>5
    <3>2. CASE b.session = s
      BY <1>2, <1>12, <3>1, <3>2 DEF Entry
    <3>3. CASE b.session # s
      BY <1>1, <1>2, <2>1, <3>1, <3>3 DEF Entry
    <3> QED
      BY <3>2, <3>3
  <2> QED
    BY <1>10, <2>4, <2>5 DEF EndInv
<1> QED
  BY <1>5, <1>11, <1>12

-----------------------------------------------------------------------------
(* Theorems *)

LEMMA InitEnd == Init => EndInv
<1> SUFFICES ASSUME Init PROVE EndInv
  OBVIOUS
<1> USE DEF Init
<1>1. closing = {} /\ active = {}
  OBVIOUS
<1>2. ToSet(finished) = {} /\ ToSet(awaiting) = {} /\ ToSet(checks) = {}
  BY DEF ToSet
<1>3. \A node \in Inner : inputs[node] = <<>> /\ ToSet(inputs[node]) = {}
  BY DEF ToSet
<1>4. IsInjective(finished) /\ IsInjective(awaiting) /\ IsInjective(checks)
  BY DEF IsInjective
<1>5. IsInjective(inputs["fork"]) /\ IsInjective(inputs["async"])
  BY <1>3 DEF IsInjective, Inner
<1>6. \A s \in Sessions : /\ status[s] = "unborn" /\ tasks[s] = "none" /\ arriving[s] = NoItem
                          /\ begun[s] = 0 /\ finals[s] = 0 /\ report[s] = <<>>
  OBVIOUS
<1> HIDE DEF Init
<1>7. OneEach
  BY <1>1, <1>2, <1>4, <1>5 DEF OneEach, Distinct
<1>8. ASSUME NEW s \in Sessions PROVE Stage(s) /\ Work(s) /\ Fed(s)
  <2>1. ~Closing(s) /\ ~Has(finished, s) /\ ~Has(awaiting, s) /\ ~Enters(s)
    BY <1>1, <1>2, <1>3 DEF Closing, Has, Enters
  <2>2. Stage(s)
    BY <1>2, <1>6, <2>1 DEF Stage
  <2>3. Work(s)
    <3>1. NoItem.id = None /\ s \notin active
      BY <1>1 DEF NoItem
    <3> QED
      BY <1>6, <2>1, <3>1 DEF Work
  <2>4. Fed(s)
    BY <1>3, <1>6 DEF Fed, Inner
  <2> QED
    BY <2>2, <2>3, <2>4
<1> QED
  BY <1>2, <1>7, <1>8 DEF EndInv

LEMMA StepEnd ==
    ASSUME EarlyCleanup # "any time", Typed, EndInv, [Next]_vars
    PROVE  EndInv'
<1>1. CASE FlushStep
  <2>1. {s \in Sessions : arriving[s] # NoItem} \in SUBSET Sessions
    OBVIOUS
  <2> QED
    BY <1>1, <2>1, CleanSessionEnd, TriggerCleanupEnd, HandleCancelEnd, QuietSteps, ExecScopeEnd,
       ExecAsyncEnd, ExecTerminalEnd, ExecFinishEnd, ExecForkEnd, ExecFilterEnd, CollectTaskEnd,
       ValidateEnd DEF FlushStep
<1>2. CASE ~FlushStep
  BY <1>2, QuietSteps, TaskStepsEnd, OuterCleanupEnd DEF Next
<1> QED
  BY <1>1, <1>2

LEMMA EndIsOne == Typed /\ EndInv => OneEnd
<1> SUFFICES ASSUME Typed, EndInv, NEW s \in Sessions
             PROVE  begun[s] <= 1 /\ finals[s] <= 1 /\ Len(report[s]) <= 1
  BY DEF OneEnd
<1>1. Stage(s)
  BY DEF EndInv
<1>2. begun[s] <= 1 /\ finals[s] <= 1 /\ Len(report[s]) <= finals[s]
  BY <1>1 DEF Stage
<1>3. report \in [Sessions -> Seq({"response", "cancelled"})] /\ finals \in [Sessions -> Nat]
  BY DEF Typed, TypeOK
<1>4. report[s] \in Seq({"response", "cancelled"}) /\ finals[s] \in Nat
  BY <1>3
<1>5. Len(report[s]) \in Nat
  BY <1>4
<1> QED
  BY <1>2, <1>4, <1>5

LEMMA EndIsClean == EndInv => CleanBeforeCleanupWorkflows
<1> SUFFICES ASSUME EndInv, NEW s \in Sessions, begun[s] > 0
             PROVE  /\ \A node \in Inner : s \notin ToSet(inputs[node])
                    /\ tasks[s] = "none" /\ arriving[s] = NoItem
  BY DEF CleanBeforeCleanupWorkflows
<1>1. Work(s)
  BY DEF EndInv
<1> QED
  BY <1>1 DEF Work, Enters

\* At any time each session is in one stage of its end (open, closing, awaiting, finished,
\* begun, finalized), with only the work that this stage allows and one item in the queues
\* it passes through; if the outer workflow cleans up a parent only while its session is open.
THEOREM StagesInOrder ==
    ASSUME EarlyCleanup # "any time"
    PROVE  Spec => [](Typed /\ EndInv)
<1>1. Init => Typed /\ EndInv
  BY InitTyped, InitOwned, InitEnd DEF Typed
<1>2. (Typed /\ EndInv) /\ [Next]_vars => (Typed /\ EndInv)'
  BY StepTyped, StepEnd
<1> QED
  BY <1>1, <1>2, PTL DEF Spec

\* The cleanup workflows of a session begin only when its nodes are clean: no inner node
\* has an input of it any more, no task of it is alive, and none still has to report
\* (CleanupContents, ActiveTasksStorage::cleanup).
THEOREM CleanupWorkflowsWait ==
    ASSUME EarlyCleanup # "any time"
    PROVE  Spec => []CleanBeforeCleanupWorkflows
<1> QED
  BY EndIsClean, StagesInOrder, PTL

\* However its ends race, a session has one end: its cleanup workflows begin once, it is
\* finalized once, and the outer workflow gets at most one of a response and a cancellation
\* from it (FinishCleanup::execute, finalize_scoped_session).
THEOREM SessionsEndOnce ==
    ASSUME EarlyCleanup # "any time"
    PROVE  Spec => []OneEnd
<1> QED
  BY EndIsOne, StagesInOrder, PTL

-----------------------------------------------------------------------------
(* What is left of a session *)

\* The scope cannot be interrupted: the sessions of p go on, and p is told at once.
Deferring(p) ==
    /\ Uninterruptible /\ clean' = clean \cup {p} /\ UNCHANGED closing
    /\ \A s \in Sessions : status'[s] = IF owner[s] = p THEN "DeferredCleanup" ELSE status[s]

\* Otherwise they are closed, and nobody is told yet.
ClosesFor(p) ==
    /\ ~Uninterruptible /\ UNCHANGED clean
    /\ \E S \in SUBSET Sessions :
          /\ \A s \in Sessions : s \in S <=> owner[s] = p
          /\ Close(S, "Cleanup", [s \in Sessions |-> p], "EarlyCleanup")

LEMMA OuterCleanupIs ==
    ASSUME EarlyCleanup # "any time", NEW p \in Parents, OuterCleanup(p)
    PROVE  /\ EarlyCleanup = "while open" /\ closing = {} /\ parent[p] = "active"
           /\ UNCHANGED <<owner, awaiting, finals, report>>
           /\ parent' = [parent EXCEPT ![p] = "cleaning"]
           /\ inputs' = [inputs EXCEPT !["scope"] = Without(@, {p})]
           /\ \A s \in Sessions : owner[s] = p => status[s] = "Ongoing"
           /\ Deferring(p) \/ ClosesFor(p)
<1> DEFINE S == {s \in Sessions : HasPair(s) /\ owner[s] = p /\ status[s] # "Cleanup"}
<1>1. /\ EarlyCleanup = "while open"
      /\ \E s \in Sessions : owner[s] = p
      /\ \A s \in Sessions : owner[s] = p => status[s] = "Ongoing"
  BY ScopeAssumption DEF OuterCleanup
<1>2. S # {} /\ \A s \in Sessions : s \in S <=> owner[s] = p
  BY <1>1 DEF HasPair
<1>3. /\ Uninterruptible => /\ status' = [s \in Sessions |-> IF s \in S THEN "DeferredCleanup"
                                                                      ELSE status[s]]
                            /\ clean' = clean \cup {p} /\ UNCHANGED closing
      /\ ~Uninterruptible => /\ Close(S, "Cleanup", [s \in Sessions |-> p], "EarlyCleanup")
                             /\ clean' = IF AlreadyClean(S) THEN clean \cup {p} ELSE clean
  BY DEF OuterCleanup
<1>4. S \in SUBSET Sessions
  OBVIOUS
<1> HIDE DEF S
<1>5. ASSUME Uninterruptible PROVE Deferring(p)
  BY <1>2, <1>3, <1>5 DEF Deferring
<1>6. ASSUME ~Uninterruptible PROVE ClosesFor(p)
  <2>1. Close(S, "Cleanup", [s \in Sessions |-> p], "EarlyCleanup") /\ UNCHANGED clean
    BY <1>2, <1>3, <1>6 DEF AlreadyClean
  <2> QED
    BY <1>2, <1>4, <1>6, <2>1 DEF ClosesFor
<1> QED
  BY <1>1, <1>5, <1>6 DEF OuterCleanup, QueueRuns, Running, cleanVars

\* Who began its cleanup workflows has dropped its pair.
Dropped == \A s \in Sessions : begun[s] > 0 => status[s] = "dropped"

\* A session is cleaned up for itself or for its parent.
OwnIds ==
    /\ \A c \in closing : /\ c.id \in {c.session, owner[c.session]}
                          /\ c.why = "EarlyCleanup" => c.id = owner[c.session]
    /\ \A a \in ToSet(awaiting) : /\ a.id \in {a.session, owner[a.session]}
                                  /\ a.why = "EarlyCleanup" => a.id = owner[a.session]
    /\ \A s \in Sessions : arriving[s].id \in {None, s, owner[s]}

\* While nodes are to be cleaned under the id of a session, it waits for nothing else.
Held(s) ==
    contents[s] # {} => /\ ~Open(s) /\ ~Closing(s) /\ ~Has(finished, s) /\ begun[s] = 0
                        /\ arriving[s].id \in {None, s}

\* Who was terminated has the cleanup workflows to wait for, if there are any, when it is
\* checked, and an entry waits for those of its own session.
Waits(a) ==
    /\ a.why = "Terminated" /\ a.session \in ToSet(checks) /\ OnTerminate # {} => a.left # {}
    /\ a.left # None => \A r \in a.left : r.session = a.session

CleanInv ==
    /\ Dropped /\ OwnIds
    /\ \A s \in Sessions : Held(s)
    /\ \A a \in ToSet(awaiting) : Waits(a)
    /\ \A r \in runs \cup ToSet(dones) :
          begun[r.session] > 0 /\ r.workflow \in OnTerminate \cup OnCancelled

\* The entries are typed.
LEMMA EntriesTyped ==
    ASSUME Typed
    PROVE  /\ awaiting \in Seq(Entries) /\ \A a \in ToSet(awaiting) : a \in Entries /\ a.session \in Sessions
           /\ \A c \in closing : c.session \in Sessions /\ c.id \in CleanupIds
           /\ \A r \in runs \cup ToSet(dones) : r.session \in Sessions
<1>1. /\ awaiting \in Seq(Entries) /\ dones \in Seq(Runs) /\ runs \subseteq Runs
      /\ closing \subseteq [session : Sessions, id : CleanupIds, why : Why]
  BY DEF Typed, TypeOK, CleanTypeOK, Entries
<1>2. \A a \in ToSet(awaiting) : a \in Entries
  BY <1>1 DEF ToSet
<1>3. \A a \in Entries : a.session \in Sessions
  BY DEF Entries
<1>4. \A r \in ToSet(dones) : r \in Runs
  BY <1>1 DEF ToSet
<1>5. \A r \in Runs : r.session \in Sessions
  BY DEF Runs
<1> QED
  BY <1>1, <1>2, <1>3, <1>4, <1>5

\* Steps of nodes and of the flush that neither end a session nor clean up after one.
Still == UNCHANGED <<status, owner, closing, awaiting, arriving, contents, finished, begun,
                     checks, runs, dones>>

LEMMA StillKept == CleanInv /\ Still => CleanInv'
<1> SUFFICES ASSUME CleanInv, Still PROVE CleanInv'
  OBVIOUS
<1>1. Dropped' /\ OwnIds'
  BY DEF CleanInv, Still, Dropped, OwnIds
<1>2. \A s \in Sessions : Held(s)'
  BY DEF CleanInv, Still, Held, Open, Closing
<1>3. \A a \in ToSet(awaiting') : Waits(a)'
  BY DEF CleanInv, Still, Waits
<1> QED
  BY <1>1, <1>2, <1>3 DEF CleanInv, Still

LEMMA StillSteps ==
    ASSUME CleanInv,
           \/ PopNothing \/ ExecAsync \/ CollectDeferred \/ OtherOperation
           \/ \E toFilter, toAsync \in BOOLEAN, n \in 0..MaxOutputs : ExecFork(toFilter, toAsync, n)
           \/ \E pass \in BOOLEAN : ExecFilter(pass)
           \/ \E T \in SUBSET Sessions : Collect(T)
           \/ \E s \in Sessions : TaskDone(s)
           \/ \E p \in Parents : OuterInput(p) \/ OuterStop(p)
           \/ UNCHANGED vars
    PROVE  CleanInv'
<1>1. Still
  BY DEF Still, PopNothing, ExecAsync, CollectDeferred, OtherOperation, ExecFork, ExecFilter,
     Collect, TaskDone, OuterInput, OuterStop, vars, sessionVars, cleanVars, taskVars, finishVars,
     historyVars, rosterVars
<1> QED
  BY <1>1, StillKept

\* Open sessions are closed, for themselves or for their parent.
Closes ==
    /\ UNCHANGED <<owner, awaiting, arriving, contents, finished, begun, checks, runs, dones>>
    /\ \/ UNCHANGED <<status, closing>>
       \/ \E S \in SUBSET Sessions : \E st, why, id :
             /\ Close(S, st, id, why) /\ closing = {} /\ st \notin {"unborn", "dropped"}
             /\ \A s \in S : /\ status[s] \in {"Ongoing", "DeferredCleanup"}
                             /\ id[s] \in {s, owner[s]}
                             /\ why = "EarlyCleanup" => id[s] = owner[s]

CloseOf(S, st, id, why) ==
    /\ Close(S, st, id, why) /\ closing = {} /\ st \notin {"unborn", "dropped"}
    /\ \A s \in S : /\ status[s] \in {"Ongoing", "DeferredCleanup"}
                    /\ id[s] \in {s, owner[s]}
                    /\ why = "EarlyCleanup" => id[s] = owner[s]

LEMMA CloseCloses ==
    ASSUME NEW S \in SUBSET Sessions, NEW st, NEW why, NEW id, CloseOf(S, st, id, why),
           UNCHANGED <<owner, awaiting, arriving, contents, finished, begun, checks, runs, dones>>
    PROVE  Closes
BY DEF Closes, CloseOf

LEMMA ClosersClose ==
    ASSUME Typed,
           HandleCancel \/ Validate \/ ExecTerminal \/ \E p \in Parents : OuterCleanup(p) /\ ClosesFor(p),
           EarlyCleanup # "any time"
    PROVE  Closes
<1>1. CASE HandleCancel
  <2> DEFINE x == Head(cancels)
             S == {s \in Sessions : CanCancel(s) /\ x \in {s, owner[s], All}}
             id == [s \in Sessions |-> CancelId(x, s)]
  <2>1. /\ Close(S, "Cancelled", id, "Cancelled") /\ closing = {}
        /\ UNCHANGED <<owner, awaiting, arriving, contents, finished, begun, checks, runs, dones>>
    BY <1>1 DEF HandleCancel, cleanVars, finishVars, historyVars, taskVars
  <2>2. \A s \in S : status[s] \in {"Ongoing", "DeferredCleanup"} /\ id[s] \in {s, owner[s]}
    BY DEF CanCancel, CancelId
  <2>3. S \in SUBSET Sessions
    OBVIOUS
  <2> HIDE DEF S, id
  <2> QED
    <3>1. CloseOf(S, "Cancelled", id, "Cancelled")
      BY <2>1, <2>2 DEF CloseOf
    <3> QED
      BY <2>1, <2>3, <3>1, CloseCloses
<1>2. CASE Validate
  <2> DEFINE s == Last(disposed)
             S == {t \in {s} : ~Reachable(t) /\ CanCancel(t)}
             id == [t \in Sessions |-> t]
  <2>1. /\ Close(S, "Cancelled", id, "Cancelled") /\ closing = {} /\ disposed # <<>>
        /\ UNCHANGED <<owner, awaiting, arriving, contents, finished, begun, checks, runs, dones>>
    BY <1>2 DEF Validate, cleanVars, finishVars, taskVars
  <2>2. s \in Sessions
    BY <2>1, LastFront DEF Typed, TypeOK, RosterTypeOK
  <2>3. S \in SUBSET Sessions
    BY <2>2
  <2>4. \A t \in S : status[t] \in {"Ongoing", "DeferredCleanup"} /\ id[t] \in {t, owner[t]}
    BY <2>2 DEF CanCancel
  <2> HIDE DEF S, id
  <2> QED
    <3>1. CloseOf(S, "Cancelled", id, "Cancelled")
      BY <2>1, <2>4 DEF CloseOf
    <3> QED
      BY <2>1, <2>3, <3>1, CloseCloses
<1>3. CASE ExecTerminal
  <2> DEFINE s == Head(inputs["terminal"])
             S == {s}
             id == [t \in Sessions |-> t]
  <2>1. /\ inputs["terminal"] # <<>> /\ closing = {}
        /\ UNCHANGED <<owner, awaiting, arriving, contents, finished, begun, checks, runs, dones>>
    BY <1>3 DEF ExecTerminal, Pop, QueueRuns, Running, cleanVars, finishVars, taskVars, historyVars
  <2>2. \/ status[s] = "Ongoing" /\ Close(S, "Terminated", id, "Terminated")
        \/ status[s] = "DeferredCleanup" /\ Close(S, "Cleanup", id, "Terminated")
        \/ UNCHANGED <<status, closing>>
    BY <1>3 DEF ExecTerminal
  <2>3. s \in Sessions
    BY <2>1, InputsTail, InputsType DEF Typed, TypeOK
  <2>4. S \in SUBSET Sessions /\ \A t \in S : t = s /\ id[t] \in {t, owner[t]}
    BY <2>3
  <2> HIDE DEF S, id, s
  <2>5. CASE UNCHANGED <<status, closing>>
    BY <2>1, <2>5 DEF Closes
  <2>6. \A t \in S : status[t] = status[s]
    BY <2>4
  <2>7. CASE status[s] = "Ongoing" /\ Close(S, "Terminated", id, "Terminated")
    <3>1. CloseOf(S, "Terminated", id, "Terminated")
      BY <2>1, <2>4, <2>6, <2>7 DEF CloseOf
    <3> QED
      BY <2>1, <2>4, <3>1, CloseCloses
  <2>8. CASE status[s] = "DeferredCleanup" /\ Close(S, "Cleanup", id, "Terminated")
    <3>1. CloseOf(S, "Cleanup", id, "Terminated")
      BY <2>1, <2>4, <2>6, <2>8 DEF CloseOf
    <3> QED
      BY <2>1, <2>4, <3>1, CloseCloses
  <2> QED
    BY <2>2, <2>5, <2>7, <2>8
<1>4. ASSUME NEW p \in Parents, OuterCleanup(p), ClosesFor(p) PROVE Closes
  <2> DEFINE id == [s \in Sessions |-> p]
  <2>1. PICK S \in SUBSET Sessions :
          /\ \A s \in S : owner[s] = p /\ status[s] = "Ongoing"
          /\ Close(S, "Cleanup", id, "EarlyCleanup")
    <3>1. \A s \in Sessions : owner[s] = p => status[s] = "Ongoing"
      BY <1>4, OuterCleanupIs
    <3> QED
      BY <1>4, <3>1 DEF ClosesFor
  <2>2. \A s \in S : id[s] = owner[s]
    BY <2>1
  <2>3. /\ closing = {}
        /\ UNCHANGED <<owner, awaiting, arriving, contents, finished, begun, checks, runs, dones>>
    BY <1>4 DEF OuterCleanup, QueueRuns, Running, cleanVars, finishVars, taskVars, rosterVars
  <2> HIDE DEF id
  <2> QED
    <3>1. CloseOf(S, "Cleanup", id, "EarlyCleanup")
      BY <2>1, <2>2, <2>3 DEF CloseOf
    <3> QED
      BY <2>3, <3>1, CloseCloses
<1> QED
  BY <1>1, <1>2, <1>3, <1>4

LEMMA ClosesClean == CleanInv /\ Closes => CleanInv'
<1> SUFFICES ASSUME CleanInv, Closes PROVE CleanInv'
  OBVIOUS
<1>1. CASE UNCHANGED <<status, closing>>
  BY <1>1, StillKept DEF Closes, Still
<1>2. ASSUME NEW S \in SUBSET Sessions, NEW st, NEW why, NEW id, Close(S, st, id, why),
             \A s \in S : /\ status[s] \in {"Ongoing", "DeferredCleanup"}
                          /\ id[s] \in {s, owner[s]}
                          /\ why = "EarlyCleanup" => id[s] = owner[s],
             st \notin {"unborn", "dropped"}, closing = {}
      PROVE  CleanInv'
  <2>1. UNCHANGED <<owner, awaiting, arriving, contents, finished, begun, checks, runs, dones>>
    BY DEF Closes
  <2>2. \A s \in Sessions : status'[s] = IF s \in S THEN st ELSE status[s]
    BY <1>2 DEF Close
  <2>3. \A c \in closing' : /\ c.session \in S /\ c.id = id[c.session] /\ c.why = why
    BY <1>2 DEF Close
  <2>4. Dropped'
    BY <1>2, <2>1, <2>2 DEF CleanInv, Dropped
  <2>5. OwnIds'
    BY <1>2, <2>1, <2>3 DEF CleanInv, OwnIds
  <2>6. ASSUME NEW s \in Sessions PROVE Held(s)'
    <3>1. Held(s)
      BY DEF CleanInv
    <3>2. CASE s \in S
      BY <1>2, <2>1, <3>1, <3>2 DEF Held, Open
    <3>3. CASE s \notin S
      BY <2>1, <2>2, <2>3, <3>1, <3>3 DEF Held, Open, Closing
    <3> QED
      BY <3>2, <3>3
  <2>7. \A a \in ToSet(awaiting') : Waits(a)'
    BY <2>1 DEF CleanInv, Waits
  <2> QED
    BY <2>1, <2>4, <2>5, <2>6, <2>7 DEF CleanInv
<1> QED
  BY <1>1, <1>2 DEF Closes

LEMMA DeferringClean ==
    ASSUME EarlyCleanup # "any time", CleanInv, NEW p \in Parents, OuterCleanup(p), Deferring(p)
    PROVE  CleanInv'
<1>1. /\ UNCHANGED <<owner, closing, awaiting, arriving, contents, finished, begun, checks, runs, dones>>
      /\ \A s \in Sessions : \/ status'[s] = status[s]
                             \/ status[s] = "Ongoing" /\ status'[s] = "DeferredCleanup"
  BY OuterCleanupIs DEF Deferring, OuterCleanup, cleanVars, finishVars, taskVars, rosterVars
<1>2. Dropped' /\ OwnIds'
  BY <1>1 DEF CleanInv, Dropped, OwnIds
<1>3. ASSUME NEW s \in Sessions PROVE Held(s)'
  <2>1. Held(s)
    BY DEF CleanInv
  <2> QED
    BY <1>1, <2>1 DEF Held, Open, Closing
<1>4. \A a \in ToSet(awaiting') : Waits(a)'
  BY <1>1 DEF CleanInv, Waits
<1> QED
  BY <1>1, <1>2, <1>3, <1>4 DEF CleanInv

LEMMA ExecScopeClean ==
    ASSUME Typed, EndInv, CleanInv, ExecScope
    PROVE  CleanInv'
<1>0. /\ UNCHANGED <<closing, awaiting, arriving, contents, finished, begun, checks, runs, dones>>
      /\ status \in [Sessions -> Status] /\ owner \in [Sessions -> Parents \cup {None}]
  BY DEF ExecScope, cleanVars, taskVars, finishVars, historyVars, Typed, TypeOK, SessionTypeOK
<1>1. CASE inputs["scope"] = <<>>
  BY <1>0, <1>1, StillKept DEF ExecScope, Still
<1>2. CASE inputs["scope"] # <<>>
  <2>1. PICK s \in Sessions :
            /\ status[s] = "unborn" /\ status' = [status EXCEPT ![s] = "Ongoing"]
            /\ owner' = [owner EXCEPT ![s] = Head(inputs["scope"])]
    BY <1>2 DEF ExecScope
  <2>2. /\ \A t \in Sessions \ {s} : owner'[t] = owner[t] /\ status'[t] = status[t]
        /\ status'[s] = "Ongoing"
    BY <1>0, <2>1
  <2>3. /\ ~Closing(s) /\ ~Has(awaiting, s) /\ arriving[s].id = None
    BY <2>1 DEF EndInv, Stage, Work, Open
  <2>4. Dropped'
    BY <1>0, <2>1, <2>2 DEF CleanInv, Dropped
  <2>5. OwnIds'
    <3>1. ASSUME NEW c \in closing PROVE c.session \in Sessions \ {s}
      BY <2>3, EntriesTyped DEF Closing
    <3>2. ASSUME NEW a \in ToSet(awaiting) PROVE a.session \in Sessions \ {s}
      BY <2>3, EntriesTyped DEF Has
    <3> QED
      BY <1>0, <2>2, <2>3, <3>1, <3>2 DEF CleanInv, OwnIds
  <2>6. ASSUME NEW t \in Sessions PROVE Held(t)'
    <3>1. Held(t)
      BY DEF CleanInv
    <3>2. CASE t = s
      BY <1>0, <2>1, <3>1, <3>2 DEF Held, Open
    <3>3. CASE t # s
      BY <1>0, <2>2, <3>1, <3>3 DEF Held, Open, Closing
    <3> QED
      BY <3>2, <3>3
  <2>7. \A a \in ToSet(awaiting') : Waits(a)'
    BY <1>0 DEF CleanInv, Waits
  <2> QED
    BY <1>0, <2>4, <2>5, <2>6, <2>7 DEF CleanInv
<1> QED
  BY <1>1, <1>2

LEMMA CleanSessionClean ==
    ASSUME Typed, EndInv, CleanInv, CleanSession
    PROVE  CleanInv'
<1>0. /\ awaiting \in Seq(Entries) /\ contents \in [CleanupIds -> SUBSET Inner]
      /\ finished \in Seq(Cleans) /\ arriving \in [Sessions -> [id : Ids, dispose : BOOLEAN]]
  BY DEF Typed, TypeOK, CleanTypeOK, TaskTypeOK, RosterTypeOK, Entries, Cleans
<1>1. PICK c \in closing :
        /\ closing' = closing \ {c}
        /\ awaiting' = Append(awaiting, [session |-> c.session, id |-> c.id, why |-> c.why, left |-> None])
        /\ Register(IF AsyncIsClean(c.session, c.id) THEN {} ELSE {"async"}, c.session, c.id)
        /\ arriving' = [arriving EXCEPT ![c.session] = IF tasks[c.session] = "running"
                                               THEN [id |-> c.id, dispose |-> FALSE] ELSE @]
        /\ UNCHANGED <<status, owner, begun, checks, runs, dones>>
  BY DEF CleanSession, finishVars, historyVars
<1>2. PICK s \in Sessions : s = c.session
  BY <1>1, EntriesTyped
<1>3. PICK id \in CleanupIds : id = c.id
  BY <1>1, EntriesTyped
<1>4. /\ id \in {s, owner[s]} /\ (c.why = "EarlyCleanup" => id = owner[s])
      /\ owner[s] \in Parents
  BY <1>1, <1>2, <1>3 DEF CleanInv, OwnIds, Typed, Owned
<1>5. id \in Sessions => id = s
  BY <1>4, IdsDiffer
<1>6. Stage(s) /\ Work(s) /\ Closing(s) /\ Held(s)
  BY <1>1, <1>2 DEF EndInv, Closing, CleanInv
<1>7. /\ ~Open(s) /\ tasks[s] # "cleaning" /\ ~Has(finished, s) /\ begun[s] = 0
      /\ s \notin ToSet(checks) /\ contents[s] = {} /\ arriving[s].id = None
  BY <1>6 DEF Stage, Work, Held
<1>8. ~Closing(s)' /\ \A t : Closing(t)' => Closing(t)
  BY <1>1, <1>2 DEF EndInv, OneEach, Closing
<1> DEFINE a == [session |-> c.session, id |-> c.id, why |-> c.why, left |-> None]
           left == IF AsyncIsClean(s, id) THEN {} ELSE {"async"}
<1>9. a \in Entries /\ a.session = s /\ a.id = id /\ a.why = c.why /\ a.left = None
  BY <1>1, <1>2, <1>3 DEF Typed, TypeOK, CleanTypeOK, Entries
<1>10. ToSet(awaiting') = ToSet(awaiting) \cup {a}
  <2>1. awaiting' = Append(awaiting, a)
    BY <1>1
  <2> HIDE DEF a
  <2> QED
    BY <1>0, <1>9, <2>1, AppendSet
<1>11. Register(left, s, id)
  BY <1>1, <1>2, <1>3
<1> HIDE DEF a, left
<1>12. /\ contents'[id] = left /\ \A x \in CleanupIds \ {id} : contents'[x] = contents[x]
  BY <1>0, <1>11 DEF Register
<1>13. /\ \A t \in Sessions \ {s} : Has(finished', t) <=> Has(finished, t)
       /\ left # {} => finished' = finished
  <2>1. Distinct(finished) /\ ~Has(finished, s)
    BY <1>7 DEF EndInv, OneEach
  <2>2. \A t : Has(finished', t) <=> Has(finished, t) \/ (t = s /\ left = {})
    BY <1>0, <1>11, <2>1, RegisterEnd
  <2> QED
    BY <1>11, <2>2 DEF Register
<1>14. /\ arriving'[s].id \in {None, id}
       /\ \A t \in Sessions \ {s} : arriving'[t] = arriving[t]
  BY <1>0, <1>1, <1>2, <1>3, <1>7
<1>15. Dropped'
  BY <1>1 DEF CleanInv, Dropped
<1>16. OwnIds'
  <2>1. \A t \in Sessions : arriving'[t].id \in {None, t, owner'[t]}
    BY <1>1, <1>4, <1>14 DEF CleanInv, OwnIds
  <2>2. \A b \in ToSet(awaiting') : /\ b.id \in {b.session, owner'[b.session]}
                                    /\ b.why = "EarlyCleanup" => b.id = owner'[b.session]
    BY <1>1, <1>4, <1>9, <1>10 DEF CleanInv, OwnIds
  <2> QED
    BY <1>1, <2>1, <2>2 DEF CleanInv, OwnIds
<1>17. ASSUME NEW t \in Sessions PROVE Held(t)'
  <2>0. t \in CleanupIds
    BY IdsDiffer
  <2>1. CASE t = s
    <3>1. CASE id = s
      BY <1>1, <1>7, <1>8, <1>12, <1>13, <1>14, <2>1, <3>1 DEF Held, Open
    <3>2. CASE id # s
      BY <1>7, <1>12, <2>0, <2>1, <3>2 DEF Held
    <3> QED
      BY <3>1, <3>2
  <2>2. CASE t # s
    <3>1. contents'[t] = contents[t] /\ Held(t)
      BY <1>5, <1>12, <2>0, <2>2 DEF CleanInv
    <3> QED
      BY <1>1, <1>8, <1>13, <1>14, <2>2, <3>1 DEF Held, Open
  <2> QED
    BY <2>1, <2>2
<1>18. ASSUME NEW b \in ToSet(awaiting') PROVE Waits(b)'
  <2>1. CASE b = a
    BY <1>1, <1>7, <1>9, <2>1 DEF Waits
  <2>2. CASE b \in ToSet(awaiting)
    BY <1>1, <2>2 DEF Waits, CleanInv
  <2> QED
    BY <1>10, <2>1, <2>2
<1> QED
  BY <1>1, <1>15, <1>16, <1>17, <1>18 DEF CleanInv

LEMMA CollectTaskClean ==
    ASSUME NEW s \in Sessions, Typed, EndInv, CleanInv, CollectTask(s)
    PROVE  CleanInv'
<1>0. /\ contents \in [CleanupIds -> SUBSET Inner] /\ finished \in Seq(Cleans)
      /\ arriving \in [Sessions -> [id : Ids, dispose : BOOLEAN]]
  BY DEF Typed, TypeOK, CleanTypeOK, TaskTypeOK, RosterTypeOK, Cleans
<1> DEFINE id == arriving[s].id
           ready == id # None /\ NoOtherTask(s, id) /\ contents[id] # {}
           left == contents[id] \ {"async"}
<1>1. /\ arriving' = [arriving EXCEPT ![s] = NoItem]
      /\ UNCHANGED <<status, owner, closing, awaiting, checks, runs, dones, begun>>
  BY DEF CollectTask, sessionVars, finishVars, historyVars
<1>2. IF ready THEN Register(left, s, id) ELSE UNCHANGED <<contents, finished>>
  BY DEF CollectTask
<1>3. Stage(s) /\ Work(s) /\ Held(s) /\ id \in {None, s, owner[s]}
  BY DEF EndInv, CleanInv, OwnIds
<1>4. ready => /\ id \in CleanupIds /\ tasks[s] = "cleaning"
               /\ ~Has(finished, s) /\ begun[s] = 0 /\ ~Open(s) /\ ~Closing(s)
  BY <1>0, <1>3 DEF Ids, Work, Stage
<1>5. /\ arriving'[s].id = None
      /\ \A t \in Sessions \ {s} : arriving'[t] = arriving[t]
  BY <1>0, <1>1 DEF NoItem
<1>6. ready => id = s \/ id \notin Sessions
  <2>1. status[s] # "unborn" => owner[s] \in Parents
    BY DEF Typed, Owned
  <2>2. ready => id = s \/ id \in Parents
    BY <1>3, <1>4, <2>1 DEF Open
  <2> QED
    BY <2>2, IdsDiffer
<1>7. ASSUME NEW t \in Sessions PROVE Held(t)'
  <2>0. t \in CleanupIds /\ Held(t)
    BY IdsDiffer DEF CleanInv
  <2>1. CASE ~ready
    BY <1>1, <1>2, <1>5, <2>0, <2>1 DEF Held, Open, Closing
  <2>2. CASE ready
    <3>1. /\ contents'[id] = left /\ \A x \in CleanupIds \ {id} : contents'[x] = contents[x]
      BY <1>0, <1>2, <1>4, <2>2 DEF Register
    <3>2. \A x : Has(finished', x) <=> Has(finished, x) \/ (x = s /\ left = {})
      <4>1. Register(left, s, id) /\ id \in CleanupIds /\ ~Has(finished, s) /\ Distinct(finished)
        BY <1>2, <1>4, <2>2 DEF EndInv, OneEach
      <4> HIDE DEF left, id, ready
      <4> QED
        BY <1>0, <4>1, RegisterEnd
    <3>3. CASE t # s
      BY <1>1, <1>5, <1>6, <2>0, <2>2, <3>1, <3>2, <3>3 DEF Held, Open, Closing
    <3>4. CASE t = s /\ id = s
      <4>1. contents'[s] = left /\ left \subseteq contents[s]
        BY <3>1, <3>4
      <4> HIDE DEF left, id, ready
      <4> QED
        BY <1>1, <1>5, <2>0, <3>2, <3>4, <4>1 DEF Held, Open, Closing
    <3>5. CASE t = s /\ id # s
      <4>1. contents[s] = {} /\ contents'[s] = contents[s]
        BY <1>3, <2>0, <2>2, <3>1, <3>5 DEF Held
      <4> QED
        BY <3>5, <4>1 DEF Held
    <3> QED
      BY <3>3, <3>4, <3>5
  <2> QED
    BY <2>1, <2>2
<1> HIDE DEF id, ready, left
<1>8. Dropped' /\ OwnIds'
  <2>1. \A t \in Sessions : arriving'[t].id \in {None, t, owner'[t]}
    BY <1>1, <1>5 DEF CleanInv, OwnIds
  <2> QED
    BY <1>1, <2>1 DEF CleanInv, Dropped, OwnIds
<1>9. \A a \in ToSet(awaiting') : Waits(a)'
  BY <1>1 DEF CleanInv, Waits
<1> QED
  BY <1>1, <1>7, <1>8, <1>9 DEF CleanInv

LEMMA SupplantTaskClean ==
    ASSUME NEW s \in Sessions, Typed, CleanInv, SupplantTask(s)
    PROVE  CleanInv'
<1>1. /\ arriving' = [arriving EXCEPT ![s] = [id |-> None, dispose |-> TRUE]]
      /\ UNCHANGED <<status, owner, closing, awaiting, contents, finished, checks, runs, dones, begun>>
  BY DEF SupplantTask, sessionVars, cleanVars, finishVars, historyVars, rosterVars
<1>2. \A t \in Sessions : arriving'[t].id \in {None, arriving[t].id}
  <2>1. arriving \in [Sessions -> [id : Ids, dispose : BOOLEAN]]
    BY DEF Typed, TypeOK, TaskTypeOK
  <2> QED
    BY <1>1, <2>1
<1>3. Dropped' /\ OwnIds'
  <2>1. \A t \in Sessions : arriving'[t].id \in {None, t, owner'[t]}
    BY <1>1, <1>2 DEF CleanInv, OwnIds
  <2> QED
    BY <1>1, <2>1 DEF CleanInv, Dropped, OwnIds
<1>4. \A t \in Sessions : Held(t)'
  BY <1>1, <1>2 DEF CleanInv, Held, Open, Closing
<1>5. \A a \in ToSet(awaiting') : Waits(a)'
  BY <1>1 DEF CleanInv, Waits
<1> QED
  BY <1>1, <1>3, <1>4, <1>5 DEF CleanInv

LEMMA CleanupWorkflowClean ==
    ASSUME Typed, CleanInv, NEW r \in runs, CleanupWorkflowDone(r) \/ CleanupWorkflowCancelled(r)
    PROVE  CleanInv'
<1>1. /\ UNCHANGED <<status, owner, closing, awaiting, arriving, contents, finished, checks, begun>>
      /\ runs' = runs \ {r} /\ (dones' = Append(dones, r) \/ dones' = dones)
  BY DEF CleanupWorkflowDone, CleanupWorkflowCancelled, sessionVars, taskVars, cleanVars, historyVars, rosterVars
<1>2. ToSet(dones') \subseteq ToSet(dones) \cup {r}
  <2>1. dones \in Seq(Runs) /\ r \in Runs
    BY DEF Typed, TypeOK, CleanTypeOK
  <2>2. ToSet(Append(dones, r)) = ToSet(dones) \cup {r}
    BY <2>1, AppendSet
  <2> QED
    BY <1>1, <2>2
<1>3. Dropped' /\ OwnIds'
  BY <1>1 DEF CleanInv, Dropped, OwnIds
<1>4. \A t \in Sessions : Held(t)'
  BY <1>1 DEF CleanInv, Held, Open, Closing
<1>5. \A a \in ToSet(awaiting') : Waits(a)'
  BY <1>1 DEF CleanInv, Waits
<1> QED
  BY <1>1, <1>2, <1>3, <1>4, <1>5 DEF CleanInv

LEMMA TriggerCleanupClean ==
    ASSUME Typed, EndInv, CleanInv, TriggerCleanup
    PROVE  CleanInv'
<1>0. /\ finished \in Seq(Cleans) /\ finished # <<>> /\ awaiting \in Seq(Entries) /\ checks \in Seq(Sessions)
      /\ status \in [Sessions -> Status] /\ begun \in [Sessions -> Nat]
      /\ contents \in [CleanupIds -> SUBSET Inner]
  BY DEF Typed, TypeOK, SessionTypeOK, CleanTypeOK, RosterTypeOK, Cleans, Entries, TriggerCleanup
<1>1. Last(finished).session \in Sessions /\ Last(finished).id \in CleanupIds
  <2>1. Last(finished) \in Cleans
    BY <1>0, LastFront
  <2> QED
    BY <2>1 DEF Cleans
<1>2. PICK s \in Sessions : s = Last(finished).session
  BY <1>1
<1>3. PICK id \in CleanupIds : id = Last(finished).id
  BY <1>1
<1> DEFINE i == EntryOf(s)
           ws == IF awaiting[i].why = "Terminated" THEN OnTerminate ELSE OnCancelled
           begin == {[session |-> s, workflow |-> w, n |-> begun[s]] : w \in ws}
<1>4. /\ finished' = Front(finished)
      /\ contents' = [contents EXCEPT ![id] = {}]
      /\ status' = [status EXCEPT ![s] = IF HasPair(s) THEN "dropped" ELSE @]
      /\ UNCHANGED <<owner, arriving, closing, dones>>
  BY <1>2, <1>3 DEF TriggerCleanup, taskVars
<1>5. \/ UNCHANGED <<awaiting, checks, runs, begun>>
      \/ /\ i # 0 /\ checks' = Append(checks, s) /\ begun' = [begun EXCEPT ![s] = @ + 1]
         /\ runs' = runs \cup begin /\ awaiting' = [awaiting EXCEPT ![i].left = begin]
  BY <1>2 DEF TriggerCleanup
<1>6. i = 0 \/ (i \in DOMAIN awaiting /\ awaiting[i].session = s)
  BY <1>0, EntryFound
<1>7. /\ ws \subseteq CleanupWorkflows
      /\ awaiting[i].why = "Terminated" /\ OnTerminate # {} => begin # {}
      /\ \A r \in begin : r.session = s /\ r.workflow \in OnTerminate \cup OnCancelled
  <2>1. /\ ws \subseteq CleanupWorkflows /\ ws \subseteq OnTerminate \cup OnCancelled
        /\ awaiting[i].why = "Terminated" /\ OnTerminate # {} => ws # {}
    BY ScopeAssumption
  <2> HIDE DEF ws
  <2>2. ws # {} => begin # {}
    OBVIOUS
  <2>3. \A r \in begin : r.session = s /\ r.workflow \in ws
    OBVIOUS
  <2> QED
    BY <2>1, <2>2, <2>3
<1>8. begin \subseteq Runs
  <2>1. begun[s] \in Nat /\ s \in Sessions
    BY <1>0
  <2> HIDE DEF ws
  <2>2. \A w \in ws : [session |-> s, workflow |-> w, n |-> begun[s]] \in Runs
    BY <1>7, <2>1 DEF Runs
  <2> QED
    BY <2>2
<1> HIDE DEF i, ws, begin
<1>9. /\ Has(finished, s) /\ \A t : Has(finished', t) => Has(finished, t) /\ t # s
  <2>1. Distinct(finished)
    BY DEF EndInv, OneEach
  <2> QED
    BY <1>0, <1>2, <1>4, <2>1, HasFront
<1>10. Stage(s) /\ Work(s) /\ Held(s)
  BY DEF EndInv, CleanInv
<1>11. ~Open(s) /\ contents[s] = {} /\ begun[s] = 0 /\ s \notin ToSet(checks)
  BY <1>9, <1>10 DEF Stage, Held
<1>12. /\ status'[s] = "dropped"
       /\ \A t \in Sessions \ {s} : status'[t] = status[t] /\ begun'[t] = begun[t]
       /\ begun' = begun \/ begun'[s] = 1
  <2>1. status'[s] = "dropped"
    BY <1>0, <1>4, <1>11 DEF Open, HasPair
  <2> QED
    BY <1>0, <1>4, <1>5, <1>11, <2>1
<1>13. \A x \in CleanupIds : contents'[x] = contents[x] \/ contents'[x] = {}
  BY <1>0, <1>4
<1>14. ASSUME NEW t \in Sessions PROVE Held(t)'
  <2>1. Held(t) /\ t \in CleanupIds
    BY IdsDiffer DEF CleanInv
  <2>2. CASE t = s
    BY <1>11, <1>13, <2>1, <2>2 DEF Held
  <2>3. CASE t # s
    BY <1>4, <1>9, <1>12, <1>13, <2>1, <2>3 DEF Held, Open, Closing
  <2> QED
    BY <2>2, <2>3
<1>15. Dropped'
  BY <1>12 DEF CleanInv, Dropped
<1>16. CASE UNCHANGED <<awaiting, checks, runs, begun>>
  <2>1. OwnIds'
    BY <1>4, <1>16 DEF CleanInv, OwnIds
  <2>2. \A a \in ToSet(awaiting') : Waits(a)'
    BY <1>16 DEF CleanInv, Waits
  <2> QED
    BY <1>4, <1>14, <1>15, <1>16, <2>1, <2>2 DEF CleanInv
<1>17. CASE /\ i # 0 /\ checks' = Append(checks, s) /\ begun' = [begun EXCEPT ![s] = @ + 1]
            /\ runs' = runs \cup begin /\ awaiting' = [awaiting EXCEPT ![i].left = begin]
  <2> DEFINE aw == [awaiting EXCEPT ![i].left = begin]
  <2>1. i \in DOMAIN awaiting /\ awaiting[i].session = s
    BY <1>6, <1>17
  <2>2. LeftSet(aw, awaiting, i, begin)
    BY <1>0, <1>8, <2>1, SetLeft
  <2>3. awaiting' = aw
    BY <1>17
  <2> HIDE DEF aw
  <2>4. Updated(aw) /\ DOMAIN aw = 1..Len(aw) /\ DOMAIN awaiting = 1..Len(awaiting)
    BY <1>0, <2>2 DEF Updated, LeftSet
  <2>5. \A j, k \in DOMAIN aw : aw[j].session = aw[k].session => j = k
    <3>1. Distinct(awaiting)
      BY DEF EndInv, OneEach
    <3> QED
      BY <1>0, <2>4, <3>1, UpdatedDistinct
  <2>6. ASSUME NEW b \in ToSet(aw)
        PROVE  \E a \in ToSet(awaiting) :
                  /\ b.session = a.session /\ b.why = a.why /\ b.id = a.id
                  /\ IF b.session = s THEN b.left = begin /\ a = awaiting[i] ELSE b.left = a.left
    <3>1. PICK j \in DOMAIN aw : b = aw[j]
      BY <2>4 DEF ToSet
    <3>2. awaiting[j] \in ToSet(awaiting) /\ j \in DOMAIN awaiting
      BY <2>2, <2>4, <3>1 DEF ToSet, LeftSet
    <3>3. b.session = s => j = i
      BY <2>1, <2>2, <2>5, <3>1 DEF LeftSet
    <3>4. /\ b.session = awaiting[j].session /\ b.why = awaiting[j].why /\ b.id = awaiting[j].id
          /\ IF j = i THEN b.left = begin ELSE b.left = awaiting[j].left
      BY <2>2, <3>1, <3>2 DEF LeftSet
    <3>5. j = i => b.session = s
      BY <2>1, <3>4
    <3> QED
      BY <3>2, <3>3, <3>4, <3>5
  <2>7. ToSet(checks') = ToSet(checks) \cup {s}
    BY <1>0, <1>17, AppendSet
  <2>8. OwnIds'
    <3>1. ASSUME NEW b \in ToSet(awaiting')
          PROVE  b.id \in {b.session, owner[b.session]} /\ (b.why = "EarlyCleanup" => b.id = owner[b.session])
      BY <2>3, <2>6 DEF CleanInv, OwnIds
    <3> QED
      BY <1>4, <3>1 DEF CleanInv, OwnIds
  <2>9. ASSUME NEW b \in ToSet(awaiting') PROVE Waits(b)'
    <3>1. PICK a \in ToSet(awaiting) :
                  /\ b.session = a.session /\ b.why = a.why
                  /\ IF b.session = s THEN b.left = begin /\ a = awaiting[i] ELSE b.left = a.left
      BY <2>3, <2>6
    <3>2. CASE b.session = s
      BY <1>7, <3>1, <3>2 DEF Waits
    <3>3. CASE b.session # s
      <4>1. Waits(a) /\ b.left = a.left
        BY <3>1, <3>3 DEF CleanInv
      <4> QED
        BY <2>7, <3>1, <3>3, <4>1 DEF Waits
    <3> QED
      BY <3>2, <3>3
  <2>10. ASSUME NEW r \in runs' \cup ToSet(dones')
         PROVE  begun'[r.session] > 0 /\ r.workflow \in OnTerminate \cup OnCancelled
    <3>1. CASE r \in begin
      BY <1>0, <1>7, <1>11, <1>17, <3>1
    <3>2. CASE r \in runs \cup ToSet(dones)
      <4>1. /\ begun[r.session] > 0 /\ r.session \in Sessions
            /\ r.workflow \in OnTerminate \cup OnCancelled
        BY <3>2, EntriesTyped DEF CleanInv
      <4>2. r.session # s
        BY <1>11, <4>1
      <4> QED
        BY <1>12, <4>1, <4>2
    <3> QED
      BY <1>4, <1>17, <3>1, <3>2
  <2> QED
    BY <1>14, <1>15, <2>8, <2>9, <2>10 DEF CleanInv
<1> QED
  BY <1>5, <1>16, <1>17

-----------------------------------------------------------------------------
(* What the finish node does *)

\* A session is checked: its entry waits for nothing, and it is finalized, or not.
FinishCheck ==
    /\ checks # <<>> /\ checks' = Tail(checks) /\ dones' = dones
    /\ \/ Unfinalized(awaiting)
       \/ \E i \in DOMAIN awaiting : /\ awaiting[i].session = Head(checks) /\ awaiting[i].left = {}
                                     /\ FinalizeSession(i, awaiting)

FinishNothing ==
    checks = <<>> /\ dones = <<>> /\ UNCHANGED <<checks, dones>> /\ Unfinalized(awaiting)

\* The entry at i had to wait for the cleanup workflow that is done, and has only l to wait for.
Deducted(aw, i, l) ==
    /\ i \in DOMAIN awaiting /\ LeftSet(aw, awaiting, i, l)
    /\ awaiting[i].left # None /\ Head(dones) \in awaiting[i].left
    /\ l = awaiting[i].left \ {Head(dones)}

FinishDone ==
    /\ checks = <<>> /\ dones # <<>> /\ checks' = checks /\ dones' = Tail(dones)
    /\ \/ Unfinalized(awaiting)
       \/ \E aw, i, l : /\ Deducted(aw, i, l)
                        /\ \/ l # {} /\ Unfinalized(aw)
                           \/ l = {} /\ FinalizeSession(i, aw)

LEMMA FinishHow ==
    ASSUME Typed, ExecFinish
    PROVE  FinishCheck \/ FinishNothing \/ FinishDone
<1>0. /\ awaiting \in Seq(Entries) /\ checks \in Seq(Sessions) /\ dones \in Seq(Runs)
  BY DEF Typed, TypeOK, CleanTypeOK, Entries
<1>1. CASE checks # <<>>
  <2> DEFINE i == EntryOf(Head(checks))
  <2>1. checks' = Tail(checks) /\ dones' = dones
    BY <1>1 DEF ExecFinish
  <2>2. \/ Unfinalized(awaiting)
        \/ i # 0 /\ awaiting[i].left = {} /\ FinalizeSession(i, awaiting)
    BY <1>1 DEF ExecFinish
  <2>3. i = 0 \/ (i \in DOMAIN awaiting /\ awaiting[i].session = Head(checks))
    BY <1>0, EntryFound
  <2> HIDE DEF i
  <2> QED
    BY <1>1, <2>1, <2>2, <2>3 DEF FinishCheck
<1>2. CASE checks = <<>> /\ dones = <<>>
  BY <1>2 DEF ExecFinish, FinishNothing
<1>3. CASE checks = <<>> /\ dones # <<>>
  <2>1. PICK r : r = Head(dones)
    OBVIOUS
  <2> DEFINE i == EntryWith(r)
             l == awaiting[i].left \ {r}
             aw == [awaiting EXCEPT ![i].left = @ \ {r}]
  <2>2. checks' = checks /\ dones' = Tail(dones)
    BY <1>3 DEF ExecFinish
  <2>3. \/ Unfinalized(awaiting)
        \/ i # 0 /\ ((aw[i].left # {} /\ Unfinalized(aw)) \/ (aw[i].left = {} /\ FinalizeSession(i, aw)))
    BY <1>3, <2>1 DEF ExecFinish
  <2>4. i = 0 \/ (i \in DOMAIN awaiting /\ awaiting[i].left # None /\ r \in awaiting[i].left)
    BY <1>0, RunFound
  <2> HIDE DEF i
  <2>5. CASE Unfinalized(awaiting)
    BY <1>3, <2>2, <2>5 DEF FinishDone
  <2>6. CASE i # 0 /\ ((aw[i].left # {} /\ Unfinalized(aw)) \/ (aw[i].left = {} /\ FinalizeSession(i, aw)))
    <3>1. i \in DOMAIN awaiting /\ awaiting[i] \in Entries
      BY <1>0, <2>4, <2>6
    <3>2. l \in {None} \cup SUBSET Runs
      BY <2>4, <2>6, <3>1 DEF Entries
    <3>3. aw = [awaiting EXCEPT ![i].left = l]
      OBVIOUS
    <3>4. l = awaiting[i].left \ {r}
      OBVIOUS
    <3> HIDE DEF l
    <3>5. LeftSet([awaiting EXCEPT ![i].left = l], awaiting, i, l)
      BY <1>0, <3>1, <3>2, SetLeft
    <3> HIDE DEF aw
    <3>6. Deducted(aw, i, l) /\ aw[i].left = l
      BY <2>1, <2>4, <2>6, <3>1, <3>3, <3>4, <3>5 DEF Deducted, LeftSet
    <3>7. FinishDone
      BY <1>3, <2>2, <2>6, <3>6 DEF FinishDone
    <3> QED
      BY <3>7
  <2> QED
    BY <2>3, <2>5, <2>6
<1> QED
  BY <1>1, <1>2, <1>3

\* The entry b is what the finish node made of a.
Lessened(b, a) ==
    /\ b.session = a.session /\ b.why = a.why /\ b.id = a.id
    /\ \/ b.left = a.left
       \/ a.left # None /\ b.left \subseteq a.left /\ checks = <<>>

LEMMA DeductedIs ==
    ASSUME awaiting \in Seq(Entries), checks = <<>>, NEW aw, NEW i, NEW l, Deducted(aw, i, l)
    PROVE  /\ aw \in Seq(Entries) /\ i \in DOMAIN aw /\ Updated(aw)
           /\ \A b \in ToSet(aw) : \E a \in ToSet(awaiting) : Lessened(b, a)
<1>1. aw \in Seq(Entries) /\ i \in DOMAIN aw /\ Updated(aw)
  BY DEF Deducted, LeftSet, Updated
<1>2. ASSUME NEW b \in ToSet(aw) PROVE \E a \in ToSet(awaiting) : Lessened(b, a)
  <2>1. PICK j \in DOMAIN aw : b = aw[j]
    BY <1>1 DEF ToSet
  <2>2. j \in DOMAIN awaiting /\ awaiting[j] \in ToSet(awaiting)
    BY <1>1, <2>1 DEF ToSet, Updated
  <2>3. Lessened(b, awaiting[j])
    BY <2>1, <2>2 DEF Deducted, LeftSet, Lessened
  <2> QED
    BY <2>2, <2>3
<1> QED
  BY <1>1, <1>2

LEMMA FinishLessens ==
    ASSUME Typed, EndInv, ExecFinish
    PROVE  /\ ToSet(checks') \subseteq ToSet(checks) /\ ToSet(dones') \subseteq ToSet(dones)
           /\ \A b \in ToSet(awaiting') : \E a \in ToSet(awaiting) : Lessened(b, a)
<1>0. /\ awaiting \in Seq(Entries) /\ checks \in Seq(Sessions) /\ dones \in Seq(Runs)
      /\ Distinct(awaiting)
  BY DEF Typed, TypeOK, CleanTypeOK, Entries, EndInv, OneEach
<1>1. \A a \in ToSet(awaiting) : Lessened(a, a)
  BY DEF Lessened
<1>2. ASSUME NEW i \in DOMAIN awaiting, FinalizeSession(i, awaiting)
      PROVE  ToSet(awaiting') \subseteq ToSet(awaiting)
  BY <1>0, <1>2, FinalizeEnd
<1>3. CASE FinishCheck
  <2>1. ToSet(Tail(checks)) \subseteq ToSet(checks) /\ checks' = Tail(checks) /\ dones' = dones
    BY <1>0, <1>3, TailSet DEF FinishCheck
  <2>2. ToSet(awaiting') \subseteq ToSet(awaiting)
    BY <1>2, <1>3 DEF FinishCheck, Unfinalized
  <2> QED
    BY <1>1, <2>1, <2>2
<1>4. CASE FinishNothing
  BY <1>1, <1>4 DEF FinishNothing, Unfinalized
<1>5. CASE FinishDone
  <2>1. ToSet(Tail(dones)) \subseteq ToSet(dones) /\ checks' = checks /\ dones' = Tail(dones) /\ checks = <<>>
    BY <1>0, <1>5, TailSet DEF FinishDone
  <2>2. CASE Unfinalized(awaiting)
    BY <1>1, <2>1, <2>2 DEF Unfinalized
  <2>3. ASSUME NEW aw, NEW i, NEW l, Deducted(aw, i, l),
               (l # {} /\ Unfinalized(aw)) \/ (l = {} /\ FinalizeSession(i, aw))
        PROVE  \A b \in ToSet(awaiting') : \E a \in ToSet(awaiting) : Lessened(b, a)
    <3>1. /\ aw \in Seq(Entries) /\ i \in DOMAIN aw /\ Updated(aw)
          /\ \A b \in ToSet(aw) : \E a \in ToSet(awaiting) : Lessened(b, a)
      BY <1>0, <2>1, <2>3, DeductedIs
    <3>2. Distinct(aw)
      BY <1>0, <3>1, UpdatedDistinct
    <3>3. ToSet(awaiting') \subseteq ToSet(aw)
      BY <2>3, <3>1, <3>2, FinalizeEnd DEF Unfinalized
    <3> QED
      BY <3>1, <3>3
  <2> QED
    BY <1>5, <2>1, <2>2, <2>3 DEF FinishDone
<1> QED
  BY <1>3, <1>4, <1>5, FinishHow

LEMMA ExecFinishClean ==
    ASSUME Typed, EndInv, CleanInv, ExecFinish
    PROVE  CleanInv'
<1>1. UNCHANGED <<status, owner, arriving, closing, contents, finished, begun, runs>>
  BY DEF ExecFinish, sessionVars, taskVars
<1>2. /\ ToSet(checks') \subseteq ToSet(checks) /\ ToSet(dones') \subseteq ToSet(dones)
      /\ \A b \in ToSet(awaiting') : \E a \in ToSet(awaiting) : Lessened(b, a)
  BY FinishLessens
<1>3. Dropped' /\ \A s \in Sessions : Held(s)'
  BY <1>1 DEF CleanInv, Dropped, Held, Open, Closing
<1>4. OwnIds'
  <2>1. ASSUME NEW b \in ToSet(awaiting')
        PROVE  b.id \in {b.session, owner[b.session]} /\ (b.why = "EarlyCleanup" => b.id = owner[b.session])
    BY <1>2 DEF CleanInv, OwnIds, Lessened
  <2> QED
    BY <1>1, <2>1 DEF CleanInv, OwnIds
<1>5. ASSUME NEW b \in ToSet(awaiting') PROVE Waits(b)'
  <2>1. PICK a \in ToSet(awaiting) : Lessened(b, a)
    BY <1>2
  <2>2. Waits(a)
    BY DEF CleanInv
  <2>3. ToSet(checks) = {} \/ b.left = a.left
    BY <2>1 DEF Lessened, ToSet
  <2> QED
    BY <1>2, <2>1, <2>2, <2>3 DEF Lessened, Waits
<1> QED
  BY <1>1, <1>2, <1>3, <1>4, <1>5 DEF CleanInv

LEMMA InitClean == Init => CleanInv
<1> SUFFICES ASSUME Init PROVE CleanInv
  OBVIOUS
<1>1. /\ closing = {} /\ ToSet(awaiting) = {} /\ runs = {} /\ ToSet(dones) = {}
      /\ \A s \in Sessions : begun[s] = 0 /\ arriving[s].id = None
  BY DEF Init, NoItem, ToSet
<1>2. \A s \in Sessions : contents[s] = {}
  BY IdsDiffer DEF Init
<1> QED
  BY <1>1, <1>2 DEF CleanInv, Dropped, OwnIds, Held

LEMMA StepClean ==
    ASSUME EarlyCleanup # "any time", Typed, EndInv, CleanInv, [Next]_vars
    PROVE  CleanInv'
<1>1. CASE HandleCancel \/ Validate \/ ExecTerminal \/ \E p \in Parents : OuterCleanup(p)
  <2>1. (\A p \in Parents : OuterCleanup(p) => Deferring(p) \/ ClosesFor(p))
    BY OuterCleanupIs
  <2> QED
    BY <1>1, <2>1, ClosersClose, ClosesClean, DeferringClean
<1>2. CASE CleanSession \/ TriggerCleanup \/ ExecScope \/ ExecFinish
  BY <1>2, CleanSessionClean, TriggerCleanupClean, ExecScopeClean, ExecFinishClean
<1>3. CASE \E s \in Sessions : CollectTask(s) \/ SupplantTask(s)
  BY <1>3, CollectTaskClean, SupplantTaskClean
<1>4. CASE \E r \in runs : CleanupWorkflowDone(r) \/ CleanupWorkflowCancelled(r)
  BY <1>4, CleanupWorkflowClean
<1>5. CASE \/ PopNothing \/ ExecAsync \/ CollectDeferred \/ OtherOperation
           \/ \E toFilter, toAsync \in BOOLEAN, n \in 0..MaxOutputs : ExecFork(toFilter, toAsync, n)
           \/ \E pass \in BOOLEAN : ExecFilter(pass)
           \/ \E T \in SUBSET Sessions : Collect(T)
           \/ \E s \in Sessions : TaskDone(s)
           \/ \E p \in Parents : OuterInput(p) \/ OuterStop(p)
           \/ UNCHANGED vars
  BY <1>5, StillSteps
<1>6. {s \in Sessions : arriving[s] # NoItem} \in SUBSET Sessions
  OBVIOUS
<1> QED
  BY <1>1, <1>2, <1>3, <1>4, <1>5, <1>6 DEF Next, FlushStep

-----------------------------------------------------------------------------
(* What the outer workflow is told *)

\* The outer workflow asks the scope to clean up for a parent while all its sessions here
\* are open, or not at all, and the scope may be interrupted.
Modest ==
    \/ EarlyCleanup = "never"
    \/ EarlyCleanup = "while open" /\ ~Uninterruptible

\* A session is cleaned for its parent.
Leaving(s) == \E x \in closing \cup ToSet(awaiting) : x.session = s /\ x.why = "EarlyCleanup"

\* Its parent asked for it, and is yet to be told.
Awaited(s) ==
    owner[s] \in Parents /\ parent[owner[s]] = "cleaning" /\ owner[s] \notin clean

\* A parent that may send one request has one session, or one input that waits here.
Single ==
    /\ \A s, t \in Sessions : owner[s] = owner[t] /\ owner[s] \in Parents => s = t
    /\ \A s \in Sessions : owner[s] \in Parents => owner[s] \notin ToSet(inputs["scope"])
    /\ IsInjective(inputs["scope"])

\* Who is told has asked, and who asks sends no requests any more.  Of those who ask all
\* sessions are among those that are cleaned, until they are told.
AskInv ==
    /\ \A p \in Parents : parent[p] = "cleaning" =>
          EarlyCleanup # "never" /\ p \notin ToSet(inputs["scope"])
    /\ \A p \in clean : parent[p] = "cleaning"
    /\ \A s \in Sessions : status[s] = "unborn" => owner[s] = None
    /\ \A s \in Sessions : Leaving(s) <=> Awaited(s)
    /\ MaxPerParent <= 1 => Single

\* What does not concern the parents.
Silent ==
    /\ UNCHANGED <<parent, owner, clean>> /\ inputs'["scope"] = inputs["scope"]
    /\ \A s \in Sessions : status'[s] = "unborn" => status[s] = "unborn"
    /\ \A s \in Sessions : Leaving(s)' <=> Leaving(s)

LEMMA SilentKept == AskInv /\ Silent => AskInv'
BY DEF AskInv, Silent, Awaited, Single

LEMMA LeavingSame == UNCHANGED <<closing, awaiting>> => \A s : Leaving(s)' <=> Leaving(s)
BY DEF Leaving

LEMMA InitAsk == Init => AskInv
<1> SUFFICES ASSUME Init PROVE AskInv
  OBVIOUS
<1>1. /\ inputs["scope"] = <<>> /\ awaiting = <<>> /\ closing = {} /\ clean = {}
      /\ \A p \in Parents : parent[p] = "active"
      /\ \A s \in Sessions : owner[s] = None
  BY DEF Init
<1>2. None \notin Parents
  BY IdsDiffer
<1>3. ToSet(inputs["scope"]) = {} /\ ToSet(awaiting) = {} /\ IsInjective(inputs["scope"])
  BY <1>1 DEF ToSet, IsInjective
<1> QED
  BY <1>1, <1>2, <1>3 DEF AskInv, Single, Leaving, Awaited

\* The steps inside that neither close a session nor touch the list of cleanups.
LEMMA InsideSilent ==
    ASSUME Typed,
           \/ PopNothing \/ ExecAsync \/ CollectDeferred \/ OtherOperation
           \/ \E toFilter, toAsync \in BOOLEAN, n \in 0..MaxOutputs : ExecFork(toFilter, toAsync, n)
           \/ \E pass \in BOOLEAN : ExecFilter(pass)
           \/ \E T \in SUBSET Sessions : Collect(T)
           \/ \E s \in Sessions : CollectTask(s) \/ TaskDone(s) \/ SupplantTask(s)
           \/ \E r \in runs : CleanupWorkflowDone(r) \/ CleanupWorkflowCancelled(r)
           \/ \E p \in Parents : OuterStop(p)
           \/ UNCHANGED vars
    PROVE  Silent
<1>1. UNCHANGED <<status, parent, owner, clean, closing, awaiting>>
  BY DEF PopNothing, ExecAsync, CollectDeferred, OtherOperation, ExecFork, ExecFilter,
     Collect, CollectTask, TaskDone, SupplantTask, CleanupWorkflowDone, CleanupWorkflowCancelled,
     OuterStop, vars, sessionVars, cleanVars, historyVars
<1>2. DOMAIN inputs = Nodes /\ "scope" \in Nodes
  BY InputsType DEF Typed, TypeOK, InputsOK, Nodes
<1>3. inputs'["scope"] = inputs["scope"]
  <2>1. ASSUME NEW toFilter \in BOOLEAN, NEW toAsync \in BOOLEAN, NEW n \in 0..MaxOutputs,
               ExecFork(toFilter, toAsync, n)
        PROVE  inputs'["scope"] = inputs["scope"]
    <3> DEFINE s == Head(inputs["fork"])
               f == Give("filter", s, IF toFilter THEN 1 ELSE 0)
               k == Give("async", s, IF toAsync THEN 1 ELSE 0)
               g == Give("terminal", s, n)
    <3>1. inputs' = [inputs EXCEPT !["fork"] = Tail(@), !["filter"] = f, !["async"] = k,
                                   !["terminal"] = g]
      BY <2>1 DEF ExecFork
    <3> HIDE DEF s, f, k, g
    <3> QED
      BY <1>2, <3>1
  <2>2. CASE \E pass \in BOOLEAN : ExecFilter(pass)
    <3>1. PICK a, b : inputs' = [inputs EXCEPT !["filter"] = a, !["terminal"] = b]
      BY <2>2 DEF ExecFilter
    <3> QED
      BY <1>2, <3>1
  <2>3. CASE ExecAsync
    BY <1>2, <2>3 DEF ExecAsync
  <2>4. CASE \E s \in Sessions : TaskDone(s)
    BY <1>2, <2>4 DEF TaskDone
  <2>5. CASE \/ PopNothing \/ CollectDeferred \/ OtherOperation
             \/ \E T \in SUBSET Sessions : Collect(T)
             \/ \E s \in Sessions : CollectTask(s) \/ SupplantTask(s)
             \/ \E r \in runs : CleanupWorkflowDone(r) \/ CleanupWorkflowCancelled(r)
             \/ \E p \in Parents : OuterStop(p)
             \/ UNCHANGED vars
    BY <2>5 DEF PopNothing, CollectDeferred, OtherOperation, Collect, CollectTask, SupplantTask,
       CleanupWorkflowDone, CleanupWorkflowCancelled, OuterStop, vars, nodeVars
  <2> QED
    BY <2>1, <2>2, <2>3, <2>4, <2>5
<1> QED
  BY <1>1, <1>3, LeavingSame DEF Silent

\* The steps that close sessions, but not for their parent.
LEMMA ClosersSilent ==
    ASSUME Typed, HandleCancel \/ Validate \/ ExecTerminal
    PROVE  Silent
<1>1. /\ UNCHANGED <<parent, owner, clean, awaiting>> /\ closing = {}
  BY DEF HandleCancel, Validate, ExecTerminal, Pop, QueueRuns, Running, cleanVars, historyVars
<1>2. inputs'["scope"] = inputs["scope"]
  <2>1. DOMAIN inputs = Nodes /\ "scope" \in Nodes
    BY InputsType DEF Typed, TypeOK, InputsOK, Nodes
  <2> QED
    BY <2>1 DEF HandleCancel, Validate, ExecTerminal, nodeVars
<1>3. \/ UNCHANGED <<status, closing>>
      \/ \E S, st, id, why : /\ Close(S, st, id, why) /\ st # "unborn" /\ why # "EarlyCleanup"
  BY DEF HandleCancel, Validate, ExecTerminal
<1>4. /\ \A c \in closing' : c.why # "EarlyCleanup"
      /\ \A s \in Sessions : status'[s] = "unborn" => status[s] = "unborn"
  BY <1>1, <1>3 DEF Close
<1>5. \A s \in Sessions : Leaving(s)' <=> Leaving(s)
  BY <1>1, <1>4 DEF Leaving
<1> QED
  BY <1>1, <1>2, <1>4, <1>5 DEF Silent

LEMMA CleanSessionSilent ==
    ASSUME Typed, CleanSession
    PROVE  Silent
<1>1. PICK c \in closing :
        /\ closing' = closing \ {c}
        /\ awaiting' = Append(awaiting, [session |-> c.session, id |-> c.id, why |-> c.why, left |-> None])
        /\ inputs' = [node \in DOMAIN inputs |->
                        IF node \in Inner THEN Without(inputs[node], {c.session}) ELSE inputs[node]]
        /\ UNCHANGED <<status, parent, owner, clean>>
  BY DEF CleanSession, historyVars
<1> DEFINE a == [session |-> c.session, id |-> c.id, why |-> c.why, left |-> None]
<1>2. awaiting \in Seq(Entries) /\ a \in Entries /\ a.session = c.session /\ a.why = c.why
  BY DEF Typed, TypeOK, CleanTypeOK, Entries
<1> HIDE DEF a
<1>3. ToSet(awaiting') = ToSet(awaiting) \cup {a}
  <2>1. awaiting' = Append(awaiting, a)
    BY <1>1 DEF a
  <2> QED
    BY <1>2, <2>1, AppendSet
<1>4. inputs'["scope"] = inputs["scope"]
  <2>1. DOMAIN inputs = Nodes /\ "scope" \in Nodes /\ "scope" \notin Inner
    BY InputsType DEF Typed, TypeOK, InputsOK, Nodes, Inner
  <2> QED
    BY <1>1, <2>1
<1>5. \A s \in Sessions : Leaving(s)' <=> Leaving(s)
  BY <1>1, <1>2, <1>3 DEF Leaving
<1> QED
  BY <1>1, <1>4, <1>5 DEF Silent

\* Entries which only changed what they wait for are those of before.
LEMMA UpdatedWhys ==
    ASSUME NEW aw, Updated(aw), awaiting \in Seq(Entries)
    PROVE  /\ \A a \in ToSet(aw) : \E b \in ToSet(awaiting) : b.session = a.session /\ b.why = a.why
           /\ \A b \in ToSet(awaiting) : \E a \in ToSet(aw) : b.session = a.session /\ b.why = a.why
<1>1. /\ DOMAIN aw = DOMAIN awaiting /\ DOMAIN aw = 1..Len(aw) /\ DOMAIN awaiting = 1..Len(awaiting)
      /\ \A j \in DOMAIN aw : aw[j].session = awaiting[j].session /\ aw[j].why = awaiting[j].why
  BY DEF Updated
<1> QED
  BY <1>1 DEF ToSet

LEMMA TriggerCleanupSilent ==
    ASSUME Typed, TriggerCleanup
    PROVE  Silent
<1> DEFINE s == Last(finished).session
           i == EntryOf(s)
<1>0. awaiting \in Seq(Entries) /\ awaiting' \in Seq(Entries) /\ status \in [Sessions -> Status]
  <2>1. TypeOK'
    BY TriggerCleanupTyped DEF Typed
  <2> QED
    BY <2>1 DEF Typed, TypeOK, CleanTypeOK, SessionTypeOK, Entries
<1>1. /\ UNCHANGED <<parent, owner, clean, closing, inputs>>
      /\ status' = [status EXCEPT ![s] = IF HasPair(s) THEN "dropped" ELSE @]
  BY DEF TriggerCleanup, nodeVars
<1>2. \/ UNCHANGED awaiting
      \/ i # 0 /\ \E l : awaiting' = [awaiting EXCEPT ![i].left = l]
  BY DEF TriggerCleanup
<1>3. i = 0 \/ i \in DOMAIN awaiting
  <2> HIDE DEF s
  <2> QED
    BY <1>0, EntryFound
<1> HIDE DEF i
<1>4. Updated(awaiting')
  <2>1. CASE UNCHANGED awaiting
    BY <1>0, <2>1, UpdatedSame
  <2>2. CASE i # 0 /\ \E l : awaiting' = [awaiting EXCEPT ![i].left = l]
    <3>1. PICK l : awaiting' = [awaiting EXCEPT ![i].left = l]
      BY <2>2
    <3>2. DOMAIN awaiting' = DOMAIN awaiting
      BY <3>1
    <3>3. \A j \in DOMAIN awaiting : awaiting[j] \in Entries
      BY <1>0
    <3>4. \A j \in DOMAIN awaiting : awaiting'[j].session = awaiting[j].session
                                     /\ awaiting'[j].why = awaiting[j].why
      BY <1>3, <2>2, <3>1, <3>3 DEF Entries
    <3> QED
      BY <1>0, <3>2, <3>4 DEF Updated
  <2> QED
    BY <1>2, <2>1, <2>2
<1>5. \A t \in Sessions : Leaving(t)' <=> Leaving(t)
  BY <1>0, <1>1, <1>4, UpdatedWhys DEF Leaving
<1>6. \A t \in Sessions : status'[t] = "unborn" => status[t] = "unborn"
  <2> HIDE DEF s
  <2> QED
    BY <1>0, <1>1
<1> QED
  BY <1>1, <1>5, <1>6 DEF Silent

LEMMA ExecScopeAsk == Typed /\ EndInv /\ AskInv /\ ExecScope => AskInv'
<1> SUFFICES ASSUME Typed, EndInv, AskInv, ExecScope PROVE AskInv'
  OBVIOUS
<1>0. /\ UNCHANGED <<parent, clean, closing, awaiting>>
      /\ InputsOK(inputs) /\ inputs["scope"] \in Seq(Parents)
      /\ owner \in [Sessions -> Parents \cup {None}] /\ status \in [Sessions -> Status]
  BY InputsType DEF ExecScope, cleanVars, historyVars, Typed, TypeOK, InputsOK, SessionTypeOK
<1>1. CASE inputs["scope"] = <<>>
  <2>1. Silent
    BY <1>0, <1>1, LeavingSame DEF ExecScope, Silent
  <2> QED
    BY <2>1, SilentKept
<1>2. CASE inputs["scope"] # <<>>
  <2> DEFINE p == Head(inputs["scope"])
  <2>1. PICK s \in Sessions :
            /\ status[s] = "unborn" /\ owner' = [owner EXCEPT ![s] = p]
            /\ status' = [status EXCEPT ![s] = "Ongoing"]
            /\ inputs' = [inputs EXCEPT !["scope"] = Tail(@), !["fork"] = Append(@, s)]
    BY <1>2 DEF ExecScope
  <2>2. /\ p \in Parents /\ p \in ToSet(inputs["scope"])
        /\ ToSet(inputs["scope"]) = {p} \cup ToSet(Tail(inputs["scope"]))
        /\ IsInjective(inputs["scope"]) => /\ p \notin ToSet(Tail(inputs["scope"]))
                                           /\ IsInjective(Tail(inputs["scope"]))
    BY <1>0, <1>2, TailSet
  <2> HIDE DEF p
  <2>3. inputs'["scope"] = Tail(inputs["scope"])
    <3>1. DOMAIN inputs = Nodes /\ "scope" \in Nodes
      BY <1>0 DEF InputsOK, Nodes
    <3> QED
      BY <2>1, <3>1
  <2>4. ~Leaving(s)
    BY <2>1 DEF EndInv, Stage, Open, Closing, Has, Leaving
  <2>5. /\ owner'[s] = p /\ status'[s] = "Ongoing"
        /\ \A t \in Sessions \ {s} : owner'[t] = owner[t] /\ status'[t] = status[t]
    BY <1>0, <2>1
  <2>6. parent[p] # "cleaning"
    BY <2>2 DEF AskInv
  <2>7. ASSUME NEW t \in Sessions PROVE Leaving(t)' <=> Awaited(t)'
    <3>1. Leaving(t)' <=> Leaving(t)
      BY <1>0, LeavingSame
    <3>2. CASE t = s
      BY <1>0, <2>4, <2>5, <2>6, <3>1, <3>2 DEF Awaited
    <3>3. CASE t # s
      BY <1>0, <2>5, <3>1, <3>3 DEF AskInv, Awaited
    <3> QED
      BY <3>2, <3>3
  <2>8. ASSUME Single PROVE Single'
    <3>1. \A t \in Sessions \ {s} : owner[t] # p
      BY <2>2, <2>8 DEF Single
    <3>2. ASSUME NEW t \in Sessions, NEW u \in Sessions, owner'[t] = owner'[u], owner'[t] \in Parents
          PROVE  t = u
      BY <2>5, <2>8, <3>1, <3>2 DEF Single
    <3>3. ASSUME NEW t \in Sessions, owner'[t] \in Parents
          PROVE  owner'[t] \notin ToSet(inputs'["scope"])
      <4>1. CASE t = s
        BY <2>2, <2>3, <2>5, <2>8, <4>1 DEF Single
      <4>2. CASE t # s
        BY <2>2, <2>3, <2>5, <2>8, <3>3, <4>2 DEF Single
      <4> QED
        BY <4>1, <4>2
    <3> QED
      BY <2>2, <2>3, <2>8, <3>2, <3>3 DEF Single
  <2>9. \A t \in Sessions : status'[t] = "unborn" => owner'[t] = None
    BY <2>5 DEF AskInv
  <2> QED
    BY <1>0, <2>2, <2>3, <2>7, <2>8, <2>9 DEF AskInv
<1> QED
  BY <1>1, <1>2

\* A parent that may send one request sends one.
LEMMA OuterInputAsk ==
    ASSUME Typed, AskInv, NEW p \in Parents, OuterInput(p)
    PROVE  AskInv'
<1> DEFINE mine == {s \in Sessions : owner[s] = p}
           left == Without(inputs["scope"], Parents \ {p})
<1>0. /\ UNCHANGED <<status, parent, owner, clean, closing, awaiting>> /\ parent[p] = "active"
      /\ Cardinality(mine) + Len(left) < MaxPerParent
      /\ inputs' = [inputs EXCEPT !["scope"] = Append(@, p)]
  BY DEF OuterInput, sessionVars, cleanVars, historyVars
<1>1. InputsOK(inputs) /\ inputs["scope"] \in Seq(Parents)
  BY InputsType DEF Typed, TypeOK, InputsOK
<1>2. inputs'["scope"] = Append(inputs["scope"], p)
  <2>1. DOMAIN inputs = Nodes /\ "scope" \in Nodes
    BY <1>1 DEF InputsOK, Nodes
  <2> QED
    BY <1>0, <2>1
<1>3. /\ ToSet(inputs'["scope"]) = ToSet(inputs["scope"]) \cup {p}
      /\ IsInjective(inputs["scope"]) /\ p \notin ToSet(inputs["scope"]) => IsInjective(inputs'["scope"])
  BY <1>1, <1>2, AppendSet
<1>4. ASSUME MaxPerParent <= 1
      PROVE  p \notin ToSet(inputs["scope"]) /\ \A s \in Sessions : owner[s] # p
  <2>1. IsFiniteSet(Sessions)
    <3>1. MaxSessions \in Nat
      BY ScopeAssumption
    <3>2. 1 \in Int /\ MaxSessions \in Int
      BY <3>1
    <3>3. IsFiniteSet(1..MaxSessions)
      BY <3>2, FS_Interval
    <3> QED
      BY <3>3 DEF Sessions
  <2>2. IsFiniteSet(mine) /\ Cardinality(mine) \in Nat
    BY <2>1, FS_Subset, FS_CardinalityType
  <2>3. left \in Seq(Parents) /\ ToSet(left) = ToSet(inputs["scope"]) \ (Parents \ {p})
    BY <1>1, WithoutSet
  <2> HIDE DEF mine, left
  <2>4. Cardinality(mine) = 0 /\ Len(left) = 0
    <3>1. MaxPerParent \in Nat
      BY ScopeAssumption
    <3>2. Len(left) \in Nat
      BY <2>3
    <3> QED
      BY <1>0, <1>4, <2>2, <3>1, <3>2
  <2>5. mine = {}
    BY <2>2, <2>4, FS_EmptySet
  <2>6. ToSet(left) = {}
    BY <2>3, <2>4 DEF ToSet
  <2> QED
    BY <2>3, <2>5, <2>6 DEF mine
<1>5. \A s \in Sessions : Leaving(s)' <=> Awaited(s)'
  BY <1>0, LeavingSame DEF AskInv, Awaited
<1>6. MaxPerParent <= 1 => Single'
  BY <1>0, <1>3, <1>4 DEF AskInv, Single
<1> QED
  BY <1>0, <1>3, <1>5, <1>6 DEF AskInv

\* The scope is asked to clean up for p, all of whose sessions are open.
Asks(p) ==
    /\ EarlyCleanup # "never" /\ closing = {} /\ parent[p] = "active"
    /\ UNCHANGED <<owner, awaiting>>
    /\ parent' = [parent EXCEPT ![p] = "cleaning"]
    /\ inputs' = [inputs EXCEPT !["scope"] = Without(@, {p})]
    /\ Deferring(p) \/ ClosesFor(p)

LEMMA AsksAsk ==
    ASSUME Typed, AskInv, NEW p \in Parents, Asks(p)
    PROVE  AskInv'
<1>1. /\ EarlyCleanup # "never" /\ closing = {} /\ parent[p] = "active"
      /\ UNCHANGED <<owner, awaiting>>
      /\ parent' = [parent EXCEPT ![p] = "cleaning"]
      /\ inputs' = [inputs EXCEPT !["scope"] = Without(@, {p})]
      /\ Deferring(p) \/ ClosesFor(p)
  BY DEF Asks
<1>3. InputsOK(inputs) /\ inputs["scope"] \in Seq(Parents) /\ parent \in [Parents -> {"active", "cleaning"}]
      /\ clean \subseteq Parents
  BY InputsType DEF Typed, TypeOK, InputsOK, SessionTypeOK
<1>4. inputs'["scope"] = Without(inputs["scope"], {p})
  <2>1. DOMAIN inputs = Nodes /\ "scope" \in Nodes
    BY <1>3 DEF InputsOK, Nodes
  <2> QED
    BY <1>1, <2>1
<1>5. /\ ToSet(inputs'["scope"]) = ToSet(inputs["scope"]) \ {p}
      /\ IsInjective(inputs["scope"]) => IsInjective(inputs'["scope"])
  <2>1. inputs["scope"] \in Seq(Parents)
    BY <1>3
  <2> QED
    BY <1>4, <2>1, WithoutSet
<1>6. \A q \in Parents : parent'[q] = IF q = p THEN "cleaning" ELSE parent[q]
  BY <1>1, <1>3
<1>7. \A s \in Sessions : owner[s] = p => ~Leaving(s)
  BY <1>1 DEF AskInv, Awaited
<1>8. p \notin clean
  BY <1>1 DEF AskInv
<1>9. /\ \A s \in Sessions : status'[s] = "unborn" => status[s] = "unborn"
      /\ \A s \in Sessions : Leaving(s)' <=> Awaited(s)'
  <2>1. CASE Deferring(p)
    <3>1. \A s \in Sessions : Leaving(s)' <=> Leaving(s)
      BY <1>1, <2>1, LeavingSame DEF Deferring
    <3>2. ASSUME NEW s \in Sessions PROVE Leaving(s)' <=> Awaited(s)'
      BY <1>1, <1>3, <1>6, <1>7, <2>1, <3>1 DEF Deferring, AskInv, Awaited
    <3> QED
      BY <2>1, <3>2 DEF Deferring
  <2>2. CASE ClosesFor(p)
    <3>1. PICK S \in SUBSET Sessions :
            /\ \A s \in Sessions : s \in S <=> owner[s] = p
            /\ Close(S, "Cleanup", [s \in Sessions |-> p], "EarlyCleanup") /\ clean' = clean
      BY <2>2 DEF ClosesFor
    <3>2. /\ \A c \in closing' : c.session \in S /\ c.why = "EarlyCleanup"
          /\ \A s \in S : \E c \in closing' : c.session = s /\ c.why = "EarlyCleanup"
          /\ \A s \in Sessions : status'[s] = IF s \in S THEN "Cleanup" ELSE status[s]
      <4> DEFINE id == [s \in Sessions |-> p]
                 item(s) == [session |-> s, id |-> id[s], why |-> "EarlyCleanup"]
      <4>1. /\ closing' = {item(s) : s \in S}
            /\ \A s \in Sessions : status'[s] = IF s \in S THEN "Cleanup" ELSE status[s]
        BY <3>1 DEF Close
      <4>2. \A s \in S : item(s).session = s /\ item(s).why = "EarlyCleanup"
        OBVIOUS
      <4> HIDE DEF item
      <4> QED
        BY <4>1, <4>2
    <3>3. ASSUME NEW s \in Sessions PROVE Leaving(s)' <=> Awaited(s)'
      <4>1. CASE s \in S
        BY <1>1, <1>6, <1>8, <3>1, <3>2, <4>1 DEF Leaving, Awaited
      <4>2. CASE s \notin S
        <5>1. owner[s] # p /\ (Awaited(s)' <=> Awaited(s))
          BY <1>1, <1>6, <3>1, <4>2 DEF Awaited
        <5>2. Leaving(s)' <=> Leaving(s)
          BY <1>1, <3>2, <4>2 DEF Leaving
        <5> QED
          BY <5>1, <5>2 DEF AskInv
      <4> QED
        BY <4>1, <4>2
    <3> QED
      BY <3>2, <3>3
  <2> QED
    BY <1>1, <2>1, <2>2
<1>10. \A q \in clean' : parent'[q] = "cleaning"
  BY <1>1, <1>3, <1>6 DEF AskInv, Deferring, ClosesFor
<1>11. MaxPerParent <= 1 => Single'
  BY <1>1, <1>5 DEF AskInv, Single
<1> QED
  BY <1>1, <1>5, <1>6, <1>9, <1>10, <1>11 DEF AskInv

LEMMA OuterCleanupAsk ==
    ASSUME EarlyCleanup # "any time", Typed, AskInv, NEW p \in Parents, OuterCleanup(p)
    PROVE  AskInv'
<1>1. Asks(p)
  BY OuterCleanupIs DEF Asks
<1> QED
  BY <1>1, AsksAsk

-----------------------------------------------------------------------------
(* The cleanup workflows that an entry waits for *)

\* What runs for a session that has an entry is among what the entry waits for.  An entry
\* that its parent waits for has cleanup workflows to wait for, if there are any, until its
\* session is finalized.
RunInv ==
    /\ IsInjective(dones) /\ runs \cap ToSet(dones) = {}
    /\ \A a \in ToSet(awaiting) : \A r \in runs \cup ToSet(dones) :
          r.session = a.session => r \in a.left
    /\ OnCancelled # {} => \A a \in ToSet(awaiting) :
          a.why = "EarlyCleanup" /\ a.left = {} => finals[a.session] > 0

\* The session is over: nothing runs for it any more, and it is finalized, unless there is
\* neither a cleanup workflow to wait for nor one session at a time.
Over(s) ==
    /\ begun[s] > 0 /\ \A r \in runs \cup ToSet(dones) : r.session # s
    /\ OnCancelled # {} \/ MaxPerParent <= 1 => finals[s] > 0

ToldInv ==
    /\ RunInv
    /\ ~Uninterruptible => \A s \in Sessions : owner[s] \in clean => Over(s)

\* No entry waits for nothing but a set.
LEMMA NoneIsNoSet == None # {}
BY ScopeAssumption

\* Steps that leave the finish node and what it knows alone.
Resting == UNCHANGED <<runs, dones, awaiting, finals, begun, owner, clean>>

LEMMA RestingKept == ToldInv /\ Resting => ToldInv'
BY DEF ToldInv, RunInv, Over, Resting

LEMMA RestingSteps ==
    ASSUME Typed,
           \/ PopNothing \/ ExecAsync \/ CollectDeferred \/ OtherOperation
           \/ HandleCancel \/ Validate \/ ExecTerminal
           \/ \E toFilter, toAsync \in BOOLEAN, n \in 0..MaxOutputs : ExecFork(toFilter, toAsync, n)
           \/ \E pass \in BOOLEAN : ExecFilter(pass)
           \/ \E T \in SUBSET Sessions : Collect(T)
           \/ \E s \in Sessions : CollectTask(s) \/ TaskDone(s) \/ SupplantTask(s)
           \/ \E p \in Parents : OuterInput(p) \/ OuterStop(p)
           \/ UNCHANGED vars
    PROVE  Resting
BY DEF Resting, PopNothing, ExecAsync, CollectDeferred, OtherOperation, HandleCancel, Validate,
   ExecTerminal, ExecFork, ExecFilter, Collect, CollectTask, TaskDone, SupplantTask, OuterInput,
   OuterStop, vars, sessionVars, cleanVars, finishVars, historyVars

LEMMA InitTold == Init => ToldInv
<1> SUFFICES ASSUME Init PROVE ToldInv
  OBVIOUS
<1>1. awaiting = <<>> /\ dones = <<>> /\ runs = {} /\ clean = {}
  BY DEF Init
<1>2. ToSet(awaiting) = {} /\ ToSet(dones) = {} /\ IsInjective(dones)
  BY <1>1 DEF ToSet, IsInjective
<1> QED
  BY <1>1, <1>2 DEF ToldInv, RunInv

LEMMA OuterCleanupTold ==
    ASSUME EarlyCleanup # "any time", Typed, AskInv, ToldInv, NEW p \in Parents, OuterCleanup(p)
    PROVE  ToldInv'
<1>1. UNCHANGED <<runs, dones, awaiting, finals, begun, owner>>
  BY DEF OuterCleanup, cleanVars, finishVars
<1>2. RunInv'
  BY <1>1 DEF ToldInv, RunInv
<1>3. Uninterruptible \/ UNCHANGED clean
  BY OuterCleanupIs DEF Deferring, ClosesFor
<1> QED
  BY <1>1, <1>2, <1>3 DEF ToldInv, Over

LEMMA ExecScopeTold ==
    ASSUME Typed, AskInv, ToldInv, ExecScope
    PROVE  ToldInv'
<1>1. /\ UNCHANGED <<runs, dones, awaiting, finals, begun, clean>> /\ inputs["scope"] \in Seq(Parents)
      /\ owner \in [Sessions -> Parents \cup {None}]
  BY DEF ExecScope, cleanVars, finishVars, historyVars, Typed, TypeOK, NodeTypeOK, SessionTypeOK
<1>2. RunInv'
  BY <1>1 DEF ToldInv, RunInv
<1>3. ASSUME NEW t \in Sessions, owner'[t] \in clean PROVE owner[t] \in clean
  <2>1. CASE inputs["scope"] = <<>>
    BY <1>3, <2>1 DEF ExecScope
  <2>2. CASE inputs["scope"] # <<>>
    <3> DEFINE p == Head(inputs["scope"])
    <3>1. PICK s \in Sessions : owner' = [owner EXCEPT ![s] = p]
      BY <2>2 DEF ExecScope
    <3>2. p \in Parents /\ p \in ToSet(inputs["scope"])
      BY <1>1, <2>2, TailSet
    <3> HIDE DEF p
    <3>3. p \notin clean
      BY <3>2 DEF AskInv
    <3> QED
      BY <1>1, <1>3, <3>1, <3>3
  <2> QED
    BY <2>1, <2>2
<1> QED
  BY <1>1, <1>2, <1>3 DEF ToldInv, Over

LEMMA CleanSessionTold ==
    ASSUME Typed, EndInv, CleanInv, ToldInv, CleanSession
    PROVE  ToldInv'
<1>0. awaiting \in Seq(Entries) /\ begun \in [Sessions -> Nat]
  BY DEF Typed, TypeOK, CleanTypeOK, Entries
<1>1. PICK c \in closing :
        /\ awaiting' = Append(awaiting, [session |-> c.session, id |-> c.id, why |-> c.why, left |-> None])
        /\ UNCHANGED <<owner, clean, finals, begun, runs, dones>>
  BY DEF CleanSession, finishVars, historyVars
<1> DEFINE a == [session |-> c.session, id |-> c.id, why |-> c.why, left |-> None]
<1>2. a \in Entries /\ a.session = c.session /\ a.left = None /\ c.session \in Sessions
  BY DEF Typed, TypeOK, CleanTypeOK, Entries
<1>3. awaiting' = Append(awaiting, a)
  BY <1>1
<1> HIDE DEF a
<1>4. ToSet(awaiting') = ToSet(awaiting) \cup {a}
  BY <1>0, <1>2, <1>3, AppendSet
<1>5. begun[a.session] = 0
  BY <1>2 DEF EndInv, Stage, Closing
<1>6. \A r \in runs \cup ToSet(dones) : r.session # a.session
  BY <1>0, <1>2, <1>5 DEF CleanInv
<1>7. a.left # {}
  BY <1>2, NoneIsNoSet
<1>8. RunInv'
  BY <1>1, <1>4, <1>6, <1>7 DEF ToldInv, RunInv
<1> QED
  BY <1>1, <1>8 DEF ToldInv, Over

LEMMA CleanupWorkflowTold ==
    ASSUME Typed, ToldInv, NEW r \in runs, CleanupWorkflowDone(r) \/ CleanupWorkflowCancelled(r)
    PROVE  ToldInv'
<1>0. /\ dones \in Seq(Runs) /\ r \in Runs /\ r \notin ToSet(dones) /\ IsInjective(dones)
      /\ runs' = runs \ {r} /\ dones' \in {dones, Append(dones, r)}
      /\ UNCHANGED <<awaiting, finals, begun, owner, clean>>
  BY DEF CleanupWorkflowDone, CleanupWorkflowCancelled, cleanVars, historyVars, sessionVars,
     Typed, TypeOK, CleanTypeOK, ToldInv, RunInv
<1>1. /\ ToSet(dones') \subseteq ToSet(dones) \cup {r} /\ IsInjective(dones')
  <2>1. /\ ToSet(Append(dones, r)) = ToSet(dones) \cup {r} /\ IsInjective(Append(dones, r))
    BY <1>0, AppendSet
  <2> QED
    BY <1>0, <2>1
<1>2. RunInv'
  BY <1>0, <1>1 DEF ToldInv, RunInv
<1> QED
  BY <1>0, <1>1, <1>2 DEF ToldInv, Over

\* The session whose nodes are clean waits for the cleanup workflows that are begun for it.
Begins(s, begin) ==
    /\ begun[s] = 0 /\ begun' = [begun EXCEPT ![s] = @ + 1]
    /\ runs' = runs \cup begin /\ \A r \in begin : r.session = s
    /\ \A b \in ToSet(awaiting') : \E a \in ToSet(awaiting) :
          /\ b.session = a.session /\ b.why = a.why
          /\ b.left = IF b.session = s THEN begin ELSE a.left
    /\ \A b \in ToSet(awaiting') :
          b.session = s /\ b.why # "Terminated" /\ begin = {} => OnCancelled = {}

LEMMA TriggerCleanupIs ==
    ASSUME Typed, EndInv, TriggerCleanup
    PROVE  /\ UNCHANGED <<owner, clean, finals, dones>>
           /\ \/ UNCHANGED <<awaiting, runs, begun>>
              \/ \E s \in Sessions, begin \in SUBSET Runs : Begins(s, begin)
<1>0. /\ finished \in Seq(Cleans) /\ finished # <<>> /\ awaiting \in Seq(Entries)
      /\ begun \in [Sessions -> Nat] /\ UNCHANGED <<owner, clean, finals, dones>>
  BY DEF Typed, TypeOK, CleanTypeOK, RosterTypeOK, Cleans, Entries, TriggerCleanup
<1>1. PICK s \in Sessions : s = Last(finished).session
  <2>1. Last(finished) \in Cleans
    BY <1>0, LastFront
  <2> QED
    BY <2>1 DEF Cleans
<1> DEFINE i == EntryOf(s)
           ws == IF awaiting[i].why = "Terminated" THEN OnTerminate ELSE OnCancelled
           begin == {[session |-> s, workflow |-> w, n |-> begun[s]] : w \in ws}
<1>2. \/ UNCHANGED <<awaiting, runs, begun>>
      \/ /\ i # 0 /\ begun' = [begun EXCEPT ![s] = @ + 1]
         /\ runs' = runs \cup begin /\ awaiting' = [awaiting EXCEPT ![i].left = begin]
  BY <1>1 DEF TriggerCleanup
<1>3. i = 0 \/ (i \in DOMAIN awaiting /\ awaiting[i].session = s)
  BY <1>0, EntryFound
<1>4. ws \subseteq CleanupWorkflows /\ (awaiting[i].why # "Terminated" => ws = OnCancelled)
  BY ScopeAssumption
<1>5. begin \in SUBSET Runs /\ (\A r \in begin : r.session = s) /\ (begin = {} => ws = {})
  <2>1. begun[s] \in Nat /\ s \in Sessions
    BY <1>0
  <2> HIDE DEF ws
  <2>2. \A w \in ws : [session |-> s, workflow |-> w, n |-> begun[s]] \in Runs
    BY <1>4, <2>1 DEF Runs
  <2>3. begin \in SUBSET Runs
    BY <2>2
  <2>4. \A r \in begin : r.session = s
    OBVIOUS
  <2>5. begin = {} => ws = {}
    OBVIOUS
  <2> QED
    BY <2>3, <2>4, <2>5
<1> HIDE DEF i, ws, begin
<1>6. begun[s] = 0
  <2>1. Has(finished, s)
    <3>1. Distinct(finished)
      BY DEF EndInv, OneEach
    <3> QED
      BY <1>0, <1>1, <3>1, HasFront
  <2> QED
    BY <2>1 DEF EndInv, Stage
<1>7. CASE /\ i # 0 /\ begun' = [begun EXCEPT ![s] = @ + 1]
           /\ runs' = runs \cup begin /\ awaiting' = [awaiting EXCEPT ![i].left = begin]
  <2> DEFINE aw == [awaiting EXCEPT ![i].left = begin]
  <2>1. i \in DOMAIN awaiting /\ awaiting[i].session = s
    BY <1>3, <1>7
  <2>2. LeftSet(aw, awaiting, i, begin) /\ awaiting' = aw
    BY <1>0, <1>5, <1>7, <2>1, SetLeft
  <2> HIDE DEF aw
  <2>3. Updated(aw) /\ DOMAIN aw = 1..Len(aw) /\ DOMAIN awaiting = 1..Len(awaiting)
    BY <1>0, <2>2 DEF Updated, LeftSet
  <2>4. \A j, k \in DOMAIN aw : aw[j].session = aw[k].session => j = k
    <3>1. Distinct(awaiting)
      BY DEF EndInv, OneEach
    <3> QED
      BY <1>0, <2>3, <3>1, UpdatedDistinct
  <2>5. ASSUME NEW b \in ToSet(awaiting')
        PROVE  /\ \E a \in ToSet(awaiting) :
                     /\ b.session = a.session /\ b.why = a.why
                     /\ b.left = IF b.session = s THEN begin ELSE a.left
               /\ b.session = s => b.why = awaiting[i].why
    <3>1. PICK j \in DOMAIN aw : b = aw[j]
      BY <2>2, <2>3 DEF ToSet
    <3>2. awaiting[j] \in ToSet(awaiting) /\ j \in DOMAIN awaiting
      BY <2>2, <2>3, <3>1 DEF ToSet, LeftSet
    <3>3. b.session = s <=> j = i
      BY <2>1, <2>2, <2>4, <3>1 DEF LeftSet
    <3>4. /\ b.session = awaiting[j].session /\ b.why = awaiting[j].why
          /\ b.left = IF j = i THEN begin ELSE awaiting[j].left
      BY <2>2, <3>1, <3>2 DEF LeftSet
    <3> QED
      BY <3>2, <3>3, <3>4
  <2>6. \A b \in ToSet(awaiting') :
           b.session = s /\ b.why # "Terminated" /\ begin = {} => OnCancelled = {}
    BY <1>4, <1>5, <2>5
  <2>7. Begins(s, begin)
    BY <1>5, <1>6, <1>7, <2>5, <2>6 DEF Begins
  <2> QED
    BY <1>0, <1>5, <2>7
<1> QED
  BY <1>0, <1>2, <1>7

LEMMA TriggerCleanupTold ==
    ASSUME Typed, EndInv, CleanInv, ToldInv, TriggerCleanup
    PROVE  ToldInv'
<1>0. /\ UNCHANGED <<owner, clean, finals, dones>> /\ begun \in [Sessions -> Nat]
  BY TriggerCleanupIs DEF Typed, TypeOK
<1>1. CASE UNCHANGED <<awaiting, runs, begun>>
  BY <1>0, <1>1, RestingKept DEF Resting
<1>2. ASSUME NEW s \in Sessions, NEW begin \in SUBSET Runs,
             Begins(s, begin)
      PROVE  ToldInv'
  <2>0. /\ begun[s] = 0 /\ begun' = [begun EXCEPT ![s] = @ + 1]
        /\ runs' = runs \cup begin /\ \A r \in begin : r.session = s
        /\ \A b \in ToSet(awaiting') : \E a \in ToSet(awaiting) :
              /\ b.session = a.session /\ b.why = a.why
              /\ b.left = IF b.session = s THEN begin ELSE a.left
        /\ \A b \in ToSet(awaiting') :
              b.session = s /\ b.why # "Terminated" /\ begin = {} => OnCancelled = {}
    BY <1>2 DEF Begins
  <2>1. \A r \in runs \cup ToSet(dones) : r.session # s
    BY <2>0 DEF CleanInv
  <2>2. ASSUME NEW b \in ToSet(awaiting'), NEW r \in runs' \cup ToSet(dones'), r.session = b.session
        PROVE  r \in b.left
    <3>1. PICK a \in ToSet(awaiting) :
                /\ b.session = a.session
                /\ b.left = IF b.session = s THEN begin ELSE a.left
      BY <2>0
    <3>2. r \in begin \/ r \in runs \cup ToSet(dones)
      BY <1>0, <2>0
    <3> QED
      BY <2>0, <2>1, <2>2, <3>1, <3>2 DEF ToldInv, RunInv
  <2>3. ASSUME OnCancelled # {}, NEW b \in ToSet(awaiting'), b.why = "EarlyCleanup", b.left = {}
        PROVE  finals'[b.session] > 0
    <3>1. PICK a \in ToSet(awaiting) :
                /\ b.session = a.session /\ b.why = a.why
                /\ b.left = IF b.session = s THEN begin ELSE a.left
      BY <2>0
    <3>2. b.session # s
      BY <2>0, <2>3, <3>1
    <3> QED
      BY <1>0, <2>3, <3>1, <3>2 DEF ToldInv, RunInv
  <2>4. RunInv'
    BY <1>0, <2>0, <2>1, <2>2, <2>3 DEF ToldInv, RunInv
  <2>5. ASSUME ~Uninterruptible, NEW t \in Sessions, owner[t] \in clean PROVE Over(t)'
    <3>1. Over(t) /\ t # s
      BY <2>0, <2>5 DEF ToldInv, Over
    <3> QED
      BY <1>0, <2>0, <3>1 DEF Over
  <2> QED
    BY <1>0, <2>4, <2>5 DEF ToldInv
<1> QED
  BY <1>1, <1>2, TriggerCleanupIs

\* The entries aw are those of awaiting, but for what they wait for, which gone is taken from.
Deducts(aw, gone) ==
    /\ aw \in Seq(Entries) /\ Updated(aw) /\ Distinct(aw)
    /\ \A b \in ToSet(aw) : \E a \in ToSet(awaiting) :
          /\ b.session = a.session /\ b.why = a.why /\ b.id = a.id
          /\ b.left = a.left \/ (a.left # None /\ b.left = a.left \ gone)
    /\ gone \cap (runs \cup ToSet(dones')) = {}

\* The finish node takes away what has ended, and finalizes the session of the entry that
\* then waits for nothing; no other entry comes to wait for nothing.
LEMMA FinishDeducts ==
    ASSUME Typed, EndInv, RunInv, ExecFinish
    PROVE  /\ IsInjective(dones') /\ ToSet(dones') \subseteq ToSet(dones)
           /\ \E aw, gone :
                 /\ Deducts(aw, gone)
                 /\ \/ Unfinalized(aw) /\ \A b \in ToSet(aw) : b.left = {} => b \in ToSet(awaiting)
                    \/ \E i \in DOMAIN aw :
                          /\ aw[i].left = {} /\ FinalizeSession(i, aw)
                          /\ \A b \in ToSet(aw) :
                                b.session # aw[i].session => b \in ToSet(awaiting)
<1>0. /\ awaiting \in Seq(Entries) /\ dones \in Seq(Runs) /\ Distinct(awaiting)
      /\ IsInjective(dones) /\ runs \cap ToSet(dones) = {} /\ UNCHANGED runs
  BY DEF Typed, TypeOK, CleanTypeOK, Entries, EndInv, OneEach, RunInv, ExecFinish
<1>1. Deducts(awaiting, {})
  BY <1>0, UpdatedSame DEF Deducts
<1>2. CASE FinishCheck \/ FinishNothing
  BY <1>0, <1>1, <1>2 DEF FinishCheck, FinishNothing
<1>3. CASE FinishDone
  <2>1. /\ dones # <<>> /\ dones' = Tail(dones)
        /\ IsInjective(Tail(dones)) /\ ToSet(Tail(dones)) \subseteq ToSet(dones)
        /\ Head(dones) \in ToSet(dones) /\ Head(dones) \notin ToSet(Tail(dones))
    BY <1>0, <1>3, TailSet DEF FinishDone
  <2>2. CASE Unfinalized(awaiting)
    BY <1>1, <2>1, <2>2
  <2>3. ASSUME NEW aw, NEW i, NEW l, Deducted(aw, i, l),
               (l # {} /\ Unfinalized(aw)) \/ (l = {} /\ FinalizeSession(i, aw))
        PROVE  \/ Unfinalized(aw) /\ Deducts(aw, {Head(dones)})
                  /\ \A b \in ToSet(aw) : b.left = {} => b \in ToSet(awaiting)
               \/ \E k \in DOMAIN aw :
                     /\ aw[k].left = {} /\ FinalizeSession(k, aw) /\ Deducts(aw, {Head(dones)})
                     /\ \A b \in ToSet(aw) : b.session # aw[k].session => b \in ToSet(awaiting)
    <3>1. /\ aw \in Seq(Entries) /\ DOMAIN aw = DOMAIN awaiting /\ i \in DOMAIN aw
          /\ DOMAIN aw = 1..Len(aw) /\ DOMAIN awaiting = 1..Len(awaiting)
          /\ \A j \in DOMAIN aw : /\ aw[j].session = awaiting[j].session /\ aw[j].why = awaiting[j].why
                                  /\ aw[j].id = awaiting[j].id
                                  /\ aw[j].left = IF j = i THEN l ELSE awaiting[j].left
      <4>1. i \in DOMAIN awaiting /\ LeftSet(aw, awaiting, i, l)
        BY <2>3 DEF Deducted
      <4>2. aw \in Seq(Entries) /\ DOMAIN aw = DOMAIN awaiting
        BY <4>1 DEF LeftSet
      <4> QED
        BY <1>0, <4>1, <4>2 DEF LeftSet
    <3>2. l = awaiting[i].left \ {Head(dones)} /\ awaiting[i].left # None
      BY <2>3 DEF Deducted
    <3>3. Updated(aw)
      BY <3>1 DEF Updated
    <3>4. Distinct(aw)
      BY <1>0, <3>3, UpdatedDistinct
    <3>5. \A j \in DOMAIN aw : j # i => aw[j] = awaiting[j]
      <4>1. \A j \in DOMAIN aw : aw[j] \in Entries /\ awaiting[j] \in Entries
        <5>1. aw \in Seq(Entries) /\ awaiting \in Seq(Entries) /\ DOMAIN aw = DOMAIN awaiting
          BY <1>0, <3>1
        <5> QED
          BY <5>1
      <4> QED
        BY <3>1, <4>1 DEF Entries
    <3>6. ASSUME NEW b \in ToSet(aw)
          PROVE  \E a \in ToSet(awaiting) :
                    /\ b.session = a.session /\ b.why = a.why /\ b.id = a.id
                    /\ b.left = a.left \/ (a.left # None /\ b.left = a.left \ {Head(dones)})
      <4>1. PICK j \in DOMAIN aw : b = aw[j] /\ awaiting[j] \in ToSet(awaiting)
        BY <3>1 DEF ToSet
      <4> QED
        BY <3>1, <3>2, <4>1
    <3>7. Deducts(aw, {Head(dones)})
      BY <1>0, <2>1, <3>1, <3>3, <3>4, <3>6 DEF Deducts
    <3>8. \A b \in ToSet(aw) : b \in ToSet(awaiting) \/ b = aw[i]
      BY <3>1, <3>5 DEF ToSet
    <3>9. CASE l # {} /\ Unfinalized(aw)
      BY <3>1, <3>7, <3>8, <3>9
    <3>10. CASE l = {} /\ FinalizeSession(i, aw)
      BY <3>1, <3>7, <3>8, <3>10
    <3> QED
      BY <2>3, <3>9, <3>10
  <2> QED
    BY <1>3, <2>1, <2>2, <2>3 DEF FinishDone
<1> QED
  BY <1>2, <1>3, FinishHow

\* The parent is told, and its entries are removed, when all of them wait for nothing;
\* otherwise those that a parent waits for stay.
Tells(aw, p) ==
    /\ p \in Parents /\ parent[p] = "cleaning" /\ clean' = clean \cup {p}
    /\ \A b : b \in ToSet(awaiting') <=> b \in ToSet(aw) /\ owner[b.session] # p
    /\ \A s \in Sessions : owner[s] = p =>
          \E b \in ToSet(aw) : b.session = s /\ b.why = "EarlyCleanup" /\ b.left = {}

KeepsQuiet(aw) ==
    /\ clean' = clean /\ ToSet(awaiting') \subseteq ToSet(aw)
    /\ \A b \in ToSet(aw) : b.why = "EarlyCleanup" => b \in ToSet(awaiting')

LEMMA FinalizeTells ==
    ASSUME Typed, CleanInv, AskInv, closing = {}, NEW aw, NEW gone, Deducts(aw, gone),
           NEW i \in DOMAIN aw, FinalizeSession(i, aw)
    PROVE  KeepsQuiet(aw) \/ (aw[i].why = "EarlyCleanup" /\ Tells(aw, owner[aw[i].session]))
<1> DEFINE a == aw[i]
           p == owner[a.session]
           rest == EntriesKept(i, aw)
           same == {b \in ToSet(rest) : b.id = a.id}
           tell == /\ \E b \in same : b.why = "EarlyCleanup"
                   /\ CleaningFinished(same)
                   /\ \A t \in Sessions : HasPair(t) => owner[t] # p
           leave == {b \in ToSet(rest) : owner[b.session] = p}
<1>1. /\ aw \in Seq(Entries) /\ DOMAIN aw = 1..Len(aw) /\ IsInjective(aw)
      /\ \A b, c \in ToSet(aw) : b.session = c.session => b = c
  BY DEF Deducts, Distinct
<1>2. a \in ToSet(aw)
  BY <1>1 DEF ToSet
<1>3. /\ rest \in Seq(Entries) /\ ToSet(rest) \subseteq ToSet(aw)
      /\ \A b \in ToSet(aw) : b \in ToSet(rest) \/ (b = a /\ a.why # "EarlyCleanup")
      /\ a.why = "EarlyCleanup" => rest = aw
  <2>1. /\ RemoveAt(aw, i) \in Seq(Entries)
        /\ \A b : b \in ToSet(RemoveAt(aw, i)) <=> b \in ToSet(aw) /\ b # a
    BY <1>1, RemoveAtIs, RemoveAtSet
  <2> QED
    BY <1>1, <2>1 DEF EntriesKept
<1>4. /\ awaiting' = IF tell THEN Without(rest, leave) ELSE rest
      /\ clean' = IF tell /\ a.why = "EarlyCleanup" THEN clean \cup {p} ELSE clean
  BY DEF FinalizeSession
<1>5. \A b \in ToSet(aw) : /\ b.session \in Sessions /\ owner[b.session] \in Parents
                           /\ b.id \in {b.session, owner[b.session]}
                           /\ b.why = "EarlyCleanup" => /\ Leaving(b.session)
                                                        /\ b.id = owner[b.session]
  <2>1. ASSUME NEW b \in ToSet(aw)
        PROVE  /\ b.session \in Sessions /\ owner[b.session] \in Parents
               /\ b.id \in {b.session, owner[b.session]}
               /\ b.why = "EarlyCleanup" => Leaving(b.session) /\ b.id = owner[b.session]
    <3>1. PICK c \in ToSet(awaiting) : b.session = c.session /\ b.why = c.why /\ b.id = c.id
      BY DEF Deducts
    <3> QED
      BY <3>1, EntriesTyped DEF CleanInv, OwnIds, Typed, Owned, Leaving
  <2> QED
    BY <2>1
<1>6. \A s \in Sessions : Leaving(s) => \E b \in ToSet(aw) : b.session = s /\ b.why = "EarlyCleanup"
  <2>1. \A c \in ToSet(awaiting) : \E b \in ToSet(aw) : c.session = b.session /\ c.why = b.why
    BY UpdatedWhys DEF Deducts, Typed, TypeOK, CleanTypeOK, Entries
  <2> QED
    BY <2>1 DEF Leaving
<1>7. CASE ~tell
  <2> HIDE DEF rest, tell, a, leave
  <2>1. KeepsQuiet(aw)
    BY <1>3, <1>4, <1>7 DEF KeepsQuiet
  <2> QED
    BY <2>1
<1>8. CASE tell
  <2>1. PICK b \in ToSet(aw) : b.id = a.id /\ b.why = "EarlyCleanup"
    BY <1>3, <1>8
  <2>2. b.id = owner[b.session] /\ b.id \in Parents /\ Awaited(b.session)
    BY <1>5, <2>1 DEF AskInv
  <2>3. a.id = p /\ owner[b.session] = p
    BY <1>2, <1>5, <2>1, <2>2, IdsDiffer
  <2>4. \A s \in Sessions : owner[s] = p => Leaving(s)
    BY <2>2, <2>3 DEF AskInv, Awaited
  <2>5. a.why = "EarlyCleanup"
    <3>1. a.session \in Sessions
      BY <1>2, <1>5
    <3>2. PICK c \in ToSet(aw) : c.session = a.session /\ c.why = "EarlyCleanup"
      BY <1>6, <2>4, <3>1
    <3>3. c = a
      BY <1>1, <1>2, <3>2
    <3> QED
      BY <3>2, <3>3
  <2>6. rest = aw
    BY <1>3, <2>5
  <2>7. clean' = clean \cup {p} /\ awaiting' = Without(aw, leave)
    BY <1>4, <1>8, <2>5, <2>6
  <2>8. \A c : c \in ToSet(awaiting') <=> c \in ToSet(aw) /\ owner[c.session] # p
    <3>1. ToSet(Without(aw, leave)) = ToSet(aw) \ leave
      BY <1>1, WithoutSet
    <3>2. \A c \in ToSet(aw) : c \in leave <=> owner[c.session] = p
      BY <2>6
    <3> HIDE DEF leave, p, a
    <3> QED
      BY <2>7, <3>1, <3>2
  <2>9. \A c \in same : c.left = {}
    BY <1>8 DEF CleaningFinished
  <2>10. ASSUME NEW s \in Sessions, owner[s] = p
         PROVE  \E c \in ToSet(aw) : c.session = s /\ c.why = "EarlyCleanup" /\ c.left = {}
    <3>1. PICK c \in ToSet(aw) : c.session = s /\ c.why = "EarlyCleanup"
      BY <1>6, <2>4, <2>10
    <3>2. c.id = p
      BY <1>5, <2>10, <3>1
    <3>3. c \in same
      BY <2>3, <2>6, <3>2
    <3> QED
      BY <2>9, <3>1, <3>3
  <2>11. Tells(aw, p)
    <3> HIDE DEF p
    <3> QED
      BY <2>2, <2>3, <2>7, <2>8, <2>10 DEF Tells, Awaited
  <2> QED
    BY <2>5, <2>11
<1> QED
  BY <1>7, <1>8

\* Whichever way, those who are left in the list are those whose parents are yet to be told.
LEMMA ExecFinishAsk ==
    ASSUME Typed, EndInv, CleanInv, RunInv, AskInv, ExecFinish
    PROVE  AskInv'
<1>0. /\ UNCHANGED <<status, parent, owner, closing>> /\ closing = {} /\ InputsOK(inputs)
      /\ awaiting \in Seq(Entries)
  BY InputsType DEF ExecFinish, sessionVars, Pop, QueueRuns, Running, Typed, TypeOK, CleanTypeOK, Entries
<1>1. PICK aw, gone :
        /\ Deducts(aw, gone)
        /\ Unfinalized(aw) \/ \E i \in DOMAIN aw : FinalizeSession(i, aw)
  BY FinishDeducts
<1>2. /\ \A a \in ToSet(aw) : \E b \in ToSet(awaiting) : b.session = a.session /\ b.why = a.why
      /\ \A b \in ToSet(awaiting) : \E a \in ToSet(aw) : b.session = a.session /\ b.why = a.why
  BY <1>0, <1>1, UpdatedWhys DEF Deducts
<1>3. inputs'["scope"] = inputs["scope"]
  <2>1. DOMAIN inputs = Nodes /\ "scope" \in Nodes
    BY <1>0 DEF InputsOK, Nodes
  <2>2. UNCHANGED inputs \/ \E u : inputs' = [inputs EXCEPT !["terminal"] = u]
    BY <1>1 DEF Unfinalized, FinalizeSession, nodeVars
  <2> QED
    BY <2>1, <2>2
<1>4. CASE \/ Unfinalized(aw)
           \/ \E i \in DOMAIN aw : FinalizeSession(i, aw) /\ KeepsQuiet(aw)
  <2>1. KeepsQuiet(aw)
    BY <1>4 DEF Unfinalized, KeepsQuiet
  <2>2. \A s \in Sessions : Leaving(s)' <=> Leaving(s)
    BY <1>0, <1>2, <2>1 DEF KeepsQuiet, Leaving
  <2>3. Silent
    BY <1>0, <1>3, <2>1, <2>2 DEF Silent, KeepsQuiet
  <2> QED
    BY <2>3, SilentKept
<1>5. ASSUME NEW p, Tells(aw, p) PROVE AskInv'
  <2>1. ASSUME NEW s \in Sessions PROVE Leaving(s)' <=> Awaited(s)'
    <3>1. Leaving(s)' <=> \E b \in ToSet(awaiting') : b.session = s /\ b.why = "EarlyCleanup"
      BY <1>0 DEF Leaving
    <3>2. Leaving(s) <=> \E b \in ToSet(aw) : b.session = s /\ b.why = "EarlyCleanup"
      BY <1>0, <1>2 DEF Leaving
    <3>3. Leaving(s)' <=> Leaving(s) /\ owner[s] # p
      BY <1>5, <3>1, <3>2 DEF Tells
    <3>4. Awaited(s)' <=> Awaited(s) /\ owner[s] # p
      BY <1>0, <1>5 DEF Tells, Awaited
    <3> QED
      BY <3>3, <3>4 DEF AskInv
  <2>2. \A q \in clean' : parent'[q] = "cleaning"
    BY <1>0, <1>5 DEF AskInv, Tells
  <2> QED
    BY <1>0, <1>3, <2>1, <2>2 DEF AskInv, Single
<1> QED
  BY <1>0, <1>1, <1>4, <1>5, FinalizeTells

LEMMA ExecFinishTold ==
    ASSUME Typed, EndInv, CleanInv, AskInv, ToldInv, ExecFinish
    PROVE  ToldInv'
<1>0. /\ UNCHANGED <<owner, runs, begun>> /\ closing = {} /\ finals \in [Sessions -> Nat]
      /\ awaiting \in Seq(Entries) /\ begun \in [Sessions -> Nat] /\ clean \subseteq Parents
  BY DEF ExecFinish, sessionVars, Pop, QueueRuns, Running, Typed, TypeOK, CleanTypeOK, Entries
<1>1. IsInjective(dones') /\ ToSet(dones') \subseteq ToSet(dones)
  BY FinishDeducts DEF ToldInv
<1>2. PICK aw, gone :
        /\ Deducts(aw, gone)
        /\ \/ Unfinalized(aw) /\ \A b \in ToSet(aw) : b.left = {} => b \in ToSet(awaiting)
           \/ \E i \in DOMAIN aw :
                 /\ aw[i].left = {} /\ FinalizeSession(i, aw)
                 /\ \A b \in ToSet(aw) : b.session # aw[i].session => b \in ToSet(awaiting)
  BY FinishDeducts DEF ToldInv
<1>3. \A b \in ToSet(aw) : \A r \in runs \cup ToSet(dones') : r.session = b.session => r \in b.left
  <2> SUFFICES ASSUME NEW b \in ToSet(aw), NEW r \in runs \cup ToSet(dones'), r.session = b.session
               PROVE  r \in b.left
    OBVIOUS
  <2>1. PICK a \in ToSet(awaiting) :
            b.session = a.session /\ (b.left = a.left \/ b.left = a.left \ gone)
    BY <1>2 DEF Deducts
  <2>2. r \in a.left /\ r \notin gone
    BY <1>1, <1>2, <2>1 DEF ToldInv, RunInv, Deducts
  <2> QED
    BY <2>1, <2>2
<1>4. CASE Unfinalized(aw) /\ \A b \in ToSet(aw) : b.left = {} => b \in ToSet(awaiting)
  <2>1. awaiting' = aw /\ UNCHANGED <<clean, finals>>
    BY <1>4 DEF Unfinalized
  <2>2. RunInv'
    BY <1>0, <1>1, <1>3, <1>4, <2>1 DEF ToldInv, RunInv
  <2> QED
    BY <1>0, <1>1, <2>1, <2>2 DEF ToldInv, Over
<1>5. ASSUME NEW i \in DOMAIN aw, aw[i].left = {}, FinalizeSession(i, aw),
             \A b \in ToSet(aw) : b.session # aw[i].session => b \in ToSet(awaiting)
      PROVE  ToldInv'
  <2>1. PICK s \in Sessions : s = aw[i].session /\ aw[i] \in ToSet(aw)
    <3>1. aw \in Seq(Entries)
      BY <1>2 DEF Deducts
    <3>2. aw[i] \in Entries
      BY <1>5, <3>1
    <3> QED
      BY <1>5, <3>1, <3>2 DEF Entries, ToSet
  <2>2. finals'[s] > 0 /\ \A t \in Sessions \ {s} : finals'[t] = finals[t]
    <3>1. finals' = [finals EXCEPT ![s] = @ + 1]
      BY <1>5, <2>1 DEF FinalizeSession
    <3> QED
      BY <1>0, <3>1
  <2>3. KeepsQuiet(aw) \/ Tells(aw, owner[s])
    BY <1>0, <1>2, <1>5, <2>1, FinalizeTells
  <2>4. ToSet(awaiting') \subseteq ToSet(aw)
    BY <2>3 DEF KeepsQuiet, Tells
  <2>5. ASSUME OnCancelled # {}, NEW b \in ToSet(aw), b.why = "EarlyCleanup", b.left = {}
        PROVE  finals'[b.session] > 0
    <3>1. b.session \in Sessions
      <4>1. aw \in Seq(Entries)
        BY <1>2 DEF Deducts
      <4>2. b \in Entries
        BY <4>1 DEF ToSet
      <4> QED
        BY <4>2 DEF Entries
    <3>2. CASE b.session # s
      BY <1>5, <2>1, <2>2, <2>5, <3>1, <3>2 DEF ToldInv, RunInv
    <3> QED
      BY <2>2, <3>2
  <2>6. RunInv'
    BY <1>0, <1>1, <1>3, <2>4, <2>5 DEF ToldInv, RunInv
  <2>7. ASSUME ~Uninterruptible, NEW t \in Sessions, owner[t] \in clean PROVE Over(t)'
    BY <1>0, <1>1, <2>2, <2>7 DEF ToldInv, Over
  <2>8. ASSUME ~Uninterruptible, Tells(aw, owner[s]), NEW t \in Sessions, owner[t] = owner[s]
        PROVE  Over(t)'
    <3>1. PICK b \in ToSet(aw) : b.session = t /\ b.why = "EarlyCleanup" /\ b.left = {}
      BY <2>8 DEF Tells
    <3>2. \A r \in runs' \cup ToSet(dones') : r.session # t
      BY <1>0, <1>3, <3>1
    <3>3. begun'[t] > 0
      <4>1. \E a \in ToSet(awaiting) : a.session = t /\ a.left # None
        BY <1>2, <3>1, NoneIsNoSet DEF Deducts
      <4> QED
        BY <1>0, <4>1 DEF EndInv, Entry
    <3>4. ASSUME OnCancelled # {} \/ MaxPerParent <= 1 PROVE finals'[t] > 0
      <4>1. CASE OnCancelled # {}
        BY <2>5, <3>1, <4>1
      <4>2. CASE MaxPerParent <= 1
        BY <2>2, <2>8, <4>2 DEF AskInv, Single, Tells
      <4> QED
        BY <3>4, <4>1, <4>2
    <3> QED
      BY <3>2, <3>3, <3>4 DEF Over
  <2> QED
    BY <1>0, <2>3, <2>6, <2>7, <2>8 DEF ToldInv, KeepsQuiet, Tells
<1> QED
  BY <1>2, <1>4, <1>5

LEMMA StepTold ==
    ASSUME EarlyCleanup # "any time", Typed, EndInv, CleanInv, AskInv, ToldInv, [Next]_vars
    PROVE  AskInv' /\ ToldInv'
<1>1. CASE ExecScope
  BY <1>1, ExecScopeAsk, ExecScopeTold
<1>2. CASE ExecFinish
  BY <1>2, ExecFinishAsk, ExecFinishTold DEF ToldInv
<1>3. ASSUME NEW p \in Parents, OuterInput(p) \/ OuterCleanup(p) PROVE AskInv' /\ ToldInv'
  BY <1>3, OuterInputAsk, RestingSteps, RestingKept, OuterCleanupAsk, OuterCleanupTold
<1>4. CASE CleanSession \/ TriggerCleanup \/ HandleCancel \/ Validate \/ ExecTerminal
  BY <1>4, CleanSessionSilent, TriggerCleanupSilent, ClosersSilent, SilentKept,
     CleanSessionTold, TriggerCleanupTold, RestingSteps, RestingKept
<1>5. CASE \E r \in runs : CleanupWorkflowDone(r) \/ CleanupWorkflowCancelled(r)
  BY <1>5, InsideSilent, SilentKept, CleanupWorkflowTold
<1>6. CASE \/ PopNothing \/ ExecAsync \/ CollectDeferred \/ OtherOperation
           \/ \E toFilter, toAsync \in BOOLEAN, n \in 0..MaxOutputs : ExecFork(toFilter, toAsync, n)
           \/ \E pass \in BOOLEAN : ExecFilter(pass)
           \/ \E T \in SUBSET Sessions : Collect(T)
           \/ \E s \in Sessions : CollectTask(s) \/ TaskDone(s) \/ SupplantTask(s)
           \/ \E p \in Parents : OuterStop(p)
           \/ UNCHANGED vars
  <2>1. Silent
    BY <1>6, InsideSilent
  <2>2. Resting
    BY <1>6, RestingSteps
  <2> QED
    BY <2>1, <2>2, SilentKept, RestingKept
<1>7. {s \in Sessions : arriving[s] # NoItem} \in SUBSET Sessions
  OBVIOUS
<1> QED
  BY <1>1, <1>2, <1>3, <1>4, <1>5, <1>6, <1>7 DEF Next, FlushStep

\* Everything the scope keeps, unless it is asked to clean up for sessions that have ended.
ScopeInv == Typed /\ EndInv /\ CleanInv /\ AskInv /\ ToldInv

LEMMA ScopeInvariant ==
    ASSUME EarlyCleanup # "any time"
    PROVE  Spec => []ScopeInv
<1>1. Init => ScopeInv
  BY InitTyped, InitOwned, InitEnd, InitClean, InitAsk, InitTold DEF ScopeInv, Typed
<1>2. ScopeInv /\ [Next]_vars => ScopeInv'
  BY StepTyped, StepEnd, StepClean, StepTold DEF ScopeInv
<1> QED
  BY <1>1, <1>2, PTL DEF Spec

\* Nothing runs any more of a session that is over.
LEMMA OverIsWoundDown ==
    ASSUME ScopeInv, NEW s \in Sessions, Over(s)
    PROVE  WoundDown(s)
<1>1. status[s] = "dropped"
  BY DEF ScopeInv, CleanInv, Dropped, Over
<1>2. Work(s) /\ begun[s] > 0
  BY DEF ScopeInv, EndInv, Over
<1> QED
  BY <1>1, <1>2 DEF WoundDown, Work, Enters, Over

\* The outer workflow is told that the scope is clean for a parent only when all its
\* sessions, of which there may be several, are over in whatever order they end, if it asks
\* while they are open (OperateScope::cleanup, finalize_scoped_session).
THEOREM ToldWhenFinished ==
    ASSUME Modest
    PROVE  Spec => []ToldWhenAllFinished
<1>1. EarlyCleanup # "any time"
  BY DEF Modest
<1>2. ScopeInv => ToldWhenAllFinished
  <2> SUFFICES ASSUME ScopeInv, NEW p \in clean, NEW s \in Sessions, owner[s] = p
               PROVE  WoundDown(s) /\ (OnCancelled # {} => finals[s] > 0)
    BY DEF ToldWhenAllFinished
  <2>1. p \in Parents /\ parent[p] = "cleaning"
    BY DEF ScopeInv, AskInv, Typed, TypeOK
  <2>2. ~Uninterruptible
    BY <2>1 DEF Modest, ScopeInv, AskInv
  <2>3. Over(s)
    BY <2>2 DEF ScopeInv, ToldInv
  <2> QED
    BY <2>3, OverIsWoundDown DEF Over
<1> QED
  BY <1>1, <1>2, ScopeInvariant, PTL

\* What finalizing a session does to what the outer workflow sees.
Finalized(s, told) ==
    /\ finals' = [finals EXCEPT ![s] = @ + 1] /\ finals[s] = 0 /\ begun[s] > 0
    /\ \/ report' = [report EXCEPT ![s] = Append(@, "cancelled")]
       \/ report' = [report EXCEPT ![s] = Append(@, "response")]
       \/ report' = [report EXCEPT ![s] = @]
    /\ told \subseteq {owner[s]} /\ clean' = clean \cup told
    /\ told # {} => parent[owner[s]] = "cleaning"

LEMMA ExecFinishIs ==
    ASSUME Typed, EndInv, CleanInv, AskInv, RunInv, ExecFinish
    PROVE  /\ UNCHANGED <<status, parent, owner, closing>> /\ inputs'["scope"] = inputs["scope"]
           /\ \A a \in ToSet(awaiting') :
                 \E b \in ToSet(awaiting) : b.session = a.session /\ b.why = a.why
           /\ \/ UNCHANGED <<clean, finals, report>>
              \/ \E s \in Sessions, told \in SUBSET Parents : Finalized(s, told)
<1>0. /\ awaiting \in Seq(Entries) /\ InputsOK(inputs)
  BY InputsType DEF Typed, TypeOK, CleanTypeOK, Entries
<1>1. PICK aw : /\ Trimmed(aw)
                /\ Unfinalized(aw) \/ \E i : Ready(aw, i) /\ FinalizeSession(i, aw)
  BY FinishWhat
<1>2. UNCHANGED <<status, parent, owner, closing>>
  BY DEF ExecFinish, sessionVars
<1>3. Updated(aw) /\ aw \in Seq(Entries)
  BY <1>1 DEF Trimmed, Updated
<1>4. \A a \in ToSet(aw) : \E b \in ToSet(awaiting) : b.session = a.session /\ b.why = a.why
  BY <1>0, <1>3, UpdatedWhys
<1>5. CASE Unfinalized(aw)
  BY <1>2, <1>4, <1>5 DEF Unfinalized, nodeVars
<1>6. ASSUME NEW i, Ready(aw, i), FinalizeSession(i, aw)
      PROVE  /\ inputs'["scope"] = inputs["scope"] /\ ToSet(awaiting') \subseteq ToSet(aw)
             /\ \E s \in Sessions, told \in SUBSET Parents : Finalized(s, told)
  <2>1. i \in DOMAIN aw /\ aw[i] \in Entries /\ aw[i] \in ToSet(aw)
    BY <1>3, <1>6 DEF Ready, ToSet
  <2>2. PICK s \in Sessions : s = aw[i].session
    BY <2>1 DEF Entries
  <2>3. PICK b \in ToSet(awaiting) : b.session = s /\ b.why = aw[i].why
    BY <1>4, <2>1, <2>2
  <2>4. owner[s] \in Parents
    BY <2>3 DEF Typed, Owned
  <2>5. ToSet(awaiting') \subseteq ToSet(aw)
    BY <1>3, <1>6, <2>1, <2>2, <2>4, FinalizeTyped DEF Typed
  <2>6. inputs'["scope"] = inputs["scope"]
    <3>1. DOMAIN inputs = Nodes /\ "scope" \in Nodes
      BY <1>0 DEF InputsOK, Nodes
    <3>2. UNCHANGED inputs \/ inputs' = [inputs EXCEPT !["terminal"] = Without(@, {s})]
      BY <1>6, <2>2 DEF FinalizeSession
    <3> QED
      BY <3>1, <3>2
  <2>7. PICK told \in SUBSET {owner[s]} : /\ clean' = clean \cup told
                                          /\ told # {} => aw[i].why = "EarlyCleanup"
    <3>1. clean' = clean \/ (clean' = clean \cup {owner[s]} /\ aw[i].why = "EarlyCleanup")
      BY <1>6, <2>2 DEF FinalizeSession
    <3>2. {} \in SUBSET {owner[s]} /\ {owner[s]} \in SUBSET {owner[s]} /\ clean = clean \cup {}
      OBVIOUS
    <3> QED
      BY <3>1, <3>2
  <2>8. told # {} => parent[owner[s]] = "cleaning"
    BY <2>2, <2>3, <2>7 DEF AskInv, Awaited, Leaving
  <2>9. /\ finals' = [finals EXCEPT ![s] = @ + 1] /\ finals[s] = 0 /\ begun[s] > 0
        /\ \/ report' = [report EXCEPT ![s] = Append(@, "cancelled")]
           \/ report' = [report EXCEPT ![s] = Append(@, "response")]
           \/ report' = [report EXCEPT ![s] = @]
    BY <1>6, <2>2 DEF FinalizeSession, Ready
  <2>10. Finalized(s, told)
    BY <2>7, <2>8, <2>9 DEF Finalized
  <2> QED
    BY <2>4, <2>5, <2>6, <2>7, <2>10
<1> QED
  BY <1>1, <1>2, <1>4, <1>5, <1>6


-----------------------------------------------------------------------------
(* The scope keeps the contract of ScopeContract *)

ContractStep == [Contract!Next]_(Contract!vars)

LEMMA ContractVars ==
    /\ Contract!vars = <<Life, owner, Reported, clean>>
    /\ Contract!vars' = <<Life', owner', Reported', clean'>>
BY DEF Contract!vars

\* A session that is finalized was closed; an open one has sent nothing up.
LEMMA LifeIs ==
    ASSUME Typed, EndInv, NEW s \in Sessions
    PROVE  /\ status[s] = "unborn" => Life[s] = "unborn"
           /\ status[s] \in {"Ongoing", "DeferredCleanup"} => Life[s] = "open"
           /\ begun[s] > 0 /\ finals[s] = 0 => Life[s] = "closing" /\ report[s] = <<>>
           /\ finals[s] > 0 <=> Life[s] = "finished"
           /\ ~Open(s) /\ finals[s] = 0 => Life[s] = "closing"
           /\ Open(s) => finals[s] = 0
<1>1. Life[s] = IF status[s] = "unborn" THEN "unborn"
                ELSE IF finals[s] > 0 THEN "finished"
                ELSE IF status[s] \in {"Ongoing", "DeferredCleanup"} THEN "open"
                ELSE "closing"
  BY DEF Life
<1>2. /\ begun[s] \in Nat /\ finals[s] \in Nat /\ report[s] \in Seq({"response", "cancelled"})
  BY DEF Typed, TypeOK
<1>3. Stage(s)
  BY DEF EndInv
<1>4. Open(s) => begun[s] = 0 /\ finals[s] = 0
  BY <1>3 DEF Stage
<1>5. finals[s] = 0 => report[s] = <<>>
  <2>1. Len(report[s]) <= finals[s] /\ Len(report[s]) \in Nat
    BY <1>2, <1>3 DEF Stage
  <2> QED
    BY <1>2, <2>1
<1> QED
  BY <1>1, <1>2, <1>4, <1>5 DEF Open

LEMMA AsStutter ==
    ASSUME UNCHANGED <<owner, report, clean>>, \A s \in Sessions : Life'[s] = Life[s]
    PROVE  ContractStep
<1>1. Life' = Life /\ Reported' = Reported
  BY DEF Life, Reported
<1> QED
  BY <1>1, ContractVars DEF ContractStep

LEMMA AsClose ==
    ASSUME NEW S \in SUBSET Sessions, \A s \in S : Life[s] = "open",
           UNCHANGED <<owner, report, clean>>,
           \A s \in Sessions : Life'[s] = IF s \in S THEN "closing" ELSE Life[s]
    PROVE  ContractStep
<1>1. Life' = [s \in Sessions |-> IF s \in S THEN "closing" ELSE Life[s]] /\ Reported' = Reported
  BY DEF Life, Reported
<1>2. Contract!Close(S)
  BY <1>1 DEF Contract!Close
<1> QED
  BY <1>2 DEF ContractStep, Contract!Next

\* Sessions that were open are closed, whatever for.
LEMMA CloseContract ==
    ASSUME Typed, EndInv, EndInv', NEW S \in SUBSET Sessions, NEW st, NEW id, NEW why,
           st \in {"Terminated", "Cleanup", "Cancelled"},
           \A s \in S : status[s] \in {"Ongoing", "DeferredCleanup"},
           Close(S, st, id, why), UNCHANGED <<owner, report, clean, finals>>
    PROVE  ContractStep
<1>1. \A s \in Sessions : status'[s] = IF s \in S THEN st ELSE status[s]
  BY DEF Close
<1>2. \A s \in S : Life[s] = "open" /\ finals[s] = 0
  BY LifeIs DEF Open
<1>3. \A s \in Sessions : Life'[s] = IF s \in S THEN "closing" ELSE Life[s]
  BY <1>1, <1>2 DEF Life
<1> QED
  BY <1>2, <1>3, AsClose

LEMMA ClosersContract ==
    ASSUME Typed, EndInv, EndInv', HandleCancel \/ Validate \/ ExecTerminal
    PROVE  ContractStep
<1>1. UNCHANGED <<owner, report, clean, finals>>
  BY DEF HandleCancel, Validate, ExecTerminal, historyVars
<1>2. \/ UNCHANGED status
      \/ \E S \in SUBSET Sessions, st \in {"Terminated", "Cleanup", "Cancelled"} : \E id, why :
            /\ \A s \in S : status[s] \in {"Ongoing", "DeferredCleanup"}
            /\ Close(S, st, id, why)
  <2>1. CASE HandleCancel
    <3>1. PICK x : Close({s \in Sessions : CanCancel(s) /\ x \in {s, owner[s], All}}, "Cancelled",
                         [s \in Sessions |-> CancelId(x, s)], "Cancelled")
      BY <2>1 DEF HandleCancel
    <3> DEFINE S == {s \in Sessions : CanCancel(s) /\ x \in {s, owner[s], All}}
    <3>2. S \in SUBSET Sessions /\ \A s \in S : status[s] \in {"Ongoing", "DeferredCleanup"}
      BY DEF CanCancel
    <3> HIDE DEF S
    <3> QED
      BY <3>1, <3>2 DEF S
  <2>2. CASE Validate
    <3>1. PICK s : Close({t \in {s} : ~Reachable(t) /\ CanCancel(t)}, "Cancelled",
                         [t \in Sessions |-> t], "Cancelled") /\ s = Last(disposed) /\ disposed # <<>>
      BY <2>2 DEF Validate
    <3> DEFINE S == {t \in {s} : ~Reachable(t) /\ CanCancel(t)}
    <3>2. s \in Sessions
      <4>1. disposed \in Seq(Sessions)
        BY DEF Typed, TypeOK, RosterTypeOK
      <4> QED
        BY <3>1, <4>1 DEF Last
    <3>3. S \in SUBSET Sessions /\ \A t \in S : status[t] \in {"Ongoing", "DeferredCleanup"}
      BY <3>2 DEF CanCancel
    <3> HIDE DEF S
    <3> QED
      BY <3>1, <3>3 DEF S
  <2>3. CASE ExecTerminal
    <3>1. PICK s : /\ s = Head(inputs["terminal"]) /\ inputs["terminal"] # <<>>
                   /\ \/ /\ status[s] = "Ongoing"
                         /\ Close({s}, "Terminated", [t \in Sessions |-> t], "Terminated")
                      \/ /\ status[s] = "DeferredCleanup"
                         /\ Close({s}, "Cleanup", [t \in Sessions |-> t], "Terminated")
                      \/ UNCHANGED status
      BY <2>3 DEF ExecTerminal
    <3>2. {s} \in SUBSET Sessions
      <4>1. inputs["terminal"] \in Seq(Sessions)
        BY DEF Typed, TypeOK, NodeTypeOK
      <4> QED
        BY <3>1, <4>1
    <3>3. (\A t \in {s} : status[t] \in {"Ongoing", "DeferredCleanup"})
            <=> status[s] \in {"Ongoing", "DeferredCleanup"}
      OBVIOUS
    <3> QED
      BY <3>1, <3>2, <3>3
  <2> QED
    BY <2>1, <2>2, <2>3
<1>3. CASE UNCHANGED status
  BY <1>1, <1>3, AsStutter DEF Life
<1> QED
  BY <1>1, <1>2, <1>3, CloseContract

\* A session that is cleaned is not open, so that its life goes on.
LEMMA TriggerCleanupContract ==
    ASSUME Typed, EndInv, TriggerCleanup
    PROVE  ContractStep
<1>1. finished \in Seq([session : Sessions, id : CleanupIds]) /\ finished # <<>>
  BY DEF TriggerCleanup, Typed, TypeOK, RosterTypeOK
<1>2. PICK s \in Sessions : s = Last(finished).session /\ Has(finished, s)
  <2>1. Last(finished) \in ToSet(finished) /\ Last(finished) \in [session : Sessions, id : CleanupIds]
    <3>1. Len(finished) \in DOMAIN finished /\ Last(finished) = finished[Len(finished)]
          /\ Last(finished) \in [session : Sessions, id : CleanupIds]
      BY <1>1, LastFront
    <3>2. DOMAIN finished = 1..Len(finished)
      BY <1>1
    <3> QED
      BY <3>1, <3>2 DEF ToSet
  <2> QED
    BY <2>1 DEF Has
<1>3. /\ status' = [status EXCEPT ![s] = IF HasPair(s) THEN "dropped" ELSE @]
      /\ UNCHANGED <<owner, report, clean, finals>>
  BY <1>2 DEF TriggerCleanup
<1>4. ~Open(s)
  BY <1>2 DEF EndInv, Stage
<1>5. status \in [Sessions -> Status]
  BY DEF Typed, TypeOK, SessionTypeOK
<1>6. \A t \in Sessions : Life'[t] = Life[t]
  <2>1. \A t \in Sessions \ {s} : status'[t] = status[t]
    BY <1>3, <1>5
  <2>2. status'[s] \notin {"unborn", "Ongoing", "DeferredCleanup"}
    BY <1>3, <1>4, <1>5 DEF Open
  <2> QED
    BY <1>3, <1>4, <2>1, <2>2 DEF Life, Open
<1> QED
  BY <1>3, <1>6, AsStutter

LEMMA ExecScopeContract ==
    ASSUME Typed, EndInv, AskInv, ExecScope
    PROVE  ContractStep
<1>0. /\ UNCHANGED <<clean, report, finals>> /\ inputs["scope"] \in Seq(Parents)
      /\ owner \in [Sessions -> Parents \cup {None}] /\ status \in [Sessions -> Status]
  BY DEF ExecScope, historyVars, Typed, TypeOK, NodeTypeOK, SessionTypeOK
<1>1. CASE inputs["scope"] = <<>>
  <2>1. UNCHANGED <<status, owner>>
    BY <1>1 DEF ExecScope
  <2> QED
    BY <1>0, <2>1, AsStutter DEF Life
<1>2. CASE inputs["scope"] # <<>>
  <2> DEFINE p == Head(inputs["scope"])
  <2>1. p \in Parents /\ p \in ToSet(inputs["scope"])
    BY <1>0, <1>2, TailSet
  <2>2. PICK s \in Sessions :
            /\ status[s] = "unborn" /\ status' = [status EXCEPT ![s] = "Ongoing"]
            /\ owner' = [owner EXCEPT ![s] = p]
    BY <1>2 DEF ExecScope
  <2> HIDE DEF p
  <2>3. p \notin clean
    BY <2>1 DEF AskInv
  <2>4. Life[s] = "unborn" /\ finals[s] = 0
    BY <2>2, LifeIs DEF Open
  <2>5. Life' = [Life EXCEPT ![s] = "open"] /\ Reported' = Reported
    <3>1. \A t \in Sessions : Life'[t] = IF t = s THEN "open" ELSE Life[t]
      BY <1>0, <2>2, <2>4 DEF Life
    <3> QED
      BY <1>0, <3>1 DEF Life, Reported
  <2>6. Contract!Begin(s, p)
    BY <1>0, <2>2, <2>3, <2>4, <2>5 DEF Contract!Begin
  <2> QED
    BY <2>1, <2>6 DEF ContractStep, Contract!Next
<1> QED
  BY <1>1, <1>2

\* All sessions of the one who is told are finalized.
LEMMA ExecFinishContract ==
    ASSUME Modest, OnCancelled # {} \/ MaxPerParent <= 1,
           Typed, EndInv, CleanInv, AskInv, ToldInv, AskInv', ToldInv', ExecFinish
    PROVE  ContractStep
<1>0. /\ finals \in [Sessions -> Nat] /\ report \in [Sessions -> Seq({"response", "cancelled"})]
      /\ UNCHANGED <<status, owner>>
  <2>1. UNCHANGED <<status, owner>>
    BY DEF ExecFinish, sessionVars
  <2> QED
    BY <2>1 DEF Typed, TypeOK
<1>1. CASE UNCHANGED <<clean, finals, report>>
  BY <1>0, <1>1, AsStutter DEF Life
<1>2. ASSUME NEW s \in Sessions, NEW told \in SUBSET Parents, Finalized(s, told) PROVE ContractStep
  <2>1. Life[s] = "closing" /\ report[s] = <<>> /\ status[s] # "unborn"
    BY <1>2, LifeIs DEF Finalized, Life
  <2>2. finals'[s] = 1 /\ \A t \in Sessions \ {s} : finals'[t] = finals[t]
    BY <1>0, <1>2 DEF Finalized
  <2>3. Life' = [Life EXCEPT ![s] = "finished"]
    <3>1. \A t \in Sessions : Life'[t] = IF t = s THEN "finished" ELSE Life[t]
      BY <1>0, <2>1, <2>2 DEF Life
    <3> QED
      BY <3>1 DEF Life
  <2>4. PICK r \in {"response", "cancelled", "none"} : Reported' = [Reported EXCEPT ![s] = r]
    <3>1. PICK r \in {"response", "cancelled", "none"} :
             /\ \A t \in Sessions \ {s} : report'[t] = report[t]
             /\ report'[s] = IF r = "none" THEN <<>> ELSE <<r>>
      <4>1. Append(<<>>, "cancelled") = <<"cancelled">> /\ Append(<<>>, "response") = <<"response">>
        OBVIOUS
      <4> QED
        BY <1>0, <1>2, <2>1, <4>1 DEF Finalized
    <3>2. \A t \in Sessions : Reported'[t] = IF t = s THEN r ELSE Reported[t]
      BY <3>1 DEF Reported, Last
    <3> QED
      BY <3>2 DEF Reported
  <2>5. Reported[s] = "none"
    BY <2>1 DEF Reported
  <2>6. told \subseteq {owner[s]} /\ clean' = clean \cup told
    BY <1>2 DEF Finalized
  <2>7. \A t \in Sessions : owner[t] \in told => finals'[t] > 0 /\ status[t] # "unborn"
    <3> SUFFICES ASSUME NEW t \in Sessions, owner[t] \in told
                 PROVE  finals'[t] > 0 /\ status[t] # "unborn"
      OBVIOUS
    <3>1. owner'[t] \in clean' /\ owner[t] \in Parents
      BY <1>0, <2>6
    <3>2. ~Uninterruptible
      <4>1. parent'[owner'[t]] = "cleaning"
        BY <3>1 DEF AskInv
      <4>2. EarlyCleanup # "never"
        BY <1>0, <3>1, <4>1 DEF AskInv
      <4> QED
        BY <4>2 DEF Modest
    <3>3. finals'[t] > 0
      BY <3>1, <3>2 DEF ToldInv, Over
    <3>4. owner[t] # None
      BY <3>1, ScopeAssumption
    <3> QED
      BY <3>3, <3>4 DEF AskInv
  <2>8. \A t \in Sessions : owner[t] \in told => Life'[t] = "finished"
    BY <1>0, <2>7 DEF Life
  <2>9. Contract!Finish(s, r, told)
    BY <1>0, <2>1, <2>3, <2>4, <2>5, <2>6, <2>8 DEF Contract!Finish
  <2> QED
    BY <2>4, <2>9 DEF ContractStep, Contract!Next
<1>3. UNCHANGED <<clean, finals, report>> \/ \E s \in Sessions, told \in SUBSET Parents : Finalized(s, told)
  <2>1. RunInv
    BY DEF ToldInv
  <2> QED
    BY <2>1, ExecFinishIs
<1> QED
  BY <1>1, <1>2, <1>3

LEMMA InitContract == Init => Contract!Init
<1> SUFFICES ASSUME Init PROVE Contract!Init
  OBVIOUS
<1>1. Life = [s \in Sessions |-> "unborn"]
  BY DEF Init, Life
<1>2. Reported = [s \in Sessions |-> "none"]
  BY DEF Init, Reported
<1> QED
  BY <1>1, <1>2 DEF Init, Contract!Init

LEMMA StepContract ==
    ASSUME Modest, OnCancelled # {} \/ MaxPerParent <= 1, ScopeInv, ScopeInv', [Next]_vars
    PROVE  ContractStep
<1>0. /\ Typed /\ EndInv /\ CleanInv /\ AskInv /\ ToldInv
      /\ EndInv' /\ AskInv' /\ ToldInv' /\ EarlyCleanup # "any time"
  BY DEF ScopeInv, Modest
<1>1. CASE ExecScope
  BY <1>0, <1>1, ExecScopeContract
<1>2. CASE ExecFinish
  BY <1>0, <1>2, ExecFinishContract
<1>3. CASE HandleCancel \/ Validate \/ ExecTerminal
  BY <1>0, <1>3, ClosersContract
<1>4. CASE TriggerCleanup
  BY <1>0, <1>4, TriggerCleanupContract
<1>5. ASSUME NEW p \in Parents, OuterCleanup(p) PROVE ContractStep
  <2>1. /\ UNCHANGED <<owner, finals, report>> /\ parent[p] = "active"
        /\ parent' = [parent EXCEPT ![p] = "cleaning"]
        /\ \A s \in Sessions : owner[s] = p => status[s] = "Ongoing"
        /\ Deferring(p) \/ ClosesFor(p)
    BY <1>0, <1>5, OuterCleanupIs
  <2>2. ClosesFor(p)
    <3>1. EarlyCleanup # "never"
      BY <1>5 DEF OuterCleanup
    <3>2. ~Uninterruptible
      BY <3>1 DEF Modest
    <3> QED
      BY <2>1, <3>2 DEF Deferring
  <2>3. PICK S \in SUBSET Sessions :
          /\ \A s \in S : owner[s] = p /\ status[s] = "Ongoing"
          /\ Close(S, "Cleanup", [s \in Sessions |-> p], "EarlyCleanup")
          /\ clean' = clean
    BY <2>1, <2>2 DEF ClosesFor
  <2>4. \A s \in S : status[s] \in {"Ongoing", "DeferredCleanup"}
    BY <2>3
  <2>5. UNCHANGED <<owner, report, clean, finals>>
    BY <2>1, <2>3
  <2>6. Typed /\ EndInv /\ EndInv'
    BY <1>0
  <2> DEFINE id == [s \in Sessions |-> p]
  <2>7. Close(S, "Cleanup", id, "EarlyCleanup")
    BY <2>3
  <2> HIDE DEF id
  <2>8. "Cleanup" \in {"Terminated", "Cleanup", "Cancelled"}
    OBVIOUS
  <2> QED
    BY <2>4, <2>5, <2>6, <2>7, <2>8, CloseContract
<1>6. CASE \/ CleanSession \/ PopNothing \/ ExecAsync \/ CollectDeferred \/ OtherOperation
           \/ \E toFilter, toAsync \in BOOLEAN, n \in 0..MaxOutputs : ExecFork(toFilter, toAsync, n)
           \/ \E pass \in BOOLEAN : ExecFilter(pass)
           \/ \E T \in SUBSET Sessions : Collect(T)
           \/ \E s \in Sessions : CollectTask(s) \/ TaskDone(s) \/ SupplantTask(s)
           \/ \E r \in runs : CleanupWorkflowDone(r) \/ CleanupWorkflowCancelled(r)
           \/ \E p \in Parents : OuterInput(p) \/ OuterStop(p)
           \/ UNCHANGED vars
  <2>1. UNCHANGED <<status, owner, report, clean, finals>>
    BY <1>6 DEF CleanSession, PopNothing, ExecAsync, CollectDeferred, OtherOperation, ExecFork,
       ExecFilter, Collect, CollectTask, TaskDone, SupplantTask, CleanupWorkflowDone,
       CleanupWorkflowCancelled, OuterInput, OuterStop, vars, sessionVars, historyVars
  <2> QED
    BY <2>1, AsStutter DEF Life
<1>7. {s \in Sessions : arriving[s] # NoItem} \in SUBSET Sessions
  OBVIOUS
<1> QED
  BY <1>1, <1>2, <1>3, <1>4, <1>5, <1>6, <1>7 DEF Next, FlushStep

\* The scope keeps its contract with the outer workflow, if that one asks it to clean up
\* for a parent while its sessions are open, of which there is one or for each of which a
\* cleanup workflow runs (OperateScope, FinishCleanup).
THEOREM ScopeImplementsContract ==
    ASSUME Modest, OnCancelled # {} \/ MaxPerParent <= 1
    PROVE  Spec => ImplementsContract
<1>1. Spec => []ScopeInv
  BY ScopeInvariant DEF Modest
<1>2. ScopeInv /\ ScopeInv' /\ [Next]_vars => [Contract!Next]_(Contract!vars)
  BY StepContract DEF ContractStep
<1> QED
  BY <1>1, <1>2, InitContract, PTL DEF Spec, ImplementsContract, Contract!Spec

-----------------------------------------------------------------------------
(* The queue of the roster *)

\* The queue q calls the terminal for each of its inputs u, except for e that are
\* deferred, and calls the finish node n times and for the sessions d at most.  Before it
\* reaches the k-th of d, the terminal has taken every input of that session.
Calls(q, e, u, n, d) ==
    /\ Total(q, "finish") <= n + Len(d)
    /\ Total(q, "terminal") + e >= Len(u)
    /\ \A k \in DOMAIN d, j \in DOMAIN u : u[j] = d[k] =>
          \E i \in 0..Len(q) : /\ Times(q, "terminal")[i] >= j
                               /\ Times(q, "finish")[i] < n + k

CallsTyped(q, e, u, n, d) ==
    /\ q \in Seq(Queued) /\ e \in Nat /\ u \in Seq(Sessions) /\ n \in Nat /\ d \in Seq(Sessions)

\* What is woken up comes last.
LEMMA CallsMore ==
    ASSUME NEW q, NEW e, NEW u, NEW n, NEW d, CallsTyped(q, e, u, n, d), Calls(q, e, u, n, d),
           NEW r \in Seq(Queued), NEW f \in Nat, NEW g \in Seq(Sessions), NEW m \in Nat,
           Total(r, "finish") <= m, Len(g) + e <= Total(r, "terminal") + f,
           \A k \in DOMAIN d : d[k] \notin ToSet(g)
    PROVE  Calls(q \o r, f, u \o g, n + m, d)
<1>1. q \in Seq(Queued) /\ e \in Nat /\ u \in Seq(Sessions) /\ n \in Nat /\ d \in Seq(Sessions)
  BY DEF CallsTyped
<1> DEFINE p == q \o r
           v == u \o g
<1>2. /\ \A i \in 0..Len(q) : Times(p, "finish")[i] = Times(q, "finish")[i]
      /\ \A i \in 0..Len(q) : Times(p, "terminal")[i] = Times(q, "terminal")[i]
      /\ Total(p, "finish") = Total(q, "finish") + Total(r, "finish")
      /\ Total(p, "terminal") = Total(q, "terminal") + Total(r, "terminal")
  BY <1>1, TimesConcat
<1>3. /\ Times(q, "finish") \in [0..Len(q) -> Nat] /\ Times(q, "terminal") \in [0..Len(q) -> Nat]
      /\ Times(r, "finish") \in [0..Len(r) -> Nat] /\ Times(r, "terminal") \in [0..Len(r) -> Nat]
  BY <1>1, TimesStep
<1>4. /\ Len(p) = Len(q) + Len(r) /\ Len(v) = Len(u) + Len(g) /\ v \in Seq(Sessions)
      /\ \A j \in 1..Len(u) : v[j] = u[j]
      /\ \A j \in 1..Len(g) : v[Len(u) + j] = g[j]
      /\ Len(q) \in Nat /\ Len(r) \in Nat /\ Len(u) \in Nat /\ Len(g) \in Nat /\ Len(d) \in Nat
      /\ DOMAIN d = 1..Len(d) /\ DOMAIN v = 1..Len(v)
  BY <1>1
<1> HIDE DEF p, v
<1>5. /\ Total(q, "finish") \in Nat /\ Total(q, "terminal") \in Nat
      /\ Total(r, "finish") \in Nat /\ Total(r, "terminal") \in Nat
  <2>1. Len(q) \in 0..Len(q) /\ Len(r) \in 0..Len(r)
    BY <1>4
  <2> QED
    BY <1>3, <2>1 DEF Total
<1>9. /\ n \in Nat /\ e \in Nat /\ m \in Nat /\ f \in Nat
       /\ Len(p) = Len(q) + Len(r) /\ Len(v) = Len(u) + Len(g)
       /\ Len(q) \in Nat /\ Len(r) \in Nat /\ Len(u) \in Nat /\ Len(g) \in Nat /\ Len(d) \in Nat
  BY <1>1, <1>4
<1>6. Total(p, "finish") <= (n + m) + Len(d)
  <2> DEFINE a == Total(q, "finish")
             b == Total(r, "finish")
             c == Len(d)
  <2>1. a \in Nat /\ b \in Nat /\ c \in Nat /\ n \in Nat /\ m \in Nat
    BY <1>5, <1>9
  <2>2. a <= n + c /\ b <= m /\ Total(p, "finish") = a + b
    BY <1>2 DEF Calls
  <2> HIDE DEF a, b, c
  <2>3. a + b <= (n + m) + c
    BY <2>1, <2>2
  <2> QED
    BY <2>2, <2>3 DEF c
<1>7. Total(p, "terminal") + f >= Len(v)
  <2> DEFINE a == Total(q, "terminal")
             b == Total(r, "terminal")
             c == Len(u)
             l == Len(g)
  <2>1. a \in Nat /\ b \in Nat /\ c \in Nat /\ l \in Nat /\ e \in Nat /\ f \in Nat
    BY <1>5, <1>9
  <2>2. a + e >= c /\ l + e <= b + f /\ Total(p, "terminal") = a + b /\ Len(v) = c + l
    BY <1>2, <1>9 DEF Calls
  <2> HIDE DEF a, b, c, l
  <2>3. (a + b) + f >= c + l
    BY <2>1, <2>2
  <2> QED
    BY <2>2, <2>3
<1>8. ASSUME NEW k \in DOMAIN d, NEW j \in DOMAIN v, v[j] = d[k]
      PROVE  \E i \in 0..Len(p) : /\ Times(p, "terminal")[i] >= j
                                  /\ Times(p, "finish")[i] < (n + m) + k
  <2>1. j <= Len(u)
    <3>0. j \in 1..(Len(u) + Len(g))
      BY <1>4
    <3> SUFFICES ASSUME j > Len(u) PROVE FALSE
      BY <1>9, <3>0
    <3>1. j - Len(u) \in 1..Len(g) /\ Len(u) + (j - Len(u)) = j
      BY <1>9, <3>0
    <3>2. v[j] = g[j - Len(u)]
      BY <1>4, <3>1
    <3>3. g[j - Len(u)] \in ToSet(g)
      BY <3>1 DEF ToSet
    <3> QED
      BY <1>8, <3>2, <3>3
  <2>2. j \in DOMAIN u /\ u[j] = d[k]
    BY <1>1, <1>4, <1>8, <2>1
  <2>3. PICK i \in 0..Len(q) : Times(q, "terminal")[i] >= j /\ Times(q, "finish")[i] < n + k
    BY <2>2 DEF Calls
  <2>4. i \in 0..Len(p)
    <3> DEFINE a == Len(q)
               b == Len(r)
    <3>1. a \in Nat /\ b \in Nat /\ i \in 0..a /\ Len(p) = a + b
      BY <1>9
    <3> HIDE DEF a, b
    <3>2. i \in 0..(a + b)
      BY <3>1
    <3> QED
      BY <3>1, <3>2
  <2>5. Times(q, "finish")[i] \in Nat /\ k \in Nat
    <3> DEFINE c == Len(d)
    <3>1. c \in Nat /\ k \in 1..c
      BY <1>4
    <3> HIDE DEF c
    <3>2. k \in Nat
      BY <3>1
    <3> QED
      BY <1>3, <3>2
  <2>6. Times(p, "finish")[i] = Times(q, "finish")[i] /\ Times(p, "terminal")[i] = Times(q, "terminal")[i]
    BY <1>2
  <2>7. Times(q, "finish")[i] < (n + m) + k
    <3> DEFINE t == Times(q, "finish")[i]
    <3>1. t \in Nat /\ t < n + k /\ k \in Nat
      BY <2>3, <2>5
    <3>2. n \in Nat /\ m \in Nat
      BY <1>9
    <3> HIDE DEF t
    <3>3. t < (n + m) + k
      BY <3>1, <3>2
    <3> QED
      BY <3>3 DEF t
  <2> QED
    BY <2>3, <2>4, <2>6, <2>7
<1> QED
  BY <1>6, <1>7, <1>8 DEF Calls, p, v

\* The finish node is called for s: all inputs of s that the terminal has come first, if
\* none of them is deferred.
LEMMA CallsDone ==
    ASSUME NEW q, NEW e, NEW u, NEW n, NEW d, CallsTyped(q, e, u, n, d), Calls(q, e, u, n, d),
           NEW s \in Sessions, \A j \in DOMAIN u : u[j] = s => j + e <= Len(u)
    PROVE  Calls(Append(q, "finish"), e, u, n, Append(d, s))
<1>1. q \in Seq(Queued) /\ e \in Nat /\ u \in Seq(Sessions) /\ n \in Nat /\ d \in Seq(Sessions) /\ "finish" \in Queued
  BY DEF CallsTyped, Queued
<1> DEFINE w == <<"finish">>
           p == q \o w
           c == Append(d, s)
<1>2. w \in Seq(Queued) /\ Len(w) = 1 /\ \A i \in 1..Len(w) : w[i] = "finish"
  BY <1>1
<1>3. Total(w, "finish") = 1 /\ Total(w, "terminal") = 0
  <2> HIDE DEF w
  <2>1. Total(w, "finish") = Len(w) /\ \A x : x # "finish" => Total(w, x) = 0
    BY <1>2, TimesOf
  <2>2. "terminal" # "finish"
    OBVIOUS
  <2> QED
    BY <1>2, <2>1, <2>2
<1>4. Append(q, "finish") = p
  BY <1>1
<1>5. /\ Len(p) = Len(q) + 1 /\ Len(c) = Len(d) + 1 /\ c \in Seq(Sessions)
      /\ \A k \in 1..Len(d) : c[k] = d[k]
      /\ c[Len(d) + 1] = s
      /\ Len(q) \in Nat /\ Len(u) \in Nat /\ Len(d) \in Nat
      /\ DOMAIN d = 1..Len(d) /\ DOMAIN c = 1..Len(c) /\ DOMAIN u = 1..Len(u)
  BY <1>1
<1> HIDE DEF w
<1>6. /\ \A i \in 0..Len(q) : Times(p, "finish")[i] = Times(q, "finish")[i]
      /\ \A i \in 0..Len(q) : Times(p, "terminal")[i] = Times(q, "terminal")[i]
      /\ Total(p, "finish") = Total(q, "finish") + 1
      /\ Total(p, "terminal") = Total(q, "terminal") + 0
  BY <1>1, <1>2, <1>3, TimesConcat
<1>7. Times(q, "finish") \in [0..Len(q) -> Nat] /\ Times(q, "terminal") \in [0..Len(q) -> Nat]
  BY <1>1, TimesStep
<1> HIDE DEF p, c
<1>8. Len(q) \in 0..Len(q) /\ Total(q, "finish") \in Nat /\ Total(q, "terminal") \in Nat
  <2> DEFINE a == Len(q)
  <2>1. a \in Nat
    BY <1>5
  <2> HIDE DEF a
  <2>2. a \in 0..a
    BY <2>1
  <2> QED
    BY <1>7, <2>2 DEF Total, a
<1>9. Total(q, "finish") <= n + Len(d) /\ Total(q, "terminal") + e >= Len(u)
  BY DEF Calls
<1>10. Total(p, "finish") <= n + Len(c) /\ Total(p, "terminal") + e >= Len(u)
  BY <1>1, <1>5, <1>6, <1>8, <1>9
<1>11. ASSUME NEW k \in DOMAIN c, NEW j \in DOMAIN u, u[j] = c[k]
       PROVE  \E i \in 0..Len(p) : /\ Times(p, "terminal")[i] >= j
                                   /\ Times(p, "finish")[i] < n + k
  <2>1. CASE k <= Len(d)
    <3>1. k \in DOMAIN d /\ u[j] = d[k]
      BY <1>5, <1>11, <2>1
    <3>2. PICK i \in 0..Len(q) : Times(q, "terminal")[i] >= j /\ Times(q, "finish")[i] < n + k
      BY <3>1 DEF Calls
    <3>3. i \in 0..Len(p)
      BY <1>5
    <3> QED
      BY <1>6, <3>2, <3>3
  <2>2. CASE k > Len(d)
    <3>1. k = Len(d) + 1 /\ Len(q) \in 0..Len(p)
      BY <1>5, <2>2
    <3>2. Times(p, "terminal")[Len(q)] = Total(q, "terminal") /\ Times(p, "finish")[Len(q)] = Total(q, "finish")
      BY <1>6, <1>8 DEF Total
    <3>3. Total(q, "terminal") >= j /\ Total(q, "finish") < n + k
      <4>1. j + e <= Len(u) /\ j \in Nat
        BY <1>5, <1>11, <3>1
      <4> QED
        BY <1>1, <1>5, <1>8, <1>9, <3>1, <4>1
    <3> QED
      BY <3>1, <3>2, <3>3
  <2> QED
    BY <1>5, <2>1, <2>2
<1> QED
  BY <1>4, <1>10, <1>11 DEF Calls, c

\* The call of another node is taken.
LEMMA CallsOther ==
    ASSUME NEW q, NEW e, NEW u, NEW n, NEW d, CallsTyped(q, e, u, n, d), Calls(q, e, u, n, d),
           q # <<>>, Head(q) \notin {"finish", "terminal"}
    PROVE  Calls(Tail(q), e, u, n, d)
<1>1. q \in Seq(Queued) /\ e \in Nat /\ u \in Seq(Sessions) /\ n \in Nat /\ d \in Seq(Sessions)
  BY DEF CallsTyped
<1> DEFINE p == Tail(q)
<1>2. /\ p \in Seq(Queued) /\ Len(p) \in Nat /\ DOMAIN d \subseteq Nat /\ DOMAIN u \subseteq Nat \ {0}
      /\ Len(d) \in Nat /\ Len(u) \in Nat
  BY <1>1
<1>3. /\ Times(p, "finish") \in [0..Len(p) -> Nat] /\ Times(p, "terminal") \in [0..Len(p) -> Nat]
      /\ Times(q, "terminal")[0] = 0
  BY <1>1, <1>2, TimesStep
<1>4. \A x \in {"finish", "terminal"} :
         /\ \A i \in 1..Len(q) : i - 1 \in 0..Len(p) /\ Times(q, x)[i] = 0 + Times(p, x)[i - 1]
         /\ Total(q, x) = 0 + Total(p, x)
  BY <1>1, TimesTail
<1> HIDE DEF p
<1>5. Total(p, "finish") \in Nat /\ Total(p, "terminal") \in Nat
  <2>1. Len(p) \in 0..Len(p)
    BY <1>2
  <2> QED
    BY <1>3, <2>1 DEF Total
<1>6. Total(p, "finish") <= n + Len(d) /\ Total(p, "terminal") + e >= Len(u)
  BY <1>4, <1>5 DEF Calls
<1>7. ASSUME NEW k \in DOMAIN d, NEW j \in DOMAIN u, u[j] = d[k]
      PROVE  \E i \in 0..Len(p) : /\ Times(p, "terminal")[i] >= j
                                  /\ Times(p, "finish")[i] < n + k
  <2>1. PICK i \in 0..Len(q) : Times(q, "terminal")[i] >= j /\ Times(q, "finish")[i] < n + k
    BY <1>7 DEF Calls
  <2>2. i # 0
    BY <1>2, <1>3, <2>1
  <2>3. i \in 1..Len(q)
    BY <1>1, <2>2
  <2>4. i - 1 \in 0..Len(p) /\ Times(p, "terminal")[i - 1] \in Nat /\ Times(p, "finish")[i - 1] \in Nat
    BY <1>3, <1>4, <2>3
  <2>5. Times(p, "terminal")[i - 1] >= j /\ Times(p, "finish")[i - 1] < n + k
    BY <1>4, <2>1, <2>3, <2>4
  <2> QED
    BY <2>4, <2>5
<1> QED
  BY <1>6, <1>7 DEF Calls, p

\* The terminal is called, and takes its first input.
LEMMA CallsTerminal ==
    ASSUME NEW q, NEW e, NEW u, NEW n, NEW d, CallsTyped(q, e, u, n, d), Calls(q, e, u, n, d),
           q # <<>>, Head(q) = "terminal"
    PROVE  Calls(Tail(q), e, IF u = <<>> THEN u ELSE Tail(u), n, d)
<1>1. q \in Seq(Queued) /\ e \in Nat /\ u \in Seq(Sessions) /\ n \in Nat /\ d \in Seq(Sessions)
  BY DEF CallsTyped
<1> DEFINE p == Tail(q)
           v == IF u = <<>> THEN u ELSE Tail(u)
<1>2. /\ p \in Seq(Queued) /\ Len(p) \in Nat /\ DOMAIN d \subseteq Nat
      /\ Len(d) \in Nat /\ Len(u) \in Nat /\ DOMAIN u = 1..Len(u)
  BY <1>1
<1>3. /\ Len(v) \in Nat /\ DOMAIN v = 1..Len(v) /\ (Len(v) + 1 <= Len(u) \/ Len(v) = 0)
      /\ \A j \in 1..Len(v) : j + 1 \in 1..Len(u) /\ v[j] = u[j + 1]
  <2>1. CASE u = <<>>
    BY <2>1
  <2>2. CASE u # <<>>
    BY <1>1, <2>2
  <2> QED
    BY <2>1, <2>2
<1>4. /\ Times(p, "finish") \in [0..Len(p) -> Nat] /\ Times(p, "terminal") \in [0..Len(p) -> Nat]
      /\ Times(q, "terminal")[0] = 0
  BY <1>1, <1>2, TimesStep
<1>5. /\ \A i \in 1..Len(q) : /\ i - 1 \in 0..Len(p)
                              /\ Times(q, "finish")[i] = 0 + Times(p, "finish")[i - 1]
                              /\ Times(q, "terminal")[i] = 1 + Times(p, "terminal")[i - 1]
      /\ Total(q, "finish") = 0 + Total(p, "finish")
      /\ Total(q, "terminal") = 1 + Total(p, "terminal")
  BY <1>1, TimesTail
<1> HIDE DEF p, v
<1>6. Total(p, "finish") \in Nat /\ Total(p, "terminal") \in Nat
  <2>1. Len(p) \in 0..Len(p)
    BY <1>2
  <2> QED
    BY <1>4, <2>1 DEF Total
<1>7. Total(p, "finish") <= n + Len(d) /\ Total(p, "terminal") + e >= Len(v)
  <2>1. Total(q, "finish") <= n + Len(d) /\ Total(q, "terminal") + e >= Len(u)
    BY DEF Calls
  <2> QED
    BY <1>1, <1>2, <1>3, <1>5, <1>6, <2>1
<1>8. ASSUME NEW k \in DOMAIN d, NEW j \in DOMAIN v, v[j] = d[k]
      PROVE  \E i \in 0..Len(p) : /\ Times(p, "terminal")[i] >= j
                                  /\ Times(p, "finish")[i] < n + k
  <2>0. j \in Nat /\ j + 1 \in DOMAIN u /\ u[j + 1] = d[k]
    BY <1>2, <1>3, <1>8
  <2>1. PICK i \in 0..Len(q) : Times(q, "terminal")[i] >= j + 1 /\ Times(q, "finish")[i] < n + k
    BY <2>0 DEF Calls
  <2>2. i # 0
    BY <1>4, <2>0, <2>1
  <2>3. i \in 1..Len(q)
    BY <1>1, <2>2
  <2>4. i - 1 \in 0..Len(p) /\ Times(p, "terminal")[i - 1] \in Nat /\ Times(p, "finish")[i - 1] \in Nat
    BY <1>4, <1>5, <2>3
  <2>5. Times(p, "terminal")[i - 1] >= j /\ Times(p, "finish")[i - 1] < n + k
    BY <1>5, <2>0, <2>1, <2>3, <2>4
  <2> QED
    BY <2>4, <2>5
<1> QED
  BY <1>7, <1>8 DEF Calls, p, v

\* The finish node is called, and takes a check or the first of d.
LEMMA CallsFinish ==
    ASSUME NEW q, NEW e, NEW u, NEW n, NEW d, CallsTyped(q, e, u, n, d), Calls(q, e, u, n, d),
           q # <<>>, Head(q) = "finish"
    PROVE  /\ n > 0 => Calls(Tail(q), e, u, n - 1, d)
           /\ n = 0 => d # <<>> /\ Calls(Tail(q), e, u, n, Tail(d)) /\ d[1] \notin ToSet(u)
<1>1. q \in Seq(Queued) /\ e \in Nat /\ u \in Seq(Sessions) /\ n \in Nat /\ d \in Seq(Sessions)
  BY DEF CallsTyped
<1> DEFINE p == Tail(q)
<1>2. /\ p \in Seq(Queued) /\ Len(p) \in Nat /\ DOMAIN d = 1..Len(d) /\ DOMAIN u = 1..Len(u)
      /\ Len(d) \in Nat /\ Len(u) \in Nat
  BY <1>1
<1>3. /\ Times(p, "finish") \in [0..Len(p) -> Nat] /\ Times(p, "terminal") \in [0..Len(p) -> Nat]
      /\ Times(q, "terminal")[0] = 0
  BY <1>1, <1>2, TimesStep
<1>4. /\ \A i \in 1..Len(q) : /\ i - 1 \in 0..Len(p)
                              /\ Times(q, "finish")[i] = 1 + Times(p, "finish")[i - 1]
                              /\ Times(q, "terminal")[i] = 0 + Times(p, "terminal")[i - 1]
      /\ Total(q, "finish") = 1 + Total(p, "finish")
      /\ Total(q, "terminal") = 0 + Total(p, "terminal")
  BY <1>1, TimesTail
<1> HIDE DEF p
<1>5. Total(p, "finish") \in Nat /\ Total(p, "terminal") \in Nat
  <2>1. Len(p) \in 0..Len(p)
    BY <1>2
  <2> QED
    BY <1>3, <2>1 DEF Total
<1>6. 1 + Total(p, "finish") <= n + Len(d) /\ Total(p, "terminal") + e >= Len(u)
  BY <1>4, <1>5 DEF Calls
\* One call less comes before what is left.
<1>7. ASSUME NEW k \in DOMAIN d, NEW j \in DOMAIN u, u[j] = d[k]
      PROVE  \E i \in 0..Len(p) : /\ Times(p, "terminal")[i] >= j
                                  /\ 1 + Times(p, "finish")[i] < n + k
                                  /\ Times(p, "finish")[i] \in Nat
  <2>1. PICK i \in 0..Len(q) : Times(q, "terminal")[i] >= j /\ Times(q, "finish")[i] < n + k
    BY <1>7 DEF Calls
  <2>2. i # 0
    BY <1>2, <1>3, <2>1
  <2>3. i \in 1..Len(q)
    BY <1>1, <2>2
  <2>4. i - 1 \in 0..Len(p) /\ Times(p, "terminal")[i - 1] \in Nat /\ Times(p, "finish")[i - 1] \in Nat
    BY <1>3, <1>4, <2>3
  <2>5. Times(p, "terminal")[i - 1] >= j /\ 1 + Times(p, "finish")[i - 1] < n + k
    BY <1>4, <2>1, <2>3, <2>4
  <2> QED
    BY <2>4, <2>5
<1>8. ASSUME n > 0 PROVE Calls(p, e, u, n - 1, d)
  <2>1. Total(p, "finish") <= (n - 1) + Len(d)
    BY <1>1, <1>2, <1>5, <1>6
  <2>2. ASSUME NEW k \in DOMAIN d, NEW j \in DOMAIN u, u[j] = d[k]
        PROVE  \E i \in 0..Len(p) : /\ Times(p, "terminal")[i] >= j
                                    /\ Times(p, "finish")[i] < (n - 1) + k
    <3>1. PICK i \in 0..Len(p) : /\ Times(p, "terminal")[i] >= j
                                 /\ 1 + Times(p, "finish")[i] < n + k
                                 /\ Times(p, "finish")[i] \in Nat
      BY <1>7, <2>2
    <3>2. Times(p, "finish")[i] < (n - 1) + k
      BY <1>1, <1>2, <3>1
    <3> QED
      BY <3>1, <3>2
  <2> QED
    BY <1>6, <2>1, <2>2 DEF Calls
<1>9. ASSUME n = 0 PROVE d # <<>> /\ Calls(p, e, u, n, Tail(d)) /\ d[1] \notin ToSet(u)
  <2>1. Len(d) >= 1 /\ d # <<>>
    BY <1>2, <1>5, <1>6, <1>9
  <2> DEFINE c == Tail(d)
  <2>2. /\ Len(c) = Len(d) - 1 /\ DOMAIN c = 1..(Len(d) - 1)
        /\ \A k \in 1..(Len(d) - 1) : k + 1 \in 1..Len(d) /\ c[k] = d[k + 1]
    BY <1>1, <2>1
  <2> HIDE DEF c
  <2>3. Total(p, "finish") <= n + Len(c)
    BY <1>1, <1>2, <1>5, <1>6, <2>2
  <2>4. ASSUME NEW k \in DOMAIN c, NEW j \in DOMAIN u, u[j] = c[k]
        PROVE  \E i \in 0..Len(p) : /\ Times(p, "terminal")[i] >= j
                                    /\ Times(p, "finish")[i] < n + k
    <3>1. k + 1 \in DOMAIN d /\ u[j] = d[k + 1] /\ k \in Nat
      BY <1>2, <2>2, <2>4
    <3>2. PICK i \in 0..Len(p) : /\ Times(p, "terminal")[i] >= j
                                 /\ 1 + Times(p, "finish")[i] < n + (k + 1)
                                 /\ Times(p, "finish")[i] \in Nat
      BY <1>7, <3>1
    <3>3. Times(p, "finish")[i] < n + k
      BY <1>1, <3>1, <3>2
    <3> QED
      BY <3>2, <3>3
  <2>5. ASSUME d[1] \in ToSet(u) PROVE FALSE
    <3>1. PICK j \in DOMAIN u : u[j] = d[1]
      BY <1>2, <2>5 DEF ToSet
    <3>2. 1 \in DOMAIN d
      BY <1>2, <2>1
    <3>3. PICK i \in 0..Len(p) : 1 + Times(p, "finish")[i] < n + 1 /\ Times(p, "finish")[i] \in Nat
      BY <1>7, <3>1, <3>2
    <3> QED
      BY <1>9, <3>3
  <2> QED
    BY <1>6, <2>1, <2>3, <2>4, <2>5 DEF Calls, c
<1> QED
  BY <1>8, <1>9 DEF p

\* Inputs that leave do not call any more.
LEMMA CallsLess ==
    ASSUME NEW q, NEW e, NEW u, NEW n, NEW d, CallsTyped(q, e, u, n, d), Calls(q, e, u, n, d), NEW gone
    PROVE  Calls(q, e, Without(u, gone), n, d)
<1>1. q \in Seq(Queued) /\ e \in Nat /\ u \in Seq(Sessions) /\ n \in Nat /\ d \in Seq(Sessions)
  BY DEF CallsTyped
<1> DEFINE v == Without(u, gone)
<1>2. /\ v \in Seq(Sessions) /\ Len(v) <= Len(u)
      /\ \A j \in 1..Len(v) : \E i \in 1..Len(u) : i >= j /\ u[i] = v[j]
  BY <1>1, WithoutSet, WithoutFrom
<1> HIDE DEF v
<1>3. /\ Times(q, "terminal") \in [0..Len(q) -> Nat] /\ DOMAIN u = 1..Len(u) /\ DOMAIN v = 1..Len(v)
      /\ Len(q) \in Nat /\ Len(u) \in Nat /\ Len(v) \in Nat
  BY <1>1, <1>2, TimesStep
<1>4. Total(q, "terminal") \in Nat
  <2>1. Len(q) \in 0..Len(q)
    BY <1>3
  <2> QED
    BY <1>3, <2>1 DEF Total
<1>5. Total(q, "terminal") + e >= Len(v)
  <2>1. Total(q, "terminal") + e >= Len(u)
    BY DEF Calls
  <2> QED
    BY <1>1, <1>2, <1>3, <1>4, <2>1
<1>6. ASSUME NEW k \in DOMAIN d, NEW j \in DOMAIN v, v[j] = d[k]
      PROVE  \E i \in 0..Len(q) : /\ Times(q, "terminal")[i] >= j
                                  /\ Times(q, "finish")[i] < n + k
  <2>1. PICK l \in 1..Len(u) : l >= j /\ u[l] = v[j]
    BY <1>2, <1>3
  <2>2. PICK i \in 0..Len(q) : Times(q, "terminal")[i] >= l /\ Times(q, "finish")[i] < n + k
    BY <1>3, <1>6, <2>1 DEF Calls
  <2>3. Times(q, "terminal")[i] \in Nat /\ l \in Nat /\ j \in Nat
    BY <1>3
  <2> QED
    BY <2>1, <2>2, <2>3
<1> QED
  BY <1>5, <1>6 DEF Calls, v

-----------------------------------------------------------------------------
(* The queue calls the finish node after the terminal *)

\* The sessions whose last call of the finish node is due: without a cleanup workflow it
\* is the check of the session, otherwise a cleanup workflow that is done.
Due == IF OnTerminate = {} THEN checks ELSE [k \in DOMAIN dones |-> dones[k].session]
Checked == IF OnTerminate = {} THEN 0 ELSE Len(checks)

\* What is deferred is queued before anything runs or is closed, and its sessions go on.
Defers == deferred # <<>> =>
    /\ closing = {} /\ cancels = <<>>
    /\ (awake /\ phase \in {"cleanups", "cancels"}) \/ phase = "channel"
LateActive == \A j \in DOMAIN inputs["terminal"] :
    j + Len(deferred) > Len(inputs["terminal"]) => inputs["terminal"][j] \in active
\* The cleanup workflows are those of a termination too, or there are none.
Uniform == OnTerminate # {} \/ OnCancelled = {}

CallsInv == Calls(queue, Len(deferred), inputs["terminal"], Checked, Due)
QueueInv == CallsInv /\ Defers /\ LateActive

LEMMA StepDefers ==
    ASSUME Defers, [Next]_vars
    PROVE  Defers'
<1>1. CASE UNCHANGED <<deferred, awake, phase, closing, cancels>>
  BY <1>1 DEF Defers
<1>2. CASE deferred' = <<>>
  BY <1>2 DEF Defers
<1>3. CASE UNCHANGED deferred /\ deferred = <<>>
  BY <1>3 DEF Defers
<1>4. CASE \/ PopNothing \/ ExecScope \/ ExecAsync \/ ExecTerminal \/ ExecFinish
           \/ \E toFilter, toAsync \in BOOLEAN, n \in 0..MaxOutputs : ExecFork(toFilter, toAsync, n)
           \/ \E pass \in BOOLEAN : ExecFilter(pass)
  <2>1. UNCHANGED deferred /\ ~awake /\ CleanupsDone
    BY <1>4 DEF PopNothing, ExecScope, ExecAsync, ExecTerminal, ExecFinish, ExecFork, ExecFilter,
       Pop, QueueRuns, Running
  <2> QED
    BY <1>3, <2>1 DEF Defers, CleanupsDone
<1>5. CASE CleanSession \/ HandleCancel \/ Validate
  <2>1. UNCHANGED deferred /\ (closing # {} \/ cancels # <<>> \/ phase = "disposals")
    BY <1>5 DEF CleanSession, HandleCancel, Validate
  <2> QED
    BY <1>3, <2>1 DEF Defers
<1>6. CASE TriggerCleanup \/ \E s \in Sessions : CollectTask(s)
  BY <1>1, <1>6 DEF TriggerCleanup, CollectTask
<1>7. CASE CollectDeferred
  BY <1>2, <1>7 DEF CollectDeferred
<1>8. CASE \/ OtherOperation \/ \E T \in SUBSET Sessions : Collect(T)
           \/ \E s \in Sessions : TaskDone(s)
  <2>1. Running /\ UNCHANGED <<closing, cancels>>
    BY <1>8 DEF OtherOperation, Collect, TaskDone, rosterVars
  <2>2. \/ UNCHANGED <<deferred, awake>> /\ phase' = "cleanups"
        \/ awake' = TRUE /\ phase' = "cleanups"
        \/ phase' = "channel"
    BY <1>8 DEF OtherOperation, Collect, TaskDone, rosterVars
  <2> QED
    BY <2>1, <2>2 DEF Defers, Running, CleanupsDone
<1>9. CASE \/ \E s \in Sessions : SupplantTask(s)
           \/ \E r \in runs : CleanupWorkflowDone(r) \/ CleanupWorkflowCancelled(r)
           \/ \E p \in Parents : OuterInput(p) \/ OuterCleanup(p) \/ OuterStop(p)
  <2>1. UNCHANGED deferred /\ ~awake /\ CleanupsDone
    BY <1>9 DEF SupplantTask, CleanupWorkflowDone, CleanupWorkflowCancelled, OuterInput,
       OuterCleanup, OuterStop, QueueRuns, Running, rosterVars
  <2> QED
    BY <1>3, <2>1 DEF Defers, CleanupsDone
<1>10. CASE UNCHANGED vars
  BY <1>1, <1>10 DEF vars, rosterVars
<1>11. {s \in Sessions : arriving[s] # NoItem} \in SUBSET Sessions
  OBVIOUS
<1> QED
  BY <1>4, <1>5, <1>6, <1>7, <1>8, <1>9, <1>10, <1>11 DEF Next, FlushStep

LEMMA DueTyped ==
    ASSUME Typed
    PROVE  /\ Due \in Seq(Sessions) /\ Checked \in Nat
           /\ \A k \in DOMAIN Due : Due[k] \in ToSet(checks) \/ \E r \in ToSet(dones) : r.session = Due[k]
<1>1. checks \in Seq(Sessions) /\ dones \in Seq(Runs)
  BY DEF Typed, TypeOK, CleanTypeOK
<1>2. \A k \in DOMAIN dones : dones[k] \in Runs /\ dones[k].session \in Sessions /\ dones[k] \in ToSet(dones)
  <2> SUFFICES ASSUME NEW k \in DOMAIN dones
               PROVE  dones[k] \in Runs /\ dones[k].session \in Sessions /\ dones[k] \in ToSet(dones)
    OBVIOUS
  <2>1. dones[k] \in Runs
    BY <1>1
  <2> QED
    BY <2>1 DEF Runs, ToSet
<1>3. [k \in DOMAIN dones |-> dones[k].session] \in Seq(Sessions)
  <2>1. DOMAIN dones = 1..Len(dones) /\ Len(dones) \in Nat
    BY <1>1
  <2> QED
    BY <1>2, <2>1
<1>4. CASE OnTerminate = {}
  BY <1>1, <1>4 DEF Due, Checked, ToSet
<1>5. CASE OnTerminate # {}
  BY <1>1, <1>2, <1>3, <1>5 DEF Due, Checked
<1> QED
  BY <1>4, <1>5

LEMMA DueSame ==
    ASSUME UNCHANGED <<checks, dones>>
    PROVE  UNCHANGED <<Due, Checked>>
BY DEF Due, Checked

LEMMA CallsAreTyped ==
    ASSUME Typed
    PROVE  /\ CallsTyped(queue, Len(deferred), inputs["terminal"], Checked, Due)
           /\ queue \in Seq(Queued) /\ Len(deferred) \in Nat /\ inputs["terminal"] \in Seq(Sessions)
           /\ Checked \in Nat /\ Due \in Seq(Sessions) /\ InputsOK(inputs)
<1>1. InputsOK(inputs) /\ "terminal" \in Inner \cup {"terminal"}
  BY InputsType DEF Typed, TypeOK
<1>2. inputs["terminal"] \in Seq(Sessions)
  BY <1>1 DEF InputsOK
<1>3. queue \in Seq(Queued) /\ deferred \in Seq({"terminal"}) /\ Checked \in Nat /\ Due \in Seq(Sessions)
  BY DueTyped DEF Typed, TypeOK, RosterTypeOK, Queued
<1> QED
  BY <1>1, <1>2, <1>3 DEF CallsTyped

LEMMA ConcatOne ==
    ASSUME NEW X, NEW p \in Seq(X), NEW q \in Seq(X)
    PROVE  Len(q) = 1 =>
           /\ Len(p \o q) = Len(p) + 1 /\ DOMAIN (p \o q) = 1..(Len(p) + 1) /\ Len(p) \in Nat
           /\ DOMAIN p = 1..Len(p) /\ \A j \in 1..Len(p) : (p \o q)[j] = p[j]
           /\ (p \o q)[Len(p) + 1] = q[1]
<1> DEFINE r == p \o q
<1>1. r \in Seq(X) /\ Len(r) = Len(p) + Len(q)
  OBVIOUS
<1>2. \A i \in 1..Len(p) : r[i] = p[i]
  OBVIOUS
<1>3. \A i \in 1..Len(q) : r[Len(p) + i] = q[i]
  OBVIOUS
<1> HIDE DEF r
<1>4. Len(q) = 1 => r[Len(p) + 1] = q[1]
  BY <1>3
<1> QED
  BY <1>1, <1>2, <1>4 DEF r

\* Inputs are deferred only when a task is done, and none is deferred when a session ends.
LEMMA StepLate ==
    ASSUME Typed, Defers, LateActive, [Next]_vars
    PROVE  LateActive'
<1>0. /\ InputsOK(inputs) /\ inputs["terminal"] \in Seq(Sessions) /\ "terminal" \in DOMAIN inputs
      /\ deferred \in Seq({"terminal"})
  BY CallsAreTyped DEF InputsOK, Nodes, Typed, TypeOK, RosterTypeOK
<1>1. ASSUME deferred' = <<>> PROVE LateActive'
  <2>1. TypeOK'
    BY StepTyped DEF Typed
  <2>2. inputs'["terminal"] \in Seq(Sessions)
    BY <2>1 DEF TypeOK, NodeTypeOK
  <2>3. \A j \in DOMAIN inputs'["terminal"] : j <= Len(inputs'["terminal"]) /\ j \in Nat
    BY <2>2
  <2>4. Len(deferred') = 0 /\ Len(inputs'["terminal"]) \in Nat
    BY <1>1, <2>2
  <2> QED
    BY <2>3, <2>4 DEF LateActive
<1>2. CASE UNCHANGED <<deferred, active>> /\ inputs'["terminal"] = inputs["terminal"]
  BY <1>2 DEF LateActive
<1>3. CASE UNCHANGED deferred /\ deferred = <<>>
  BY <1>1, <1>3
<1>4. CASE \/ PopNothing \/ ExecScope \/ ExecAsync \/ ExecTerminal \/ ExecFinish
           \/ \E toFilter, toAsync \in BOOLEAN, n \in 0..MaxOutputs : ExecFork(toFilter, toAsync, n)
           \/ \E pass \in BOOLEAN : ExecFilter(pass)
  <2>1. UNCHANGED deferred /\ ~awake /\ CleanupsDone
    BY <1>4 DEF PopNothing, ExecScope, ExecAsync, ExecTerminal, ExecFinish, ExecFork, ExecFilter,
       Pop, QueueRuns, Running
  <2> QED
    BY <1>3, <2>1 DEF Defers, CleanupsDone
<1>5. CASE CleanSession \/ HandleCancel \/ Validate
  <2>1. UNCHANGED deferred /\ (closing # {} \/ cancels # <<>> \/ phase = "disposals")
    BY <1>5 DEF CleanSession, HandleCancel, Validate
  <2> QED
    BY <1>3, <2>1 DEF Defers
<1>6. CASE \/ TriggerCleanup \/ \E s \in Sessions : CollectTask(s)
           \/ OtherOperation \/ \E T \in SUBSET Sessions : Collect(T) \/ UNCHANGED vars
  <2>1. UNCHANGED <<deferred, active, inputs>>
    BY <1>6 DEF TriggerCleanup, CollectTask, OtherOperation, Collect, rosterVars, sessionVars,
       nodeVars, vars
  <2> QED
    BY <1>2, <2>1
<1>7. CASE CollectDeferred
  BY <1>1, <1>7 DEF CollectDeferred
<1>8. ASSUME NEW s \in Sessions, TaskDone(s) PROVE LateActive'
  <2> DEFINE u == inputs["terminal"]
             w == WakeUps("terminal", s, 1)
  <2>1. /\ inputs' = [inputs EXCEPT !["terminal"] = Give("terminal", s, 1)]
        /\ deferred' = deferred \o w /\ UNCHANGED active
    BY <1>8 DEF TaskDone, sessionVars
  <2>2. inputs'["terminal"] = Give("terminal", s, 1)
    BY <1>0, <2>1
  <2>3. CASE s \in active
    <3> DEFINE g == [i \in 1..1 |-> s]
               x == [i \in 1..1 |-> "terminal"]
    <3>1. g \in Seq(Sessions) /\ Len(g) = 1 /\ g[1] = s /\ x \in Seq({"terminal"}) /\ Len(x) = 1
      OBVIOUS
    <3>2. inputs'["terminal"] = u \o g /\ deferred' = deferred \o x
      BY <2>1, <2>2, <2>3 DEF Give, WakeUps
    <3> HIDE DEF g, x
    <3>3. Len(deferred') = Len(deferred) + 1 /\ Len(deferred) \in Nat
      <4>1. Len(deferred \o x) = Len(deferred) + 1 /\ Len(deferred) \in Nat
        BY <1>0, <3>1, ConcatOne
      <4> QED
        BY <3>2, <4>1
    <3> DEFINE v == inputs'["terminal"]
    <3>4. /\ Len(v) = Len(u) + 1 /\ DOMAIN v = 1..Len(v) /\ DOMAIN u = 1..Len(u) /\ Len(u) \in Nat
          /\ \A j \in 1..Len(u) : v[j] = u[j]
          /\ v[Len(u) + 1] = s
      <4> DEFINE y == u \o g
      <4>1. u \in Seq(Sessions) /\ g \in Seq(Sessions) /\ Len(g) = 1 /\ g[1] = s
        BY <1>0, <3>1
      <4> HIDE DEF u
      <4>2. /\ Len(y) = Len(u) + 1 /\ DOMAIN y = 1..Len(y) /\ DOMAIN u = 1..Len(u) /\ Len(u) \in Nat
            /\ \A j \in 1..Len(u) : y[j] = u[j]
            /\ y[Len(u) + 1] = s
        BY <4>1, ConcatOne
      <4> HIDE DEF y
      <4>3. v = y
        BY <3>2 DEF y
      <4> QED
        BY <4>2, <4>3
    <3>5. ASSUME NEW j \in DOMAIN v, j + Len(deferred') > Len(v) PROVE v[j] \in active
      <4>1. CASE j = Len(u) + 1
        BY <2>3, <3>4, <4>1
      <4>2. CASE j # Len(u) + 1
        <5>1. j \in 1..Len(u) /\ j + Len(deferred) > Len(u)
          BY <3>3, <3>4, <3>5, <4>2
        <5> QED
          BY <3>4, <5>1 DEF LateActive
      <4> QED
        BY <4>1, <4>2
    <3> QED
      BY <2>1, <3>5 DEF LateActive
  <2>4. CASE s \notin active
    <3>1. w = <<>> /\ inputs'["terminal"] = u
      BY <2>2, <2>4 DEF Give, WakeUps
    <3>2. deferred' = deferred
      BY <1>0, <2>1, <3>1
    <3> QED
      BY <1>2, <2>1, <3>1, <3>2
  <2> QED
    BY <2>3, <2>4
<1>9. CASE \/ \E s \in Sessions : SupplantTask(s)
           \/ \E r \in runs : CleanupWorkflowDone(r) \/ CleanupWorkflowCancelled(r)
           \/ \E p \in Parents : OuterInput(p) \/ OuterCleanup(p) \/ OuterStop(p)
  <2>1. UNCHANGED deferred /\ ~awake /\ CleanupsDone
    BY <1>9 DEF SupplantTask, CleanupWorkflowDone, CleanupWorkflowCancelled, OuterInput,
       OuterCleanup, OuterStop, QueueRuns, Running, rosterVars
  <2> QED
    BY <1>3, <2>1 DEF Defers, CleanupsDone
<1>10. {s \in Sessions : arriving[s] # NoItem} \in SUBSET Sessions
  OBVIOUS
<1> QED
  BY <1>4, <1>5, <1>6, <1>7, <1>8, <1>9, <1>10 DEF Next, FlushStep

\* One more call.
LEMMA CallsAppend ==
    ASSUME NEW q, NEW e, NEW u, NEW n, NEW d, CallsTyped(q, e, u, n, d), Calls(q, e, u, n, d),
           NEW x \in Queued
    PROVE  /\ x # "finish" => Calls(Append(q, x), e, u, n, d)
           /\ x = "finish" => Calls(Append(q, x), e, u, n + 1, d)
<1>1. q \in Seq(Queued) /\ e \in Nat /\ u \in Seq(Sessions) /\ n \in Nat
  BY DEF CallsTyped
<1> DEFINE r == <<x>>
           g == <<>>
           m == IF x = "finish" THEN 1 ELSE 0
<1>2. r \in Seq(Queued) /\ Len(r) = 1 /\ \A i \in 1..Len(r) : r[i] = x
  OBVIOUS
<1>3. Append(q, x) = q \o r
  BY <1>1
<1>4. g \in Seq(Sessions) /\ Len(g) = 0 /\ u \o g = u /\ ToSet(g) = {}
  BY <1>1 DEF ToSet
<1> HIDE DEF r, g
<1>5. Total(r, x) = 1 /\ \A y : y # x => Total(r, y) = 0
  BY <1>2, TimesOf
<1>6. Total(r, "finish") = m /\ Total(r, "terminal") \in {0, 1}
  BY <1>5
<1>7. m \in Nat /\ Total(r, "finish") <= m /\ Len(g) + e <= Total(r, "terminal") + e
  BY <1>1, <1>4, <1>6
<1>8. \A k \in DOMAIN d : d[k] \notin ToSet(g)
  BY <1>4
<1> HIDE DEF m
<1>9. Calls(q \o r, e, u \o g, n + m, d)
  BY <1>1, <1>2, <1>4, <1>7, <1>8, CallsMore
<1>10. Calls(Append(q, x), e, u, n + m, d)
  BY <1>3, <1>4, <1>9
<1> QED
  BY <1>1, <1>10 DEF m

\* The sessions that have begun their cleanup workflows get no more inputs.
LEMMA BegunPassive ==
    ASSUME Typed, EndInv, NEW s \in Sessions, begun[s] > 0 \/ Has(finished, s)
    PROVE  s \notin active
<1>1. Work(s)
  BY DEF EndInv
<1> QED
  BY <1>1 DEF Work

LEMMA DonesPassive ==
    ASSUME Typed, EndInv, CleanInv
    PROVE  \A k \in DOMAIN Due : Due[k] \notin active /\ Due[k] \in Sessions
<1>1. ASSUME NEW k \in DOMAIN Due PROVE Due[k] \notin active /\ Due[k] \in Sessions
  <2>1. Due[k] \in Sessions
    <3>1. Due \in Seq(Sessions)
      BY DueTyped
    <3> QED
      BY <3>1
  <2>2. Stage(Due[k]) /\ begun[Due[k]] \in Nat
    BY <2>1 DEF EndInv, Typed, TypeOK
  <2>3. begun[Due[k]] > 0
    <3>1. CASE Due[k] \in ToSet(checks)
      BY <2>2, <3>1 DEF Stage
    <3>2. CASE \E r \in ToSet(dones) : r.session = Due[k]
      BY <3>2 DEF CleanInv
    <3> QED
      BY <3>1, <3>2, DueTyped
  <2> QED
    BY <2>1, <2>3, BegunPassive
<1> QED
  BY <1>1

LEMMA WakeUpsCount ==
    ASSUME NEW node \in Inner \cup {"terminal"}, NEW s, NEW n \in Nat
    PROVE  /\ WakeUps(node, s, n) \in Seq(Queued) /\ WakeUps(node, s, n) \in Seq({node})
           /\ Total(WakeUps(node, s, n), node) = Len(WakeUps(node, s, n))
           /\ \A x : x # node => Total(WakeUps(node, s, n), x) = 0
<1> DEFINE w == WakeUps(node, s, n)
<1>1. w \in Seq({node})
  <2>1. [i \in 1..n |-> node] \in Seq({node})
    BY RepeatSet
  <2> QED
    BY <2>1 DEF WakeUps
<1>2. node \in Queued
  BY DEF Queued
<1> HIDE DEF w
<1>3. w \in Seq(Queued) /\ \A i \in 1..Len(w) : w[i] = node
  BY <1>1, <1>2
<1>4. Total(w, node) = Len(w) /\ \A x : x # node => Total(w, x) = 0
  BY <1>1, <1>3, TimesOf
<1> QED
  BY <1>1, <1>3, <1>4 DEF w

\* What the terminal is given, it is called for.
LEMMA TerminalGiven ==
    ASSUME Typed, EndInv, CleanInv, NEW s \in Sessions, NEW n \in Nat
    PROVE  \E g \in Seq(Sessions) :
              /\ Give("terminal", s, n) = inputs["terminal"] \o g
              /\ Len(g) = Len(WakeUps("terminal", s, n))
              /\ \A k \in DOMAIN Due : Due[k] \notin ToSet(g)
<1>1. inputs["terminal"] \in Seq(Sessions)
  BY CallsAreTyped
<1>2. CASE s \in active
  <2> DEFINE g == [i \in 1..n |-> s]
  <2>1. g \in Seq(Sessions) /\ Len(g) = n /\ \A y : y \in ToSet(g) <=> y = s /\ n > 0
    BY RepeatSet
  <2>2. Give("terminal", s, n) = inputs["terminal"] \o g
    BY <1>2 DEF Give
  <2>3. Len(WakeUps("terminal", s, n)) = n
    BY <1>2 DEF WakeUps
  <2> HIDE DEF g
  <2>4. \A k \in DOMAIN Due : Due[k] \notin ToSet(g)
    BY <1>2, <2>1, DonesPassive
  <2> QED
    BY <2>1, <2>2, <2>3, <2>4
<1>3. CASE s \notin active
  <2>1. Give("terminal", s, n) = inputs["terminal"] \o <<>>
    BY <1>1, <1>3 DEF Give
  <2>2. WakeUps("terminal", s, n) = <<>>
    BY <1>3 DEF WakeUps
  <2>3. <<>> \in Seq(Sessions) /\ Len(<<>>) = 0 /\ ToSet(<<>>) = {}
    BY DEF ToSet
  <2> QED
    BY <2>1, <2>2, <2>3
<1> QED
  BY <1>2, <1>3

-----------------------------------------------------------------------------
(* The steps *)

LEMMA CallsSame ==
    ASSUME CallsInv, UNCHANGED <<queue, deferred, checks, dones>>, inputs'["terminal"] = inputs["terminal"]
    PROVE  CallsInv'
BY DueSame DEF CallsInv

\* The input of another node is set.
LEMMA OtherInput ==
    ASSUME InputsOK(inputs), NEW q, inputs' = [inputs EXCEPT !["scope"] = q]
    PROVE  inputs'["terminal"] = inputs["terminal"]
<1>1. DOMAIN inputs = Nodes /\ "terminal" \in Nodes /\ "scope" # "terminal"
  BY DEF InputsOK, Nodes
<1> QED
  BY <1>1

LEMMA SameCalls ==
    ASSUME Typed, CallsInv,
           \/ CleanSession \/ HandleCancel \/ Validate \/ OtherOperation
           \/ \E T \in SUBSET Sessions : Collect(T)
           \/ \E s \in Sessions : CollectTask(s) \/ SupplantTask(s)
           \/ \E r \in runs : CleanupWorkflowCancelled(r)
           \/ \E p \in Parents : OuterCleanup(p) \/ OuterStop(p)
           \/ UNCHANGED vars
    PROVE  CallsInv'
<1>0. InputsOK(inputs)
  BY CallsAreTyped
<1>1. UNCHANGED <<queue, deferred, checks, dones>>
  BY DEF CleanSession, HandleCancel, Validate, OtherOperation, Collect, CollectTask, SupplantTask,
     CleanupWorkflowCancelled, OuterCleanup, OuterStop, vars, finishVars, rosterVars
<1>2. inputs'["terminal"] = inputs["terminal"]
  <2>1. CASE CleanSession
    <3>1. PICK c : inputs' = [node \in DOMAIN inputs |->
                                IF node \in Inner THEN Without(inputs[node], {c.session}) ELSE inputs[node]]
      BY <2>1 DEF CleanSession
    <3>2. "terminal" \in DOMAIN inputs /\ "terminal" \notin Inner
      BY <1>0 DEF InputsOK, Nodes, Inner
    <3> QED
      BY <3>1, <3>2
  <2>2. ASSUME NEW p \in Parents, OuterCleanup(p) PROVE inputs'["terminal"] = inputs["terminal"]
    <3>1. inputs' = [inputs EXCEPT !["scope"] = Without(inputs["scope"], {p})]
      BY <2>2 DEF OuterCleanup
    <3> QED
      BY <1>0, <3>1, OtherInput
  <2>3. CASE UNCHANGED inputs
    BY <2>3
  <2>4. CleanSession \/ (\E p \in Parents : OuterCleanup(p)) \/ UNCHANGED inputs
    BY DEF HandleCancel, Validate, OtherOperation, Collect, CollectTask, SupplantTask,
       CleanupWorkflowCancelled, OuterStop, vars, nodeVars
  <2> QED
    BY <2>1, <2>2, <2>3, <2>4
<1> QED
  BY <1>1, <1>2, CallsSame

LEMMA TriggerCleanupCalls ==
    ASSUME Typed, EndInv, CallsInv, LateActive, TriggerCleanup
    PROVE  CallsInv'
<1>0. /\ checks \in Seq(Sessions) /\ inputs["terminal"] \in Seq(Sessions)
      /\ finished \in Seq([session : Sessions, id : CleanupIds]) /\ finished # <<>>
  BY CallsAreTyped DEF Typed, TypeOK, CleanTypeOK, RosterTypeOK, TriggerCleanup
<1>1. UNCHANGED <<inputs, deferred, dones>>
  BY DEF TriggerCleanup, nodeVars
<1>2. \/ UNCHANGED <<checks, queue>>
      \/ /\ checks' = Append(checks, Last(finished).session)
         /\ queue' = Append(queue, "finish")
  BY DEF TriggerCleanup
<1>3. CASE UNCHANGED <<checks, queue>>
  BY <1>1, <1>3, CallsSame
<1>4. ASSUME checks' = Append(checks, Last(finished).session), queue' = Append(queue, "finish")
      PROVE  CallsInv'
  <2>1. PICK s : s = Last(finished).session
    OBVIOUS
  <2>2. s \in Sessions /\ Has(finished, s)
    <3>1. Last(finished) \in ToSet(finished)
      <4>1. Len(finished) \in DOMAIN finished /\ Last(finished) = finished[Len(finished)]
        BY <1>0, LastFront
      <4>2. DOMAIN finished = 1..Len(finished)
        BY <1>0
      <4> QED
        BY <4>1, <4>2 DEF ToSet
    <3>2. Last(finished) \in [session : Sessions, id : CleanupIds]
      BY <1>0, LastFront
    <3> QED
      BY <2>1, <3>1, <3>2 DEF Has
  <2>3. s \notin active
    BY <2>2, BegunPassive
  <2> DEFINE u == inputs["terminal"]
             e == Len(deferred)
  <2>4. CallsTyped(queue, e, u, Checked, Due) /\ Calls(queue, e, u, Checked, Due) /\ e \in Nat
    BY CallsAreTyped DEF CallsInv
  <2>5. CASE OnTerminate = {}
    <3>1. \A j \in DOMAIN u : u[j] = s => j + e <= Len(u)
      <4>1. Len(u) \in Nat /\ DOMAIN u = 1..Len(u)
        BY <1>0
      <4> QED
        BY <2>3, <2>4, <4>1 DEF LateActive
    <3>2. Due' = Append(Due, s) /\ Checked' = Checked
      BY <1>4, <2>1, <2>5 DEF Due, Checked
    <3> HIDE DEF u, e
    <3>3. Calls(Append(queue, "finish"), e, u, Checked, Append(Due, s))
      BY <2>2, <2>4, <3>1, CallsDone
    <3> QED
      BY <1>1, <1>4, <3>2, <3>3 DEF CallsInv, u, e
  <2>6. CASE OnTerminate # {}
    <3>1. Len(checks') = Len(checks) + 1
      BY <1>0, <1>4, <2>1, <2>2
    <3>2. Due' = Due /\ Checked' = Checked + 1
      BY <1>1, <2>6, <3>1 DEF Due, Checked
    <3>3. "finish" \in Queued
      BY DEF Queued
    <3> HIDE DEF u, e
    <3>4. Calls(Append(queue, "finish"), e, u, Checked + 1, Due)
      BY <2>4, <3>3, CallsAppend
    <3> QED
      BY <1>1, <1>4, <3>2, <3>4 DEF CallsInv, u, e
  <2> QED
    BY <2>5, <2>6
<1> QED
  BY <1>2, <1>3, <1>4

\* Between two collections nothing is deferred.
LEMMA NothingDeferred ==
    ASSUME Defers, QueueRuns
    PROVE  deferred = <<>>
BY DEF Defers, QueueRuns, Running, CleanupsDone

LEMMA CleanupWorkflowDoneCalls ==
    ASSUME Uniform, Typed, CleanInv, QueueInv, NEW r \in runs, CleanupWorkflowDone(r)
    PROVE  CallsInv'
<1>0. /\ r \in Runs /\ r.session \in Sessions /\ dones \in Seq(Runs)
      /\ inputs["terminal"] \in Seq(Sessions)
  BY CallsAreTyped, EntriesTyped DEF Typed, TypeOK, CleanTypeOK
<1>1. /\ QueueRuns /\ dones' = Append(dones, r) /\ queue' = Append(queue, "finish")
      /\ UNCHANGED <<inputs, deferred, checks>>
  BY DEF CleanupWorkflowDone, nodeVars
<1>2. OnTerminate # {}
  BY DEF CleanInv, Uniform
<1> DEFINE u == inputs["terminal"]
           e == Len(deferred)
           d == [k \in DOMAIN dones |-> dones[k].session]
<1>3. e = 0
  BY <1>1, NothingDeferred DEF QueueInv
<1>4. \A j \in DOMAIN u : u[j] = r.session => j + e <= Len(u)
  <2>1. DOMAIN u = 1..Len(u) /\ Len(u) \in Nat
    BY <1>0
  <2> QED
    BY <1>3, <2>1
<1>5. Due = d /\ Due \in Seq(Sessions) /\ Checked' = Checked
  BY <1>1, <1>2, DueTyped DEF Due, Checked
<1>6. Due' = Append(d, r.session)
  <2>1. /\ dones' \in Seq(Runs) /\ Len(dones') = Len(dones) + 1 /\ DOMAIN dones' = 1..(Len(dones) + 1)
        /\ \A k \in 1..Len(dones) : dones'[k] = dones[k]
        /\ dones'[Len(dones) + 1] = r /\ DOMAIN dones = 1..Len(dones) /\ Len(dones) \in Nat
    BY <1>0, <1>1
  <2>2. Due' = [k \in DOMAIN dones' |-> dones'[k].session]
    BY <1>2 DEF Due
  <2>3. Len(d) = Len(dones) /\ d \in Seq(Sessions)
    BY <1>5, <2>1
  <2>4. /\ DOMAIN Append(d, r.session) = 1..(Len(dones) + 1)
        /\ Append(d, r.session)[Len(dones) + 1] = r.session
        /\ \A k \in 1..Len(dones) : Append(d, r.session)[k] = d[k]
    BY <1>0, <2>1, <2>3
  <2>5. \A k \in 1..(Len(dones) + 1) : Append(d, r.session)[k] = dones'[k].session
    BY <2>1, <2>4
  <2>6. Append(d, r.session) \in Seq(Sessions)
    BY <1>0, <2>3
  <2> DEFINE a == Append(d, r.session)
  <2>7. a = [k \in DOMAIN a |-> a[k]]
    BY <2>6
  <2> HIDE DEF a, d
  <2> QED
    BY <2>1, <2>2, <2>4, <2>5, <2>7 DEF a
<1>7. CallsTyped(queue, e, u, Checked, Due) /\ Calls(queue, e, u, Checked, Due)
  BY CallsAreTyped DEF QueueInv, CallsInv
<1> HIDE DEF u, e, d
<1>8. Calls(Append(queue, "finish"), e, u, Checked, Append(Due, r.session))
  BY <1>0, <1>4, <1>7, CallsDone
<1> QED
  BY <1>1, <1>5, <1>6, <1>8 DEF CallsInv, u, e

LEMMA OuterInputCalls ==
    ASSUME Typed, CallsInv, NEW p \in Parents, OuterInput(p)
    PROVE  CallsInv'
<1>1. /\ inputs' = [inputs EXCEPT !["scope"] = Append(inputs["scope"], p)]
      /\ queue' = Append(queue, "scope") /\ UNCHANGED <<deferred, Due, Checked>>
  BY DueSame DEF OuterInput, finishVars
<1>2. inputs'["terminal"] = inputs["terminal"]
  BY <1>1, CallsAreTyped, OtherInput
<1>3. Calls(Append(queue, "scope"), Len(deferred), inputs["terminal"], Checked, Due)
  <2>1. "scope" \in Queued /\ "scope" # "finish"
    BY DEF Queued
  <2> QED
    BY <2>1, CallsAppend, CallsAreTyped DEF CallsInv
<1> QED
  BY <1>1, <1>2, <1>3 DEF CallsInv

\* Nodes other than the finish node are called.
LEMMA CallsWoken ==
    ASSUME NEW q, NEW e, NEW u, NEW n, NEW d, CallsTyped(q, e, u, n, d), Calls(q, e, u, n, d),
           NEW r \in Seq(Queued), Total(r, "finish") = 0
    PROVE  CallsTyped(q \o r, e, u, n, d) /\ Calls(q \o r, e, u, n, d)
<1>1. q \in Seq(Queued) /\ e \in Nat /\ u \in Seq(Sessions) /\ n \in Nat /\ d \in Seq(Sessions)
  BY DEF CallsTyped
<1> DEFINE g == <<>>
<1>2. g \in Seq(Sessions) /\ Len(g) = 0 /\ u \o g = u /\ ToSet(g) = {}
  BY <1>1 DEF ToSet
<1> HIDE DEF g
<1>3. Total(r, "terminal") \in Nat
  <2>1. Times(r, "terminal") \in [0..Len(r) -> Nat] /\ Len(r) \in Nat
    BY TimesStep
  <2> QED
    BY <2>1 DEF Total
<1>4. Total(r, "finish") <= 0 /\ Len(g) + e <= Total(r, "terminal") + e
  BY <1>1, <1>2, <1>3
<1>5. \A k \in DOMAIN d : d[k] \notin ToSet(g)
  BY <1>2
<1>6. Calls(q \o r, e, u \o g, n + 0, d)
  BY <1>1, <1>2, <1>4, <1>5, CallsMore
<1>7. q \o r \in Seq(Queued) /\ n + 0 = n
  BY <1>1
<1> QED
  BY <1>1, <1>2, <1>6, <1>7 DEF CallsTyped

\* Inputs are given to the terminal, and it is called, or what was deferred is queued.
LEMMA CallsGiven ==
    ASSUME NEW q, NEW e, NEW u, NEW n, NEW d, CallsTyped(q, e, u, n, d), Calls(q, e, u, n, d),
           NEW r \in Seq(Queued), NEW f \in Nat, NEW g \in Seq(Sessions),
           Total(r, "finish") = 0, Len(g) + e <= Total(r, "terminal") + f,
           \A k \in DOMAIN d : d[k] \notin ToSet(g)
    PROVE  Calls(q \o r, f, u \o g, n, d)
<1>1. n \in Nat /\ n + 0 = n
  BY DEF CallsTyped
<1>2. Total(r, "finish") <= 0 /\ 0 \in Nat
  OBVIOUS
<1>3. Calls(q \o r, f, u \o g, n + 0, d)
  BY <1>2, CallsMore
<1> QED
  BY <1>1, <1>3

\* The terminal is given inputs, and called for each of them.
LEMMA TerminalCalls ==
    ASSUME Typed, EndInv, CleanInv, NEW s \in Sessions, NEW n \in Nat,
           NEW q, CallsTyped(q, Len(deferred), inputs["terminal"], Checked, Due),
           Calls(q, Len(deferred), inputs["terminal"], Checked, Due)
    PROVE  /\ Calls(q \o WakeUps("terminal", s, n), Len(deferred), Give("terminal", s, n),
                    Checked, Due)
           /\ LET w == WakeUps("terminal", s, n)
              IN  Calls(q, Len(deferred \o w), Give("terminal", s, n), Checked, Due)
<1> DEFINE w == WakeUps("terminal", s, n)
           u == inputs["terminal"]
           e == Len(deferred)
           m == Checked
<1>1. w \in Seq(Queued) /\ w \in Seq({"terminal"}) /\ Total(w, "terminal") = Len(w) /\ Total(w, "finish") = 0
  <2>1. "terminal" \in Inner \cup {"terminal"} /\ "finish" # "terminal"
    OBVIOUS
  <2> QED
    BY <2>1, WakeUpsCount
<1>2. PICK g \in Seq(Sessions) : /\ Give("terminal", s, n) = u \o g
                                 /\ Len(g) = Len(w)
                                 /\ \A k \in DOMAIN Due : Due[k] \notin ToSet(g)
  BY TerminalGiven
<1>3. deferred \in Seq({"terminal"}) /\ q \in Seq(Queued) /\ e \in Nat /\ m \in Nat /\ Len(w) \in Nat
  BY <1>1, CallsAreTyped DEF Typed, TypeOK, RosterTypeOK, CallsTyped
<1>4. Len(deferred \o w) = e + Len(w)
  BY <1>1, <1>3
<1>5. CallsTyped(q, e, u, m, Due) /\ Calls(q, e, u, m, Due)
  OBVIOUS
<1> HIDE DEF w, u, e, m
<1>6. Calls(q \o w, e, u \o g, m, Due)
  <2>1. Len(g) + e <= Total(w, "terminal") + e
    BY <1>1, <1>2, <1>3
  <2> QED
    BY <1>1, <1>2, <1>3, <1>5, <2>1, CallsGiven
<1>7. Calls(q \o <<>>, e + Len(w), u \o g, m, Due)
  <2> DEFINE r == <<>>
  <2>1. r \in Seq(Queued) /\ Len(r) = 0 /\ \A i \in 1..Len(r) : r[i] = "scope"
    OBVIOUS
  <2> HIDE DEF r
  <2>2. Total(r, "scope") = 0 /\ \A x : x # "scope" => Total(r, x) = 0
    BY <2>1, TimesOf
  <2>3. PICK f \in Nat : f = e + Len(w)
    BY <1>3
  <2>4. Total(r, "finish") = 0 /\ Len(g) + e <= Total(r, "terminal") + f
    BY <1>2, <1>3, <2>2, <2>3
  <2>5. Calls(q \o r, f, u \o g, m, Due)
    BY <1>2, <1>5, <2>1, <2>4, CallsGiven
  <2> QED
    BY <2>3, <2>5 DEF r
<1>8. q \o <<>> = q
  BY <1>3
<1> QED
  BY <1>2, <1>4, <1>6, <1>7, <1>8 DEF w, u, e, m

\* Another node is called.
LEMMA PopOther ==
    ASSUME Typed, CallsInv, NEW node, Pop(node), node \notin {"finish", "terminal"}
    PROVE  /\ CallsTyped(Tail(queue), Len(deferred), inputs["terminal"], Checked, Due)
           /\ Calls(Tail(queue), Len(deferred), inputs["terminal"], Checked, Due)
<1>1. queue # <<>> /\ Head(queue) \notin {"finish", "terminal"}
  BY DEF Pop
<1>2. Tail(queue) \in Seq(Queued)
  BY <1>1, CallsAreTyped, TailSet
<1>3. CallsTyped(queue, Len(deferred), inputs["terminal"], Checked, Due)
  BY CallsAreTyped
<1> QED
  BY <1>1, <1>2, <1>3, CallsOther DEF CallsInv, CallsTyped

LEMMA PopNothingCalls ==
    ASSUME Typed, CallsInv, PopNothing
    PROVE  CallsInv'
<1>1. PICK node \in Inner \cup {"terminal"} : Pop(node) /\ inputs[node] = <<>>
  BY DEF PopNothing
<1>2. queue' = Tail(queue) /\ UNCHANGED <<inputs, deferred, Due, Checked>>
  BY DueSame DEF PopNothing, nodeVars, finishVars
<1>3. Calls(Tail(queue), Len(deferred), inputs["terminal"], Checked, Due)
  <2>1. CASE node \in Inner
    BY <1>1, <2>1, PopOther DEF Inner
  <2>2. CASE node = "terminal"
    <3>1. queue # <<>> /\ Head(queue) = "terminal" /\ inputs["terminal"] = <<>>
      BY <1>1, <2>2 DEF Pop
    <3> QED
      BY <3>1, CallsAreTyped, CallsTerminal DEF CallsInv
  <2> QED
    BY <2>1, <2>2
<1> QED
  BY <1>2, <1>3 DEF CallsInv

LEMMA ExecScopeCalls ==
    ASSUME Typed, CallsInv, ExecScope
    PROVE  CallsInv'
<1>1. /\ CallsTyped(Tail(queue), Len(deferred), inputs["terminal"], Checked, Due)
      /\ Calls(Tail(queue), Len(deferred), inputs["terminal"], Checked, Due)
  <2>1. Pop("scope")
    BY DEF ExecScope
  <2> QED
    BY <2>1, PopOther
<1>2. UNCHANGED <<deferred, Due, Checked>>
  BY DueSame DEF ExecScope, finishVars
<1>3. CASE inputs["scope"] = <<>>
  <2>1. queue' = Tail(queue) /\ UNCHANGED inputs
    BY <1>3 DEF ExecScope
  <2> QED
    BY <1>1, <1>2, <2>1 DEF CallsInv
<1>4. CASE inputs["scope"] # <<>>
  <2>1. PICK s \in Sessions :
            /\ inputs' = [inputs EXCEPT !["scope"] = Tail(@), !["fork"] = Append(@, s)]
            /\ queue' = Append(Tail(queue), "fork")
    BY <1>4 DEF ExecScope
  <2>2. inputs'["terminal"] = inputs["terminal"]
    <3>1. "terminal" \in DOMAIN inputs
      BY CallsAreTyped DEF InputsOK, Nodes
    <3> QED
      BY <2>1, <3>1
  <2>3. "fork" \in Queued /\ "fork" # "finish"
    BY DEF Queued, Inner
  <2>4. Calls(Append(Tail(queue), "fork"), Len(deferred), inputs["terminal"], Checked, Due)
    BY <1>1, <2>3, CallsAppend
  <2> QED
    BY <1>2, <2>1, <2>2, <2>4 DEF CallsInv
<1> QED
  BY <1>3, <1>4

LEMMA ExecForkCalls ==
    ASSUME Typed, EndInv, CleanInv, CallsInv,
           NEW toFilter \in BOOLEAN, NEW toAsync \in BOOLEAN, NEW n \in 0..MaxOutputs,
           ExecFork(toFilter, toAsync, n)
    PROVE  CallsInv'
<1>0. InputsOK(inputs) /\ inputs["fork"] \in Seq(Sessions) /\ inputs["fork"] # <<>> /\ n \in Nat
  BY CallsAreTyped DEF InputsOK, Inner, ExecFork
<1>1. PICK s \in Sessions : s = Head(inputs["fork"])
  BY <1>0
<1>2. PICK f \in {0, 1} : f = IF toFilter THEN 1 ELSE 0
  OBVIOUS
<1>3. PICK k \in {0, 1} : k = IF toAsync THEN 1 ELSE 0
  OBVIOUS
<1> DEFINE t == Tail(queue)
           a == t \o WakeUps("filter", s, f)
           b == a \o WakeUps("async", s, k)
           Typ(q) == CallsTyped(q, Len(deferred), inputs["terminal"], Checked, Due)
           Has2(q) == Calls(q, Len(deferred), inputs["terminal"], Checked, Due)
<1>4. /\ inputs' = [inputs EXCEPT !["fork"] = Tail(@), !["filter"] = Give("filter", s, f),
                          !["async"] = Give("async", s, k), !["terminal"] = Give("terminal", s, n)]
      /\ queue' = b \o WakeUps("terminal", s, n)
      /\ UNCHANGED <<deferred, Due, Checked>>
  BY <1>1, <1>2, <1>3, DueSame DEF ExecFork, finishVars
<1>5. Typ(t) /\ Has2(t)
  <2>1. Pop("fork")
    BY DEF ExecFork
  <2> QED
    BY <2>1, PopOther
<1>6. Typ(a) /\ Has2(a)
  <2>1. WakeUps("filter", s, f) \in Seq(Queued) /\ Total(WakeUps("filter", s, f), "finish") = 0
    BY WakeUpsCount DEF Inner
  <2> HIDE DEF t
  <2> QED
    BY <1>5, <2>1, CallsWoken
<1>7. Typ(b) /\ Has2(b)
  <2>1. WakeUps("async", s, k) \in Seq(Queued) /\ Total(WakeUps("async", s, k), "finish") = 0
    BY WakeUpsCount DEF Inner
  <2> HIDE DEF a
  <2> QED
    BY <1>6, <2>1, CallsWoken
<1>8. inputs'["terminal"] = Give("terminal", s, n)
  <2>1. "terminal" \in DOMAIN inputs
    BY <1>0 DEF InputsOK, Nodes
  <2> QED
    BY <1>4, <2>1
<1> HIDE DEF b
<1>9. Calls(b \o WakeUps("terminal", s, n), Len(deferred), Give("terminal", s, n), Checked, Due)
  BY <1>0, <1>7, TerminalCalls
<1> QED
  BY <1>4, <1>8, <1>9 DEF CallsInv

LEMMA ExecFilterCalls ==
    ASSUME Typed, EndInv, CleanInv, CallsInv, NEW pass \in BOOLEAN, ExecFilter(pass)
    PROVE  CallsInv'
<1>0. InputsOK(inputs) /\ inputs["filter"] \in Seq(Sessions) /\ inputs["filter"] # <<>>
  BY CallsAreTyped DEF InputsOK, Inner, ExecFilter
<1>1. PICK s \in Sessions : s = Head(inputs["filter"])
  BY <1>0
<1>2. PICK n \in {0, 1} : n = IF pass THEN 1 ELSE 0
  OBVIOUS
<1>3. /\ inputs' = [inputs EXCEPT !["filter"] = Tail(@), !["terminal"] = Give("terminal", s, n)]
      /\ queue' = Tail(queue) \o WakeUps("terminal", s, n)
      /\ UNCHANGED <<deferred, Due, Checked>>
  BY <1>1, <1>2, DueSame DEF ExecFilter, finishVars
<1>4. /\ CallsTyped(Tail(queue), Len(deferred), inputs["terminal"], Checked, Due)
      /\ Calls(Tail(queue), Len(deferred), inputs["terminal"], Checked, Due)
  <2>1. Pop("filter")
    BY DEF ExecFilter
  <2> QED
    BY <2>1, PopOther
<1>5. inputs'["terminal"] = Give("terminal", s, n)
  <2>1. "terminal" \in DOMAIN inputs
    BY <1>0 DEF InputsOK, Nodes
  <2> QED
    BY <1>3, <2>1
<1>6. Calls(Tail(queue) \o WakeUps("terminal", s, n), Len(deferred), Give("terminal", s, n), Checked, Due)
  BY <1>4, TerminalCalls
<1> QED
  BY <1>3, <1>5, <1>6 DEF CallsInv

LEMMA ExecAsyncCalls ==
    ASSUME Typed, CallsInv, ExecAsync
    PROVE  CallsInv'
<1>1. /\ inputs' = [inputs EXCEPT !["async"] = Tail(@)] /\ queue' = Tail(queue)
      /\ UNCHANGED <<deferred, Due, Checked>> /\ Pop("async")
  BY DueSame DEF ExecAsync, finishVars
<1>2. inputs'["terminal"] = inputs["terminal"]
  <2>1. "terminal" \in DOMAIN inputs
    BY CallsAreTyped DEF InputsOK, Nodes
  <2> QED
    BY <1>1, <2>1
<1>3. Calls(Tail(queue), Len(deferred), inputs["terminal"], Checked, Due)
  BY <1>1, PopOther
<1> QED
  BY <1>1, <1>2, <1>3 DEF CallsInv

LEMMA ExecTerminalCalls ==
    ASSUME Typed, CallsInv, ExecTerminal
    PROVE  CallsInv'
<1>1. /\ inputs' = [inputs EXCEPT !["terminal"] = Tail(@)] /\ queue' = Tail(queue)
      /\ UNCHANGED <<deferred, Due, Checked>> /\ inputs["terminal"] # <<>>
      /\ queue # <<>> /\ Head(queue) = "terminal"
  BY DueSame DEF ExecTerminal, finishVars, Pop
<1>2. inputs'["terminal"] = Tail(inputs["terminal"])
  <2>1. "terminal" \in DOMAIN inputs
    BY CallsAreTyped DEF InputsOK, Nodes
  <2> QED
    BY <1>1, <2>1
<1>3. Calls(Tail(queue), Len(deferred), Tail(inputs["terminal"]), Checked, Due)
  BY <1>1, CallsAreTyped, CallsTerminal DEF CallsInv
<1> QED
  BY <1>1, <1>2, <1>3 DEF CallsInv

LEMMA TaskDoneCalls ==
    ASSUME Typed, EndInv, CleanInv, CallsInv, NEW s \in Sessions, TaskDone(s)
    PROVE  CallsInv'
<1>1. /\ inputs' = [inputs EXCEPT !["terminal"] = Give("terminal", s, 1)]
      /\ deferred' = deferred \o WakeUps("terminal", s, 1)
      /\ UNCHANGED <<queue, Due, Checked>>
  BY DueSame DEF TaskDone, finishVars
<1>2. inputs'["terminal"] = Give("terminal", s, 1)
  <2>1. "terminal" \in DOMAIN inputs
    BY CallsAreTyped DEF InputsOK, Nodes
  <2> QED
    BY <1>1, <2>1
<1>3. Calls(queue, Len(deferred \o WakeUps("terminal", s, 1)), Give("terminal", s, 1), Checked, Due)
  BY CallsAreTyped, TerminalCalls DEF CallsInv
<1> QED
  BY <1>1, <1>2, <1>3 DEF CallsInv

LEMMA CollectDeferredCalls ==
    ASSUME Typed, CallsInv, CollectDeferred
    PROVE  CallsInv'
<1>1. /\ queue' = queue \o deferred /\ deferred' = <<>> /\ UNCHANGED <<inputs, Due, Checked>>
  BY DueSame DEF CollectDeferred, nodeVars, finishVars
<1> DEFINE q == queue
           r == deferred
           e == Len(deferred)
           u == inputs["terminal"]
           m == Checked
           g == <<>>
<1>2. /\ CallsTyped(q, e, u, m, Due) /\ Calls(q, e, u, m, Due)
      /\ u \in Seq(Sessions) /\ m \in Nat
  BY CallsAreTyped DEF CallsInv
<1>3. r \in Seq({"terminal"}) /\ e \in Nat /\ e = Len(r)
  BY DEF Typed, TypeOK, RosterTypeOK
<1>4. g \in Seq(Sessions) /\ Len(g) = 0 /\ u \o g = u /\ ToSet(g) = {}
  BY <1>2 DEF ToSet
<1> HIDE DEF q, r, e, u, m, g
<1>5. r \in Seq(Queued) /\ \A i \in 1..Len(r) : r[i] = "terminal"
  <2>1. {"terminal"} \subseteq Queued
    BY DEF Queued
  <2> QED
    BY <1>3, <2>1
<1>6. Total(r, "terminal") = Len(r) /\ \A x : x # "terminal" => Total(r, x) = 0
  BY <1>5, TimesOf
<1>7. Total(r, "finish") = 0 /\ Len(g) + e <= Total(r, "terminal") + 0
  BY <1>3, <1>4, <1>6
<1>8. \A k \in DOMAIN Due : Due[k] \notin ToSet(g)
  BY <1>4
<1>9. Calls(q \o r, 0, u \o g, m, Due)
  BY <1>2, <1>4, <1>5, <1>7, <1>8, CallsGiven
<1>10. Len(<<>>) = 0
  OBVIOUS
<1> QED
  BY <1>1, <1>4, <1>9, <1>10 DEF CallsInv, q, r, u, m

\* What the finish node leaves of the inputs of the terminal.
LEMMA FinishInputs ==
    ASSUME Typed, ExecFinish
    PROVE  \/ inputs'["terminal"] = inputs["terminal"]
           \/ \E gone : inputs'["terminal"] = Without(inputs["terminal"], gone)
<1>1. "terminal" \in DOMAIN inputs
  BY CallsAreTyped DEF InputsOK, Nodes
<1>2. ASSUME NEW aw, NEW i, FinalizeSession(i, aw)
      PROVE  \/ inputs'["terminal"] = inputs["terminal"]
             \/ \E gone : inputs'["terminal"] = Without(inputs["terminal"], gone)
  <2>1. \/ UNCHANGED inputs
        \/ inputs' = [inputs EXCEPT !["terminal"] = Without(@, {aw[i].session})]
    BY <1>2 DEF FinalizeSession
  <2> QED
    BY <1>1, <2>1
<1>3. \/ UNCHANGED inputs
      \/ \E aw, i : FinalizeSession(i, aw)
  BY FinishHow DEF FinishCheck, FinishNothing, FinishDone, Unfinalized, nodeVars
<1> QED
  BY <1>2, <1>3

\* The finish node is called for the first session that is due, or for a check.
LEMMA FinishDue ==
    ASSUME Uniform, Typed, CleanInv, CallsInv, ExecFinish
    PROVE  /\ Checked > 0 => FinishCheck /\ Due' = Due /\ Checked' = Checked - 1
           /\ Checked = 0 => /\ Due # <<>> /\ Due' = Tail(Due) /\ Checked' = Checked
                             /\ Due[1] \notin ToSet(inputs["terminal"])
                             /\ IF OnTerminate = {} THEN FinishCheck ELSE FinishDone
           /\ Calls(Tail(queue), Len(deferred), inputs["terminal"], Checked', Due')
<1>0. checks \in Seq(Sessions) /\ dones \in Seq(Runs) /\ Checked \in Nat
  BY DueTyped DEF Typed, TypeOK, CleanTypeOK
<1> DEFINE p == Tail(queue)
           e == Len(deferred)
           u == inputs["terminal"]
<1>1. /\ Checked > 0 => Calls(p, e, u, Checked - 1, Due)
      /\ Checked = 0 => Due # <<>> /\ Calls(p, e, u, Checked, Tail(Due)) /\ Due[1] \notin ToSet(u)
  <2>1. queue # <<>> /\ Head(queue) = "finish"
    BY DEF ExecFinish, Pop
  <2>2. CallsTyped(queue, e, u, Checked, Due) /\ Calls(queue, e, u, Checked, Due)
    BY CallsAreTyped DEF CallsInv
  <2> HIDE DEF e, u
  <2> QED
    BY <2>1, <2>2, CallsFinish
<1> HIDE DEF p, e, u
<1>2. FinishCheck \/ FinishNothing \/ FinishDone
  BY FinishHow
<1>3. CASE OnTerminate = {}
  <2>1. Checked = 0 /\ Due = checks /\ checks # <<>>
    BY <1>1, <1>3 DEF Checked, Due
  <2>2. FinishCheck
    BY <1>2, <2>1 DEF FinishNothing, FinishDone
  <2>3. Due' = Tail(Due) /\ Checked' = Checked
    BY <1>3, <2>1, <2>2 DEF FinishCheck, Checked, Due
  <2> QED
    BY <1>1, <1>3, <2>1, <2>2, <2>3 DEF p, e, u
<1>4. CASE OnTerminate # {}
  <2>1. Checked = Len(checks) /\ Due = [k \in DOMAIN dones |-> dones[k].session]
        /\ Checked' = Len(checks') /\ Due' = [k \in DOMAIN dones' |-> dones'[k].session]
    BY <1>4 DEF Checked, Due
  <2>2. CASE FinishCheck
    <3>1. checks # <<>> /\ checks' = Tail(checks) /\ dones' = dones
      BY <2>2 DEF FinishCheck
    <3>2. Checked > 0 /\ Checked' = Checked - 1 /\ Due' = Due
      BY <1>0, <2>1, <3>1
    <3> QED
      BY <1>0, <1>1, <2>2, <3>2 DEF p, e, u
  <2>3. CASE FinishNothing \/ FinishDone
    <3>1. checks = <<>> /\ checks' = checks
      BY <2>3 DEF FinishNothing, FinishDone
    <3>2. Checked = 0 /\ Checked' = Checked
      BY <2>1, <3>1
    <3>3. Due # <<>>
      BY <1>1, <3>2
    <3>4. dones # <<>>
      <4>1. CASE dones = <<>>
        <5>1. DOMAIN dones = {} /\ Due = [k \in {} |-> dones[k].session]
          BY <2>1, <4>1
        <5>2. Due \in Seq(Sessions) /\ DOMAIN Due = {}
          BY <5>1, DueTyped
        <5> QED
          BY <3>3, <5>2
      <4> QED
        BY <4>1
    <3>5. FinishDone /\ dones' = Tail(dones)
      BY <2>3, <3>4 DEF FinishNothing, FinishDone
    <3>6. Due' = Tail(Due)
      <4>1. /\ Len(dones) \in Nat /\ Len(dones) > 0 /\ DOMAIN dones = 1..Len(dones)
            /\ DOMAIN dones' = 1..(Len(dones) - 1)
            /\ \A k \in 1..(Len(dones) - 1) : dones'[k] = dones[k + 1]
        BY <1>0, <3>4, <3>5
      <4>2. Due \in Seq(Sessions) /\ Len(Due) = Len(dones)
        BY <2>1, <4>1, DueTyped
      <4>3. /\ Tail(Due) \in Seq(Sessions) /\ DOMAIN Tail(Due) = 1..(Len(dones) - 1)
            /\ \A k \in 1..(Len(dones) - 1) : Tail(Due)[k] = Due[k + 1]
        BY <3>3, <4>1, <4>2
      <4>4. \A k \in 1..(Len(dones) - 1) : k + 1 \in DOMAIN dones /\ Due[k + 1] = dones[k + 1].session
        BY <2>1, <4>1
      <4> DEFINE a == Tail(Due)
      <4>5. a = [k \in DOMAIN a |-> a[k]]
        <5> HIDE DEF a
        <5>1. a \in Seq(Sessions)
          BY <4>3 DEF a
        <5> QED
          BY <5>1
      <4>6. \A k \in 1..(Len(dones) - 1) : a[k] = dones'[k].session
        BY <4>1, <4>3, <4>4
      <4>7. DOMAIN a = DOMAIN dones'
        BY <4>1, <4>3
      <4> HIDE DEF a
      <4> QED
        BY <2>1, <4>1, <4>5, <4>6, <4>7 DEF a
    <3> QED
      BY <1>0, <1>1, <1>4, <3>2, <3>5, <3>6 DEF p, e, u
  <2> QED
    BY <1>2, <2>2, <2>3
<1> QED
  BY <1>3, <1>4

LEMMA ExecFinishCalls ==
    ASSUME Uniform, Typed, EndInv, CleanInv, CallsInv, ExecFinish
    PROVE  CallsInv'
<1> DEFINE p == Tail(queue)
           e == Len(deferred)
           u == inputs["terminal"]
<1>1. /\ queue' = p /\ Len(deferred') = e /\ queue # <<>>
      /\ e \in Nat /\ u \in Seq(Sessions) /\ queue \in Seq(Queued)
  BY CallsAreTyped DEF ExecFinish, Pop
<1>2. p \in Seq(Queued)
  BY <1>1, TailSet
<1>3. Calls(p, e, u, Checked', Due')
  BY FinishDue
<1>4. Due' \in Seq(Sessions) /\ Checked' \in Nat
  <2>1. Due \in Seq(Sessions) /\ Checked \in Nat
    BY DueTyped
  <2>2. Checked > 0 => Due' = Due /\ Checked' = Checked - 1
    BY FinishDue
  <2>3. Checked = 0 => Due # <<>> /\ Due' = Tail(Due) /\ Checked' = Checked
    BY FinishDue
  <2> QED
    BY <2>1, <2>2, <2>3
<1> HIDE DEF p, e, u
<1>5. CallsTyped(p, e, u, Checked', Due')
  BY <1>1, <1>2, <1>4 DEF CallsTyped
<1>6. CASE inputs'["terminal"] = u
  BY <1>1, <1>3, <1>6 DEF CallsInv
<1>7. ASSUME NEW gone, inputs'["terminal"] = Without(u, gone) PROVE CallsInv'
  <2>1. Calls(p, e, Without(u, gone), Checked', Due')
    BY <1>3, <1>5, CallsLess
  <2> QED
    BY <1>1, <1>7, <2>1 DEF CallsInv
<1> QED
  BY <1>6, <1>7, FinishInputs DEF u

LEMMA StepCalls ==
    ASSUME Uniform, Typed, EndInv, CleanInv, QueueInv, [Next]_vars
    PROVE  QueueInv'
<1>0. CallsInv /\ Defers /\ LateActive
  BY DEF QueueInv
<1> SUFFICES CallsInv'
  BY <1>0, StepDefers, StepLate DEF QueueInv
<1>1. CASE \/ CleanSession \/ HandleCancel \/ Validate \/ OtherOperation
           \/ \E T \in SUBSET Sessions : Collect(T)
           \/ \E s \in Sessions : CollectTask(s) \/ SupplantTask(s)
           \/ \E r \in runs : CleanupWorkflowCancelled(r)
           \/ \E p \in Parents : OuterCleanup(p) \/ OuterStop(p)
           \/ UNCHANGED vars
  BY <1>0, <1>1, SameCalls
<1>2. CASE TriggerCleanup \/ PopNothing \/ ExecScope \/ ExecAsync \/ ExecTerminal \/ ExecFinish
           \/ CollectDeferred
  BY <1>0, <1>2, TriggerCleanupCalls, PopNothingCalls, ExecScopeCalls, ExecAsyncCalls,
     ExecTerminalCalls, ExecFinishCalls, CollectDeferredCalls
<1>3. ASSUME NEW toFilter \in BOOLEAN, NEW toAsync \in BOOLEAN, NEW n \in 0..MaxOutputs,
             ExecFork(toFilter, toAsync, n)
      PROVE  CallsInv'
  BY <1>0, <1>3, ExecForkCalls
<1>4. CASE \/ \E pass \in BOOLEAN : ExecFilter(pass)
           \/ \E s \in Sessions : TaskDone(s)
           \/ \E r \in runs : CleanupWorkflowDone(r)
           \/ \E p \in Parents : OuterInput(p)
  BY <1>0, <1>4, ExecFilterCalls, TaskDoneCalls, CleanupWorkflowDoneCalls, OuterInputCalls
<1>5. {s \in Sessions : arriving[s] # NoItem} \in SUBSET Sessions
  OBVIOUS
<1> QED
  BY <1>1, <1>2, <1>3, <1>4, <1>5 DEF Next, FlushStep

LEMMA InitCalls == Init => QueueInv
<1> SUFFICES ASSUME Init PROVE QueueInv
  OBVIOUS
<1>1. queue = <<>> /\ deferred = <<>> /\ inputs["terminal"] = <<>> /\ checks = <<>> /\ dones = <<>>
  BY DEF Init
<1>2. Total(queue, "finish") = 0 /\ Total(queue, "terminal") = 0
  <2>1. queue \in Seq(Queued) /\ Len(queue) = 0 /\ \A i \in 1..Len(queue) : queue[i] = "scope"
    BY <1>1
  <2> QED
    BY <2>1, TimesOf
<1>3. Len(deferred) = 0 /\ Len(inputs["terminal"]) = 0 /\ DOMAIN inputs["terminal"] = {}
  BY <1>1
<1>4. Due \in Seq(Sessions) /\ Checked = 0 /\ DOMAIN Due = {}
  <2>1. Typed
    BY InitTyped, InitOwned DEF Typed
  <2>2. Due \in Seq(Sessions)
    BY <2>1, DueTyped
  <2>3. DOMAIN checks = {} /\ DOMAIN dones = {} /\ Len(checks) = 0
    BY <1>1
  <2> QED
    BY <2>2, <2>3 DEF Due, Checked
<1>5. Len(Due) \in Nat
  BY <1>4
<1> QED
  BY <1>1, <1>2, <1>3, <1>4, <1>5 DEF QueueInv, CallsInv, Calls, Defers, LateActive

-----------------------------------------------------------------------------
(* A session that was finalized has left nothing behind *)

\* What is left of a session that was finalized is its entry, if its parent waits for it.
Rest ==
    \A s \in Sessions : finals[s] > 0 =>
        /\ s \notin staging /\ s \notin ToSet(inputs["terminal"])
        /\ \A a \in ToSet(awaiting) : a.session = s => a.why = "EarlyCleanup"

\* Entry i of aw may be finalized: nothing of its session is on the way to the terminal
\* unless it is thrown away.
Final(aw, i) ==
    /\ aw \in Seq(Entries) /\ Distinct(aw) /\ i \in DOMAIN aw
    /\ aw[i].left = {} /\ begun[aw[i].session] > 0
    /\ \A b \in ToSet(aw) : \E a \in ToSet(awaiting) : Lessened(b, a)
    /\ aw[i].why = "Terminated" => aw[i].session \notin ToSet(inputs["terminal"])

LEMMA FinalizeHow ==
    ASSUME Uniform, Typed, EndInv, CleanInv, CallsInv, ExecFinish
    PROVE  \/ UNCHANGED <<staging, inputs, finals>>
           \/ \E aw, i : Final(aw, i) /\ FinalizeSession(i, aw)
<1>0. /\ awaiting \in Seq(Entries) /\ checks \in Seq(Sessions) /\ dones \in Seq(Runs)
      /\ Distinct(awaiting) /\ begun \in [Sessions -> Nat] /\ Checked \in Nat
  BY DueTyped DEF Typed, TypeOK, CleanTypeOK, Entries, EndInv, OneEach
<1>1. CASE FinishCheck
  <2>1. checks # <<>>
    BY <1>1 DEF FinishCheck
  <2>2. ASSUME NEW i \in DOMAIN awaiting, awaiting[i].session = Head(checks), awaiting[i].left = {},
               FinalizeSession(i, awaiting)
        PROVE  Final(awaiting, i)
    <3>1. awaiting[i] \in ToSet(awaiting) /\ awaiting[i].session \in ToSet(checks)
      BY <1>0, <2>1, <2>2, TailSet DEF ToSet
    <3>2. Waits(awaiting[i]) /\ awaiting[i].session \in Sessions
      BY <3>1, EntriesTyped DEF CleanInv
    <3>3. awaiting[i].why = "Terminated" => awaiting[i].session \notin ToSet(inputs["terminal"])
      <4>1. CASE OnTerminate # {}
        BY <2>2, <3>1, <3>2, <4>1 DEF Waits
      <4>2. CASE OnTerminate = {}
        <5>1. Checked = 0 /\ Due = checks
          BY <4>2 DEF Checked, Due
        <5>2. Due[1] \notin ToSet(inputs["terminal"])
          BY <5>1, FinishDue
        <5>3. Head(checks) = checks[1]
          BY <1>0, <2>1
        <5> QED
          BY <2>2, <5>1, <5>2, <5>3
      <4> QED
        BY <4>1, <4>2
    <3>4. begun[awaiting[i].session] > 0
      <4>1. Stage(awaiting[i].session) /\ begun[awaiting[i].session] \in Nat
        BY <1>0, <3>2 DEF EndInv
      <4> QED
        BY <3>1, <4>1 DEF Stage
    <3>5. \A b \in ToSet(awaiting) : Lessened(b, b)
      BY DEF Lessened
    <3> QED
      BY <1>0, <2>2, <3>3, <3>4, <3>5 DEF Final
  <2> QED
    BY <1>1, <2>2 DEF FinishCheck, Unfinalized, nodeVars
<1>2. CASE FinishNothing
  BY <1>2 DEF FinishNothing, Unfinalized, nodeVars
<1>3. CASE FinishDone
  <2>1. checks = <<>> /\ dones # <<>>
    BY <1>3 DEF FinishDone
  <2>2. OnTerminate # {}
    <3>1. CASE OnTerminate = {}
      <4>1. Checked = 0
        BY <3>1 DEF Checked
      <4>2. FinishCheck
        BY <3>1, <4>1, FinishDue
      <4> QED
        BY <2>1, <4>2 DEF FinishCheck
    <3> QED
      BY <3>1
  <2>3. Head(dones).session \notin ToSet(inputs["terminal"])
    <3>1. Checked = 0 /\ Due = [k \in DOMAIN dones |-> dones[k].session]
      BY <2>1, <2>2 DEF Checked, Due
    <3>2. Due[1] \notin ToSet(inputs["terminal"])
      BY <3>1, FinishDue
    <3>3. 1 \in DOMAIN dones /\ Head(dones) = dones[1]
      BY <1>0, <2>1
    <3> QED
      BY <3>1, <3>2, <3>3
  <2>4. ASSUME NEW aw, NEW i, NEW l, Deducted(aw, i, l), l = {}, FinalizeSession(i, aw)
        PROVE  Final(aw, i)
    <3>1. /\ aw \in Seq(Entries) /\ i \in DOMAIN aw /\ Updated(aw)
          /\ \A b \in ToSet(aw) : \E a \in ToSet(awaiting) : Lessened(b, a)
      BY <1>0, <2>1, <2>4, DeductedIs
    <3>2. Distinct(aw)
      BY <1>0, <3>1, UpdatedDistinct
    <3>3. aw[i].left = {} /\ aw[i].session = awaiting[i].session /\ i \in DOMAIN awaiting
      BY <2>4 DEF Deducted, LeftSet
    <3>4. awaiting[i] \in ToSet(awaiting)
      BY <1>0, <3>3 DEF ToSet
    <3>5. awaiting[i].left # None /\ Head(dones) \in awaiting[i].left
      BY <2>4 DEF Deducted
    <3>6. begun[aw[i].session] > 0
      BY <3>3, <3>4, <3>5 DEF EndInv, Entry
    <3>7. Head(dones).session = aw[i].session
      BY <3>3, <3>4, <3>5 DEF CleanInv, Waits
    <3> QED
      BY <2>3, <3>1, <3>2, <3>3, <3>6, <3>7 DEF Final
  <2> QED
    BY <1>3, <2>4 DEF FinishDone, Unfinalized, nodeVars
<1> QED
  BY <1>1, <1>2, <1>3, FinishHow

\* Its entry leaves, if its parent does not wait for it.
LEMMA EntryLeaves ==
    ASSUME NEW aw, NEW i, Final(aw, i), FinalizeSession(i, aw)
    PROVE  \A b \in ToSet(awaiting') : b.session = aw[i].session => b.why = "EarlyCleanup"
<1> DEFINE a == aw[i]
           rest == EntriesKept(i, aw)
<1>1. /\ aw \in Seq(Entries) /\ i \in 1..Len(aw) /\ IsInjective(aw) /\ a \in ToSet(aw)
      /\ \A b \in ToSet(aw) : b.session = a.session => b = a
  BY DEF Final, Distinct, ToSet
<1>2. rest \in Seq(Entries) /\ \A b \in ToSet(rest) : b.session = a.session => b.why = "EarlyCleanup"
  <2>1. CASE a.why = "EarlyCleanup"
    <3>1. rest = aw
      BY <2>1 DEF EntriesKept
    <3> QED
      BY <1>1, <2>1, <3>1
  <2>2. CASE a.why # "EarlyCleanup"
    <3>1. rest = RemoveAt(aw, i)
      BY <2>2 DEF EntriesKept
    <3>2. \A b : b \in ToSet(RemoveAt(aw, i)) <=> b \in ToSet(aw) /\ b # aw[i]
      BY <1>1, RemoveAtSet
    <3>3. RemoveAt(aw, i) \in Seq(Entries)
      BY <1>1, RemoveAtIs
    <3> HIDE DEF rest
    <3> QED
      BY <1>1, <3>1, <3>2, <3>3
  <2> QED
    BY <2>1, <2>2
<1>3. awaiting' = rest \/ \E gone : awaiting' = Without(rest, gone)
  BY DEF FinalizeSession
<1> HIDE DEF rest
<1>4. \A gone : ToSet(Without(rest, gone)) \subseteq ToSet(rest)
  BY <1>2, WithoutSet
<1>5. ToSet(awaiting') \subseteq ToSet(rest)
  BY <1>3, <1>4
<1> QED
  BY <1>2, <1>5

LEMMA ExecFinishRest ==
    ASSUME Uniform, Typed, EndInv, CleanInv, CallsInv, Rest, ExecFinish
    PROVE  Rest'
<1>0. inputs["terminal"] \in Seq(Sessions) /\ finals \in [Sessions -> Nat] /\ "terminal" \in DOMAIN inputs
  BY CallsAreTyped DEF Typed, TypeOK, InputsOK, Nodes
<1>1. \A a \in ToSet(awaiting') : \E b \in ToSet(awaiting) : b.session = a.session /\ b.why = a.why
  BY FinishLessens DEF Lessened
<1>2. CASE UNCHANGED <<staging, inputs, finals>>
  BY <1>1, <1>2 DEF Rest
<1>3. ASSUME NEW aw, NEW i, Final(aw, i), FinalizeSession(i, aw) PROVE Rest'
  <2>1. PICK s \in Sessions : s = aw[i].session
    <3>1. aw[i] \in Entries
      BY <1>3 DEF Final
    <3> QED
      BY <3>1 DEF Entries
  <2>2. staging' = staging \ {s} /\ finals' = [finals EXCEPT ![s] = @ + 1]
    BY <1>3, <2>1 DEF FinalizeSession, StagingLeft
  <2>3. /\ ToSet(inputs'["terminal"]) \subseteq ToSet(inputs["terminal"])
        /\ s \notin ToSet(inputs'["terminal"])
    <3>1. CASE aw[i].why = "Terminated"
      BY <1>3, <2>1, <3>1 DEF Final, FinalizeSession
    <3>2. CASE aw[i].why # "Terminated"
      <4>1. inputs'["terminal"] = Without(inputs["terminal"], {s})
        BY <1>0, <1>3, <2>1, <3>2 DEF FinalizeSession
      <4>2. ToSet(Without(inputs["terminal"], {s})) = ToSet(inputs["terminal"]) \ {s}
        BY <1>0, WithoutSet
      <4> QED
        BY <4>1, <4>2
    <3> QED
      BY <3>1, <3>2
  <2>4. \A a \in ToSet(awaiting') : a.session = s => a.why = "EarlyCleanup"
    BY <1>3, <2>1, EntryLeaves
  <2>5. \A t \in Sessions \ {s} : finals'[t] = finals[t]
    BY <1>0, <2>2
  <2> QED
    BY <1>1, <2>2, <2>3, <2>4, <2>5 DEF Rest
<1> QED
  BY <1>2, <1>3, FinalizeHow

\* What the other steps may add to.
Arrives ==
    /\ \A t : t \in staging' => t \in staging \/ t \in ToSet(inputs["terminal"])
    /\ \A t : t \in ToSet(inputs'["terminal"]) => t \in ToSet(inputs["terminal"]) \/ t \in active
    /\ \A a \in ToSet(awaiting') :
          Closing(a.session) \/ \E b \in ToSet(awaiting) : b.session = a.session /\ b.why = a.why

LEMMA ArrivesRest ==
    ASSUME Typed, EndInv, Rest, Arrives, UNCHANGED finals
    PROVE  Rest'
<1> SUFFICES ASSUME NEW s \in Sessions, finals[s] > 0
             PROVE  /\ s \notin staging' /\ s \notin ToSet(inputs'["terminal"])
                    /\ \A a \in ToSet(awaiting') : a.session = s => a.why = "EarlyCleanup"
  BY DEF Rest
<1>1. Stage(s) /\ Work(s) /\ begun[s] \in Nat /\ finals[s] \in Nat
  BY DEF EndInv, Typed, TypeOK
<1>2. begun[s] # 0 /\ begun[s] > 0
  BY <1>1 DEF Stage
<1>3. s \notin active /\ ~Closing(s)
  BY <1>1, <1>2 DEF Stage, Work
<1> QED
  BY <1>3 DEF Rest, Arrives

\* Nothing comes to the terminal.
LEMMA StillArrives ==
    ASSUME inputs'["terminal"] = inputs["terminal"], UNCHANGED <<staging, awaiting>>
    PROVE  Arrives
BY DEF Arrives

LEMMA GivenArrives ==
    ASSUME InputsOK(inputs), NEW s \in Sessions, NEW n \in Nat,
           inputs'["terminal"] = Give("terminal", s, n), UNCHANGED <<staging, awaiting>>
    PROVE  Arrives
<1>1. "terminal" \in Inner \cup {"terminal"}
  OBVIOUS
<1>2. \A t : t \in ToSet(Give("terminal", s, n)) <=>
                t \in ToSet(inputs["terminal"]) \/ (t = s /\ s \in active /\ n > 0)
  BY <1>1, GiveIs
<1> QED
  BY <1>2 DEF Arrives

LEMMA NodesArrive ==
    ASSUME Typed,
           \/ ExecScope \/ ExecAsync \/ ExecTerminal
           \/ \E toFilter, toAsync \in BOOLEAN, n \in 0..MaxOutputs : ExecFork(toFilter, toAsync, n)
           \/ \E pass \in BOOLEAN : ExecFilter(pass)
           \/ \E s \in Sessions : TaskDone(s)
           \/ \E p \in Parents : OuterInput(p)
    PROVE  Arrives
<1>0. InputsOK(inputs) /\ "terminal" \in DOMAIN inputs
  BY CallsAreTyped DEF InputsOK, Nodes
<1>1. CASE ExecScope \/ ExecAsync \/ \E p \in Parents : OuterInput(p)
  <2>1. UNCHANGED <<staging, awaiting>>
    BY <1>1 DEF ExecScope, ExecAsync, OuterInput, cleanVars
  <2>2. inputs'["terminal"] = inputs["terminal"]
    <3>1. CASE ExecScope
      <4>1. \/ UNCHANGED inputs
            \/ \E s : inputs' = [inputs EXCEPT !["scope"] = Tail(@), !["fork"] = Append(@, s)]
        BY <3>1 DEF ExecScope
      <4> QED
        BY <1>0, <4>1
    <3>2. CASE ExecAsync
      <4>1. inputs' = [inputs EXCEPT !["async"] = Tail(@)]
        BY <3>2 DEF ExecAsync
      <4> QED
        BY <1>0, <4>1
    <3>3. ASSUME NEW p \in Parents, OuterInput(p) PROVE inputs'["terminal"] = inputs["terminal"]
      <4>1. inputs' = [inputs EXCEPT !["scope"] = Append(inputs["scope"], p)]
        BY <3>3 DEF OuterInput
      <4> QED
        BY <1>0, <4>1, OtherInput
    <3> QED
      BY <1>1, <3>1, <3>2, <3>3
  <2> QED
    BY <2>1, <2>2, StillArrives
<1>2. CASE ExecTerminal
  <2>1. /\ inputs["terminal"] # <<>> /\ inputs' = [inputs EXCEPT !["terminal"] = Tail(@)]
        /\ staging' = staging \cup {Head(inputs["terminal"])} /\ UNCHANGED awaiting
    BY <1>2 DEF ExecTerminal, cleanVars
  <2>2. inputs["terminal"] \in Seq(Sessions)
    BY CallsAreTyped
  <2>3. inputs'["terminal"] = Tail(inputs["terminal"])
    BY <1>0, <2>1
  <2>4. ToSet(inputs["terminal"]) = {Head(inputs["terminal"])} \cup ToSet(Tail(inputs["terminal"]))
    BY <2>1, <2>2, TailSet
  <2> QED
    BY <2>1, <2>3, <2>4 DEF Arrives
<1>3. ASSUME NEW toFilter \in BOOLEAN, NEW toAsync \in BOOLEAN, NEW n \in 0..MaxOutputs,
             ExecFork(toFilter, toAsync, n)
      PROVE  Arrives
  <2>1. PICK s : /\ s = Head(inputs["fork"]) /\ inputs["fork"] # <<>>
                 /\ inputs' = [inputs EXCEPT !["fork"] = Tail(@),
                                 !["filter"] = Give("filter", s, IF toFilter THEN 1 ELSE 0),
                                 !["async"] = Give("async", s, IF toAsync THEN 1 ELSE 0),
                                 !["terminal"] = Give("terminal", s, n)]
    BY <1>3 DEF ExecFork
  <2>2. s \in Sessions /\ n \in Nat
    <3>1. inputs["fork"] \in Seq(Sessions)
      BY <1>0 DEF InputsOK, Inner
    <3> QED
      BY <2>1, <3>1
  <2>3. inputs'["terminal"] = Give("terminal", s, n)
    BY <1>0, <2>1
  <2>4. UNCHANGED <<staging, awaiting>>
    BY <1>3 DEF ExecFork, cleanVars
  <2> QED
    BY <1>0, <2>2, <2>3, <2>4, GivenArrives
<1>4. ASSUME NEW pass \in BOOLEAN, ExecFilter(pass) PROVE Arrives
  <2>1. PICK n \in {0, 1} : n = IF pass THEN 1 ELSE 0
    OBVIOUS
  <2>2. PICK s : /\ s = Head(inputs["filter"]) /\ inputs["filter"] # <<>>
                 /\ inputs' = [inputs EXCEPT !["filter"] = Tail(@), !["terminal"] = Give("terminal", s, n)]
    BY <1>4, <2>1 DEF ExecFilter
  <2>3. s \in Sessions
    <3>1. inputs["filter"] \in Seq(Sessions)
      BY <1>0 DEF InputsOK, Inner
    <3> QED
      BY <2>2, <3>1
  <2>4. inputs'["terminal"] = Give("terminal", s, n)
    BY <1>0, <2>2
  <2>5. UNCHANGED <<staging, awaiting>>
    BY <1>4 DEF ExecFilter, cleanVars
  <2> QED
    BY <1>0, <2>3, <2>4, <2>5, GivenArrives
<1>5. ASSUME NEW s \in Sessions, TaskDone(s) PROVE Arrives
  <2>1. inputs' = [inputs EXCEPT !["terminal"] = Give("terminal", s, 1)] /\ UNCHANGED <<staging, awaiting>>
    BY <1>5 DEF TaskDone, cleanVars
  <2>2. inputs'["terminal"] = Give("terminal", s, 1)
    BY <1>0, <2>1
  <2> QED
    BY <1>0, <2>1, <2>2, GivenArrives
<1> QED
  BY <1>1, <1>2, <1>3, <1>4, <1>5

LEMMA CleanSessionArrives ==
    ASSUME Typed, CleanSession
    PROVE  Arrives
<1>1. PICK c \in closing :
        /\ awaiting' = Append(awaiting, [session |-> c.session, id |-> c.id, why |-> c.why, left |-> None])
        /\ inputs' = [node \in DOMAIN inputs |->
                        IF node \in Inner THEN Without(inputs[node], {c.session}) ELSE inputs[node]]
        /\ UNCHANGED staging
  BY DEF CleanSession
<1>2. inputs'["terminal"] = inputs["terminal"]
  <2>1. "terminal" \in DOMAIN inputs /\ "terminal" \notin Inner
    BY CallsAreTyped DEF InputsOK, Nodes, Inner
  <2> QED
    BY <1>1, <2>1
<1> DEFINE a == [session |-> c.session, id |-> c.id, why |-> c.why, left |-> None]
<1>3. a \in Entries /\ a.session = c.session /\ awaiting \in Seq(Entries)
  BY <1>1 DEF Typed, TypeOK, CleanTypeOK, Entries
<1>4. awaiting' = Append(awaiting, a)
  BY <1>1
<1> HIDE DEF a
<1>5. ToSet(awaiting') = ToSet(awaiting) \cup {a}
  BY <1>3, <1>4, AppendSet
<1>6. \A b \in ToSet(awaiting') : b \in ToSet(awaiting) \/ Closing(b.session)
  BY <1>1, <1>3, <1>5 DEF Closing
<1> QED
  BY <1>1, <1>2, <1>6 DEF Arrives

\* The entry that is told of its cleanup workflows stays the same session's.
LEMMA TriggerCleanupHas ==
    ASSUME Typed, TriggerCleanup
    PROVE  \A a \in ToSet(awaiting') : \E b \in ToSet(awaiting) : b.session = a.session /\ b.why = a.why
<1> DEFINE s == Last(finished).session
           i == EntryOf(s)
<1>0. awaiting \in Seq(Entries) /\ awaiting' \in Seq(Entries)
  <2>1. TypeOK'
    BY TriggerCleanupTyped DEF Typed
  <2> QED
    BY <2>1 DEF Typed, TypeOK, CleanTypeOK, Entries
<1>1. \/ UNCHANGED awaiting
      \/ i # 0 /\ \E l : awaiting' = [awaiting EXCEPT ![i].left = l]
  BY DEF TriggerCleanup
<1>2. i = 0 \/ i \in DOMAIN awaiting
  <2> HIDE DEF s
  <2> QED
    BY <1>0, EntryFound
<1> HIDE DEF i
<1>3. CASE UNCHANGED awaiting
  BY <1>3
<1>4. CASE i # 0 /\ \E l : awaiting' = [awaiting EXCEPT ![i].left = l]
  <2>1. PICK l : awaiting' = [awaiting EXCEPT ![i].left = l]
    BY <1>4
  <2>2. DOMAIN awaiting' = DOMAIN awaiting
    BY <2>1
  <2>3. \A j \in DOMAIN awaiting : awaiting[j] \in Entries
    BY <1>0
  <2>4. \A j \in DOMAIN awaiting : awaiting'[j].session = awaiting[j].session
                                 /\ awaiting'[j].why = awaiting[j].why
    BY <1>2, <1>4, <2>1, <2>3 DEF Entries
  <2>5. Updated(awaiting')
    BY <1>0, <2>2, <2>4 DEF Updated
  <2> QED
    BY <1>0, <2>5, UpdatedWhys
<1> QED
  BY <1>1, <1>3, <1>4

LEMMA TriggerCleanupArrives ==
    ASSUME Typed, TriggerCleanup
    PROVE  Arrives
<1>1. UNCHANGED <<inputs, staging>>
  BY DEF TriggerCleanup, nodeVars
<1>2. \A a \in ToSet(awaiting') : \E b \in ToSet(awaiting) : b.session = a.session /\ b.why = a.why
  BY TriggerCleanupHas
<1> QED
  BY <1>1, <1>2 DEF Arrives

LEMMA InsideArrives ==
    ASSUME Typed,
           \/ HandleCancel \/ PopNothing \/ CollectDeferred \/ Validate \/ OtherOperation
           \/ \E T \in SUBSET Sessions : Collect(T)
           \/ \E s \in Sessions : CollectTask(s) \/ SupplantTask(s)
           \/ \E r \in runs : CleanupWorkflowDone(r) \/ CleanupWorkflowCancelled(r)
           \/ \E p \in Parents : OuterCleanup(p) \/ OuterStop(p)
           \/ UNCHANGED vars
    PROVE  Arrives /\ UNCHANGED finals
<1> SUFFICES inputs'["terminal"] = inputs["terminal"] /\ UNCHANGED <<staging, awaiting, finals>>
  BY StillArrives
<1>1. CASE HandleCancel \/ PopNothing \/ CollectDeferred \/ Validate \/ OtherOperation
  BY <1>1 DEF HandleCancel, PopNothing, CollectDeferred, Validate, OtherOperation, nodeVars,
     cleanVars, historyVars
<1>2. CASE \/ \E T \in SUBSET Sessions : Collect(T)
           \/ \E s \in Sessions : CollectTask(s) \/ SupplantTask(s)
           \/ \E r \in runs : CleanupWorkflowDone(r) \/ CleanupWorkflowCancelled(r)
           \/ \E p \in Parents : OuterStop(p)
           \/ UNCHANGED vars
  BY <1>2 DEF Collect, CollectTask, SupplantTask, CleanupWorkflowDone, CleanupWorkflowCancelled,
     OuterStop, nodeVars, cleanVars, historyVars, vars
<1>3. ASSUME NEW p \in Parents, OuterCleanup(p)
      PROVE  inputs'["terminal"] = inputs["terminal"] /\ UNCHANGED <<staging, awaiting, finals>>
  <2>1. inputs' = [inputs EXCEPT !["scope"] = Without(inputs["scope"], {p})]
        /\ UNCHANGED <<staging, awaiting, finals>>
    BY <1>3 DEF OuterCleanup, cleanVars
  <2>2. "terminal" \in DOMAIN inputs
    BY CallsAreTyped DEF InputsOK, Nodes
  <2> QED
    BY <2>1, <2>2, OtherInput
<1> QED
  BY <1>1, <1>2, <1>3

LEMMA StepRest ==
    ASSUME Uniform, Typed, EndInv, CleanInv, CallsInv, Rest, [Next]_vars
    PROVE  Rest'
<1>1. CASE ExecFinish
  BY <1>1, ExecFinishRest
<1>2. CASE \/ ExecScope \/ ExecAsync \/ ExecTerminal
           \/ \E toFilter, toAsync \in BOOLEAN, n \in 0..MaxOutputs : ExecFork(toFilter, toAsync, n)
           \/ \E pass \in BOOLEAN : ExecFilter(pass)
           \/ \E s \in Sessions : TaskDone(s)
           \/ \E p \in Parents : OuterInput(p)
  <2>1. UNCHANGED finals
    BY <1>2 DEF ExecScope, ExecAsync, ExecTerminal, ExecFork, ExecFilter, TaskDone, OuterInput,
       historyVars
  <2> QED
    BY <1>2, <2>1, NodesArrive, ArrivesRest
<1>3. CASE CleanSession \/ TriggerCleanup
  <2>1. UNCHANGED finals
    BY <1>3 DEF CleanSession, TriggerCleanup, historyVars
  <2> QED
    BY <1>3, <2>1, CleanSessionArrives, TriggerCleanupArrives, ArrivesRest
<1>4. CASE \/ HandleCancel \/ PopNothing \/ CollectDeferred \/ Validate \/ OtherOperation
           \/ \E T \in SUBSET Sessions : Collect(T)
           \/ \E s \in Sessions : CollectTask(s) \/ SupplantTask(s)
           \/ \E r \in runs : CleanupWorkflowDone(r) \/ CleanupWorkflowCancelled(r)
           \/ \E p \in Parents : OuterCleanup(p) \/ OuterStop(p)
           \/ UNCHANGED vars
  BY <1>4, InsideArrives, ArrivesRest
<1>5. {s \in Sessions : arriving[s] # NoItem} \in SUBSET Sessions
  OBVIOUS
<1> QED
  BY <1>1, <1>2, <1>3, <1>4, <1>5 DEF Next, FlushStep

LEMMA InitRest == Init => Rest
BY DEF Init, Rest

LEMMA RestIsNothing ==
    ASSUME ScopeInv, Rest
    PROVE  NothingLeftBehind
<1>0. Typed /\ EndInv /\ CleanInv /\ AskInv
  BY DEF ScopeInv
<1> SUFFICES ASSUME NEW s \in Sessions, finals[s] > 0
             PROVE  /\ s \notin staging /\ s \notin ToSet(inputs["terminal"])
                    /\ \A a \in ToSet(awaiting) :
                          a.session = s => a.why = "EarlyCleanup" /\ owner[s] \notin clean
                    /\ contents[s] = {}
  BY DEF NothingLeftBehind
<1>1. Stage(s) /\ Held(s) /\ begun[s] \in Nat /\ finals[s] \in Nat
  BY <1>0 DEF EndInv, CleanInv, Typed, TypeOK
<1>2. begun[s] # 0
  BY <1>1 DEF Stage
<1>3. contents[s] = {}
  BY <1>1, <1>2 DEF Held
<1>4. ASSUME NEW a \in ToSet(awaiting), a.session = s
      PROVE  a.why = "EarlyCleanup" /\ owner[s] \notin clean
  <2>1. a.why = "EarlyCleanup"
    BY <1>4 DEF Rest
  <2>2. Leaving(s)
    BY <1>4, <2>1 DEF Leaving
  <2> QED
    BY <1>0, <2>1, <2>2 DEF AskInv, Awaited
<1> QED
  BY <1>3, <1>4 DEF Rest

\* A session that was finalized has left nothing behind: no first output and no input at
\* the terminal, no node that is yet to be clean, and no entry in the list of cleanups but
\* the one its parent still waits for; if the outer workflow asks for a cleanup only while
\* the sessions are open, and a scope that has cleanup workflows has one for a session that
\* terminated (finalize_scoped_session, FinishCleanup::execute, OperateScope::cleanup).
THEOREM NothingIsLeft ==
    ASSUME EarlyCleanup # "any time", OnTerminate # {} \/ OnCancelled = {}
    PROVE  Spec => []NothingLeftBehind
<1>0. Uniform
  BY DEF Uniform
<1>1. Init => QueueInv /\ Rest
  BY InitCalls, InitRest
<1>2. ScopeInv /\ QueueInv /\ Rest /\ [Next]_vars => QueueInv' /\ Rest'
  <2> SUFFICES ASSUME ScopeInv, QueueInv, Rest, [Next]_vars PROVE QueueInv' /\ Rest'
    OBVIOUS
  <2>1. Typed /\ EndInv /\ CleanInv /\ CallsInv
    BY DEF ScopeInv, QueueInv
  <2> QED
    BY <1>0, <2>1, StepCalls, StepRest
<1>3. ScopeInv /\ Rest => NothingLeftBehind
  BY RestIsNothing
<1> QED
  BY <1>1, <1>2, <1>3, ScopeInvariant, PTL DEF Spec
=============================================================================
