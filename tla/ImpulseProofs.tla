--------------------------- MODULE ImpulseProofs ---------------------------
(***************************************************************************)
(* Theorems about Impulse for any chains and any plans of them: type        *)
(* correctness, and that a chain which is cancelled is over.                *)
(***************************************************************************)
EXTENDS Impulse, QueueLemmas

-----------------------------------------------------------------------------
(* The inductive invariant *)

\* Entities are those of chains that were made; so are whom the roster cancels and
\* whose response is promised.
Placed ==
    /\ \A e \in alive : e[1] \in made /\ e \in Entities(e[1])
    /\ ToSet(cancels) \subseteq made
    /\ \A c \in Chains : promise[c] # "none" => c \in made

\* Targets are unused only from the creation of a chain to the next collection, while
\* the chain is as it was made.
Fresh ==
    /\ unused # {} => phase \in {"app", "collect"}
    /\ \A e \in unused :
          /\ e[1] \in made /\ e \in Marked(e[1])
          /\ Entities(e[1]) \subseteq alive /\ orphans \cap Entities(e[1]) = {}

\* The last entity of a chain is never de-parented: only what hung below a dropped one is.
NotLast == \A e \in orphans : e # Final(e[1])

\* A chain that was not cut at a detached impulse is whole as long as its session
\* lives; the session goes when a response arrives, all of it goes when it is cancelled.
WholeOrOver(c) ==
    orphans \cap Entities(c) = {} =>
        /\ Session(c) \in alive => Entities(c) \subseteq alive
        /\ c \in arrived \/ promise[c] = "response" => Session(c) \notin alive
        /\ c \in cancelled =>
              alive \cap Entities(c) = {} /\ c \notin arrived /\ promise[c] # "response"

IInv == TypeOK /\ Placed /\ Fresh /\ NotLast /\ \A c \in Chains : WholeOrOver(c)

-----------------------------------------------------------------------------
(* Chains and their entities *)

Sets ==
    /\ alive \subseteq AllEntities /\ orphans \subseteq alive /\ unused \subseteq AllEntities
    /\ inputs \subseteq alive /\ ran \subseteq AllEntities /\ tasks \subseteq alive
    /\ awake \subseteq AllEntities /\ notices \subseteq AllEntities /\ asleep \subseteq AllEntities

Others ==
    /\ \A c \in Chains : plan[c] \in Plans[c]
    /\ made \subseteq Chains
    /\ queue \in Seq(Items) /\ deferred \in Seq(Items) /\ nextRoster \in Seq(Items)
    /\ cancels \in Seq(Chains)
    /\ promise \in [Chains -> {"none", "pending", "response", "cancelled", "dropped"}]
    /\ arrived \subseteq made /\ cancelled \subseteq made /\ unserved \subseteq made /\ broken \subseteq made
    /\ holder \in BOOLEAN /\ crashed \in BOOLEAN
    /\ phase \in {"app", "collect", "run", "again"}

LEMMA Parts == TypeOK <=> Sets /\ Others
<1>1. TypeOK => Sets
  <2> SUFFICES ASSUME TypeOK PROVE Sets
    OBVIOUS
  <2>1. \A s \in {alive, orphans, unused, inputs, ran, tasks, awake, notices, asleep} :
          s \subseteq AllEntities
    BY DEF TypeOK
  <2>2. inputs \subseteq alive /\ tasks \subseteq alive /\ orphans \subseteq alive
    BY DEF TypeOK
  <2> HIDE DEF TypeOK
  <2> QED
    BY <2>1, <2>2 DEF Sets
<1>2. TypeOK => Others
  BY DEF TypeOK, Others
<1>3. Sets => \A s \in {alive, orphans, unused, inputs, ran, tasks, awake, notices, asleep} :
          s \subseteq AllEntities
  BY DEF Sets
<1>4. Sets => inputs \subseteq alive /\ tasks \subseteq alive /\ orphans \subseteq alive
  BY DEF Sets
<1>5. Sets /\ Others => TypeOK
  BY <1>3, <1>4 DEF Others, TypeOK
<1> QED
  BY <1>1, <1>2, <1>5

LEMMA PartsNext == TypeOK' <=> Sets' /\ Others'
BY Parts, PTL

\* The entities of a chain: <<c, 0>> up to <<c, Length(c)>>.
LEMMA Shape ==
    ASSUME Others, NEW c \in Chains
    PROVE  /\ Length(c) \in Nat /\ Length(c) >= 1 /\ Length(c) <= MaxSteps
           /\ plan[c].detach \subseteq 1..Length(c)
           /\ Entities(c) \subseteq AllEntities
           /\ \A e \in Entities(c) : e[1] = c /\ e[2] \in 0..Length(c) /\ e = <<c, e[2]>>
           /\ \A p \in 0..Length(c) : <<c, p>> \in Entities(c)
           /\ Session(c) \in Entities(c) /\ Final(c) \in Entities(c)
<1>1. plan[c] \in Plans[c]
  BY DEF Others
<1>2. Length(c) \in 1..MaxSteps /\ MaxSteps \in Nat /\ plan[c].detach \subseteq 1..Length(c)
  BY <1>1, ImpulseAssumption DEF Length
<1> HIDE DEF Length
<1>3. Entities(c) \subseteq AllEntities
  BY <1>2 DEF Entities, AllEntities
<1> QED
  BY <1>2, <1>3 DEF Entities, Session, Final

LEMMA Apart ==
    ASSUME NEW c, NEW d, c # d
    PROVE  Entities(c) \cap Entities(d) = {}
BY DEF Entities

LEMMA ItemsOf ==
    ASSUME NEW e \in AllEntities
    PROVE  <<"step", e>> \in Items /\ <<"poll", e>> \in Items
BY DEF Items

\* The entities of chain c that exist.
LEMMA AliveOf ==
    ASSUME Placed, NEW c
    PROVE  \A f \in alive : f[1] = c <=> f \in Entities(c)
<1>1. \A f \in alive : f \in Entities(f[1])
  BY DEF Placed
<1>2. \A f \in Entities(c) : f[1] = c
  BY DEF Entities
<1> QED
  BY <1>1, <1>2

\* Without an orphan a chain is one family, that of its last entity.
LEMMA FamilyWhole ==
    ASSUME Others, Placed, NEW c \in Chains, NEW e \in Entities(c),
           orphans \cap Entities(c) = {}
    PROVE  Family(e) = {f \in alive : f[1] = c /\ f[2] <= e[2]}
<1>1. e[1] = c /\ e[2] \in 0..Length(c) /\ Length(c) \in Nat
  BY Shape
<1>2. ASSUME NEW f \in alive, f[1] = c, NEW q \in f[2]..(e[2] - 1)
      PROVE  <<c, q>> \notin orphans
  <2>1. f \in Entities(c)
    BY <1>2, AliveOf
  <2>2. f[2] \in 0..Length(c)
    BY <2>1, Shape
  <2>3. q \in 0..Length(c)
    BY <1>1, <2>2
  <2> QED
    BY <2>3, Shape
<1> QED
  BY <1>1, <1>2 DEF Family

LEMMA FamilyIn ==
    ASSUME NEW e
    PROVE  /\ Family(e) \subseteq alive /\ \A f \in Family(e) : f[1] = e[1]
           /\ Dropped(e) \subseteq Family(e) /\ Spared(e) \subseteq Family(e)
BY DEF Family, Dropped, Spared

\* What drop_target despawns of a chain that was not cut: its session, unless a
\* detached impulse is spared, which then no other unused target of the chain drops.
LEMMA SessionDropped ==
    ASSUME Others, Placed, Fresh, NEW e \in unused
    PROVE  \/ Session(e[1]) \in Dropped(e)
           \/ \E g \in Spared(e) : \A d \in unused : g \notin Dropped(d)
<1> DEFINE c == e[1]
           Below(d) == {f \in Family(d) \ {d} : IsDetached(f)}
<1>1. c \in Chains /\ made \subseteq Chains
  BY DEF Fresh, Others
<1>2. \A d \in unused : d[1] = c =>
         /\ d \in Entities(c) /\ ~IsDetached(d)
         /\ Family(d) = {f \in alive : f[1] = c /\ f[2] <= d[2]}
  <2>1. ASSUME NEW d \in unused, d[1] = c
        PROVE  d \in Entities(c) /\ ~IsDetached(d) /\ orphans \cap Entities(c) = {}
    BY <2>1 DEF Fresh, Marked
  <2> QED
    BY <2>1, <1>1, FamilyWhole
<1>3. /\ e \in Entities(c) /\ Session(c) \in Family(e)
      /\ Length(c) \in Nat
  <2>1. e \in Entities(c) /\ Length(c) \in Nat /\ e[2] \in 0..Length(c)
    BY <1>1, <1>2, Shape
  <2>2. Session(c) \in alive
    BY <1>1, Shape DEF Fresh
  <2> QED
    BY <1>2, <2>1, <2>2 DEF Session
<1>4. \A d \in unused : d[1] = c => \A f \in Family(d) : f[2] \in 0..Length(c)
  BY <1>1, <1>2, AliveOf, Shape
<1>5. ASSUME NEW d \in unused, d[1] = c, Below(d) # {}
      PROVE  \E h \in Spared(d) : \A f \in Below(d) : f[2] <= h[2]
  <2> DEFINE T == {Length(c) - f[2] : f \in Below(d)}
  <2>1. T \in SUBSET Nat /\ T # {}
    BY <1>3, <1>4, <1>5
  <2>2. PICK n \in T : \A m \in T : n <= m
    BY <2>1, LeastNumber
  <2>3. PICK h \in Below(d) : n = Length(c) - h[2]
    BY <2>2
  <2>4. ASSUME NEW f \in Below(d) PROVE f[2] <= h[2]
    <3>1. f[2] \in 0..Length(c) /\ h[2] \in 0..Length(c)
      BY <1>4, <1>5
    <3>2. n <= Length(c) - f[2]
      BY <2>2
    <3> QED
      BY <2>3, <3>1, <3>2, <1>3
  <2> QED
    BY <2>4 DEF Spared
<1>6. CASE Below(e) = {}
  <2>1. Spared(e) = {}
    BY <1>6 DEF Spared
  <2> QED
    BY <1>3, <2>1 DEF Dropped
<1>7. CASE Below(e) # {}
  <2>1. PICK g \in Spared(e) : TRUE
    BY <1>5, <1>7
  <2>2. ASSUME NEW d \in unused, g \in Dropped(d) PROVE FALSE
    <3>1. d[1] = c /\ g[1] = c /\ IsDetached(g)
      BY <2>1, <2>2, FamilyIn DEF Spared
    <3>2. g \in Below(d)
      BY <1>2, <2>2, <3>1, FamilyIn
    <3>3. PICK h \in Spared(d) : \A f \in Below(d) : f[2] <= h[2]
      BY <1>5, <3>1, <3>2
    <3>4. g[2] > h[2] /\ g[2] <= h[2]
      BY <2>2, <3>2, <3>3 DEF Dropped
    <3>5. g[2] \in 0..Length(c) /\ h[2] \in 0..Length(c)
      BY <1>4, <3>1, <3>2, <3>3, FamilyIn
    <3> QED
      BY <1>3, <3>4, <3>5
  <2> QED
    BY <2>1, <2>2
<1> QED
  BY <1>6, <1>7

-----------------------------------------------------------------------------
(* Initial states, and steps that neither make nor despawn anything *)

LEMMA InitIInv == Init => IInv
<1> SUFFICES ASSUME Init PROVE IInv
  OBVIOUS
<1>1. Sets
  BY DEF Init, Sets
<1>2. Others
  <2>1. \A c \in Chains : plan[c] \in Plans[c]
    BY DEF Init
  <2>2. promise \in [Chains -> {"none", "pending", "response", "cancelled", "dropped"}]
    BY DEF Init
  <2>3. /\ made = {} /\ queue = <<>> /\ deferred = <<>> /\ nextRoster = <<>> /\ cancels = <<>>
        /\ arrived = {} /\ cancelled = {} /\ unserved = {} /\ broken = {}
        /\ holder = TRUE /\ crashed = FALSE /\ phase = "app"
    BY DEF Init
  <2>4. /\ queue \in Seq(Items) /\ deferred \in Seq(Items) /\ nextRoster \in Seq(Items)
        /\ cancels \in Seq(Chains)
    BY <2>3
  <2>5. /\ made \subseteq Chains /\ arrived \subseteq made /\ cancelled \subseteq made
        /\ unserved \subseteq made /\ broken \subseteq made
    BY <2>3
  <2>6. holder \in BOOLEAN /\ crashed \in BOOLEAN /\ phase \in {"app", "collect", "run", "again"}
    BY <2>3
  <2> QED
    BY <2>1, <2>2, <2>4, <2>5, <2>6 DEF Others
<1>3. Placed /\ Fresh /\ NotLast
  BY DEF Init, Placed, Fresh, NotLast, ToSet
<1>4. \A c \in Chains : WholeOrOver(c)
  BY DEF Init, WholeOrOver
<1> QED
  BY <1>1, <1>2, <1>3, <1>4, Parts DEF IInv

SamePlan == plan' = plan
Invs == Placed /\ Fresh /\ NotLast /\ \A c \in Chains : WholeOrOver(c)

LEMMA IInvIs == IInv <=> Sets /\ Others /\ Invs
BY Parts DEF IInv, Invs

LEMMA IInvNext == IInv' <=> Sets' /\ Others' /\ Invs'
BY IInvIs, PTL

LEMMA PlanKept ==
    ASSUME SamePlan, NEW c
    PROVE  /\ Length(c)' = Length(c) /\ Entities(c)' = Entities(c) /\ Marked(c)' = Marked(c)
           /\ Final(c)' = Final(c) /\ Session(c)' = Session(c)
<1>1. Length(c)' = Length(c)
  BY DEF SamePlan, Length
<1>2. Entities(c)' = Entities(c) /\ Final(c)' = Final(c) /\ Session(c)' = Session(c)
  BY <1>1 DEF Entities, Final, Session
<1>3. Marked(c)' = Marked(c)
  BY <1>2 DEF SamePlan, Marked, IsDetached
<1> QED
  BY <1>1, <1>2, <1>3

Quiet ==
    /\ SamePlan /\ UNCHANGED <<made, alive, orphans, unused, cancelled, arrived>>
    /\ ToSet(cancels') \subseteq made
    /\ \A c \in Chains : promise'[c] = promise[c] \/ (promise[c] = "pending" /\ promise'[c] = "dropped")
    /\ unused = {} \/ phase' \in {"app", "collect"}

LEMMA QuietKept == Invs /\ Quiet => Invs'
<1> SUFFICES ASSUME Invs, Quiet PROVE Invs'
  OBVIOUS
<1> USE DEF Quiet
<1>1. Placed'
  <2>1. ASSUME NEW e \in alive' PROVE e[1] \in made' /\ e \in Entities(e[1])'
    BY <2>1, PlanKept DEF Invs, Placed
  <2>2. ASSUME NEW c \in Chains, promise'[c] # "none" PROVE c \in made'
    BY <2>2 DEF Invs, Placed
  <2> QED
    BY <2>1, <2>2 DEF Placed
<1>2. Fresh'
  <2>1. ASSUME NEW e \in unused
        PROVE  /\ e[1] \in made' /\ e \in Marked(e[1])'
               /\ Entities(e[1])' \subseteq alive' /\ orphans' \cap Entities(e[1])' = {}
    BY PlanKept DEF Invs, Fresh
  <2> QED
    BY <2>1 DEF Fresh
<1>3. NotLast'
  <2>1. \A e \in orphans : e # Final(e[1])'
    BY PlanKept DEF Invs, NotLast
  <2> QED
    BY <2>1 DEF NotLast
<1>4. ASSUME NEW c \in Chains PROVE WholeOrOver(c)'
  BY PlanKept DEF Invs, WholeOrOver
<1> QED
  BY <1>1, <1>2, <1>3, <1>4 DEF Invs

LEMMA Stays == UNCHANGED vars /\ IInv => IInv'
<1> SUFFICES ASSUME UNCHANGED vars, IInv PROVE IInv'
  OBVIOUS
<1> USE DEF vars, chainVars, entityVars, rosterVars, resultVars
<1>1. Sets /\ Others /\ Invs
  BY IInvIs
<1>2. Sets'
  BY <1>1 DEF Sets
<1>3. Others'
  BY <1>1 DEF Others
<1>4. Quiet
  BY <1>1 DEF Quiet, SamePlan, Invs, Placed, Fresh
<1> QED
  BY <1>1, <1>2, <1>3, <1>4, QuietKept, IInvNext

-----------------------------------------------------------------------------
(* The application *)

LEMMA CreateKeeps ==
    ASSUME IInv, NEW c \in Chains, Create(c)
    PROVE  IInv'
<1> USE DEF Create
<1>1. Sets /\ Others /\ Invs
  BY IInvIs
<1>2. SamePlan /\ made \subseteq Chains /\ c \notin made /\ phase = "app" /\ phase' = "app"
  BY <1>1 DEF SamePlan, Others
<1>3. Entities(c) \subseteq AllEntities /\ Session(c) \in Entities(c) /\ Final(c) \in Entities(c)
  BY <1>1, Shape
<1>4. Marked(c) \subseteq Entities(c) /\ \A e \in Marked(c) : e[1] = c
  BY DEF Marked, Entities
<1>5. Sets'
  <2>1. notices' \subseteq AllEntities
    BY <1>1, <1>3 DEF Sets
  <2>2. unused' \subseteq AllEntities
    BY <1>1, <1>3, <1>4 DEF Sets
  <2>3. alive' \subseteq AllEntities /\ orphans' \subseteq alive' /\ inputs' \subseteq alive' /\ tasks' \subseteq alive'
    BY <1>1, <1>3 DEF Sets
  <2> QED
    BY <1>1, <2>1, <2>2, <2>3 DEF Sets
<1>6. Others'
  <2>1. nextRoster' \in Seq(Items)
    BY <1>1, <1>3, ItemsOf, AppendSet DEF Others
  <2>2. promise' \in [Chains -> {"none", "pending", "response", "cancelled", "dropped"}]
    BY <1>1 DEF Others
  <2>3. made' \subseteq Chains /\ arrived' \subseteq made' /\ cancelled' \subseteq made'
        /\ unserved' \subseteq made' /\ broken' \subseteq made'
    BY <1>1 DEF Others
  <2> QED
    BY <1>1, <2>1, <2>2, <2>3 DEF Others
<1>7. alive \cap Entities(c) = {} /\ orphans \cap Entities(c) = {} /\ \A e \in unused : e[1] # c
  <2>1. alive \cap Entities(c) = {}
    BY <1>1, <1>2, AliveOf DEF Invs, Placed
  <2> QED
    BY <1>1, <1>2, <2>1 DEF Sets, Invs, Fresh
<1>8. Placed'
  <2>1. ASSUME NEW e \in alive' PROVE e[1] \in made' /\ e \in Entities(e[1])'
    <3>1. CASE e \in alive
      BY <1>1, <1>2, <3>1, PlanKept DEF Invs, Placed
    <3>2. CASE e \in Entities(c)
      BY <1>1, <1>2, <3>2, PlanKept, Shape
    <3> QED
      BY <3>1, <3>2
  <2>2. ASSUME NEW d \in Chains, promise'[d] # "none" PROVE d \in made'
    BY <1>1, <2>2 DEF Invs, Placed, Others
  <2>3. ToSet(cancels') \subseteq made'
    BY <1>1 DEF Invs, Placed
  <2> QED
    BY <2>1, <2>2, <2>3 DEF Placed
<1>9. Fresh'
  <2>1. ASSUME NEW e \in unused'
        PROVE  /\ e[1] \in made' /\ e \in Marked(e[1])'
               /\ Entities(e[1])' \subseteq alive' /\ orphans' \cap Entities(e[1])' = {}
    <3>1. CASE e \in unused
      BY <1>1, <1>2, <3>1, PlanKept DEF Invs, Fresh
    <3>2. CASE e \in Marked(c)
      BY <1>2, <1>4, <1>7, <3>2, PlanKept
    <3> QED
      BY <3>1, <3>2
  <2> QED
    BY <1>2, <2>1 DEF Fresh
<1>10. NotLast'
  <2>1. \A e \in orphans : e # Final(e[1])'
    BY <1>1, <1>2, PlanKept DEF Invs, NotLast
  <2> QED
    BY <2>1 DEF NotLast
<1>11. ASSUME NEW d \in Chains PROVE WholeOrOver(d)'
  <2>1. CASE d = c
    <3>1. Entities(c)' \subseteq alive' /\ c \notin arrived' /\ c \notin cancelled'
      BY <1>1, <1>2, PlanKept DEF Others
    <3>2. promise'[c] # "response"
      BY <1>1 DEF Others
    <3> QED
      BY <2>1, <3>1, <3>2 DEF WholeOrOver
  <2>2. CASE d # c
    <3>1. alive' \cap Entities(d) = alive \cap Entities(d) /\ promise'[d] = promise[d]
      BY <1>1, <2>2, Apart DEF Others
    <3>2. WholeOrOver(d) /\ Session(d) \in Entities(d)
      BY <1>1, Shape DEF Invs
    <3> QED
      BY <1>2, <3>1, <3>2, PlanKept DEF WholeOrOver
  <2> QED
    BY <2>1, <2>2
<1> QED
  BY <1>5, <1>6, <1>8, <1>9, <1>10, <1>11, IInvNext DEF Invs

LEMMA DropPromiseKeeps ==
    ASSUME IInv, NEW c \in Chains, DropPromise(c)
    PROVE  IInv'
<1> USE DEF DropPromise, chainVars, entityVars, rosterVars
<1>1. Sets /\ Others /\ Invs
  BY IInvIs
<1>2. Final(c) \in AllEntities
  BY <1>1, Shape
<1>3. Sets'
  BY <1>1, <1>2 DEF Sets
<1>4. Others'
  BY <1>1 DEF Others
<1>5. Quiet
  BY <1>1 DEF Quiet, SamePlan, Others, Invs, Placed, Fresh
<1> QED
  BY <1>1, <1>3, <1>4, <1>5, QuietKept, IInvNext

LEMMA DespawnHolderKeeps ==
    ASSUME IInv, DespawnHolder
    PROVE  IInv'
<1> USE DEF DespawnHolder, chainVars, entityVars, rosterVars
<1>1. Sets /\ Others /\ Invs
  BY IInvIs
<1>2. \A c \in made : Final(c) \in AllEntities
  BY <1>1, Shape DEF Others
<1>3. Sets'
  BY <1>1, <1>2 DEF Sets
<1>4. Others'
  BY <1>1 DEF Others
<1>5. Quiet
  BY <1>1 DEF Quiet, SamePlan, Others, Invs, Placed, Fresh
<1> QED
  BY <1>1, <1>3, <1>4, <1>5, QuietKept, IInvNext

LEMMA PhaseKeeps ==
    ASSUME IInv, BeginFlush \/ EndRound
    PROVE  IInv'
<1> USE DEF BeginFlush, EndRound, chainVars, entityVars, rosterVars, resultVars
<1>1. Sets /\ Others /\ Invs
  BY IInvIs
<1>2. Sets'
  BY <1>1 DEF Sets
<1>3. Others'
  BY <1>1 DEF Others
<1>4. Quiet
  BY <1>1 DEF Quiet, SamePlan, Others, Invs, Placed, Fresh
<1> QED
  BY <1>1, <1>2, <1>3, <1>4, QuietKept, IInvNext

-----------------------------------------------------------------------------
(* The collection *)

LEMMA ConcatIn ==
    ASSUME NEW X, NEW p \in Seq(X), NEW q \in Seq(X)
    PROVE  p \o q \in Seq(X)
OBVIOUS

LEMMA CollectedTyped ==
    ASSUME Others
    PROVE  Collected \in Seq(Items)
<1>1. queue \o deferred \o nextRoster \in Seq(Items)
  BY ConcatIn DEF Others
<1> QED
  BY <1>1, WithoutSet DEF Collected

LEMMA DropUnusedSets ==
    ASSUME Sets, DropUnused
    PROVE  /\ alive' \subseteq alive /\ orphans' \subseteq alive' /\ unused' = {}
           /\ inputs' \subseteq alive' /\ tasks' \subseteq alive' /\ notices' = {}
           /\ tasks' \subseteq tasks
<1> DEFINE dead == UNION {Dropped(e) : e \in unused}
           spared == UNION {Spared(e) : e \in unused}
<1>1. spared \subseteq alive
  BY FamilyIn
<1>2. /\ alive' = alive \ dead /\ orphans' = (orphans \cup spared) \ dead
      /\ inputs' = inputs \ dead /\ tasks' = tasks \ dead /\ unused' = {} /\ notices' = {}
  BY DEF DropUnused
<1> HIDE DEF dead, spared
<1> QED
  BY <1>1, <1>2 DEF Sets

\* What is dropped leaves each chain whole, or without its session, or cut.
LEMMA DropUnusedKeeps ==
    ASSUME Sets, Others, Invs, DropUnused,
           SamePlan, UNCHANGED <<made, cancels, cancelled, arrived, promise>>
    PROVE  Invs'
<1> DEFINE dead == UNION {Dropped(e) : e \in unused}
           spared == UNION {Spared(e) : e \in unused}
<1>1. alive' = alive \ dead /\ orphans' = (orphans \cup spared) \ dead /\ unused' = {}
  BY DEF DropUnused
<1>2. \A f \in dead : f \in alive /\ \E e \in unused : e[1] = f[1] /\ f \in Dropped(e)
  BY FamilyIn
<1>3. \A f \in spared : f \in alive /\ \E e \in unused : e[1] = f[1] /\ f \in Spared(e)
  BY FamilyIn
<1>4. ASSUME NEW e \in unused, NEW g \in Spared(e), \A d \in unused : g \notin Dropped(d)
      PROVE  g \in orphans'
  BY <1>1, <1>4
<1>5. \A e \in unused : Dropped(e) \subseteq dead
  OBVIOUS
<1> HIDE DEF dead, spared
<1>6. Placed'
  <2>1. \A e \in alive' : e[1] \in made' /\ e \in Entities(e[1])'
    BY <1>1, PlanKept DEF Invs, Placed
  <2> QED
    BY <2>1 DEF Invs, Placed
<1>7. Fresh'
  BY <1>1 DEF Fresh
<1>8. NotLast'
  <2>1. ASSUME NEW f \in orphans' PROVE f # Final(f[1])'
    <3>1. CASE f \in orphans
      BY <3>1, PlanKept DEF Invs, NotLast
    <3>2. CASE f \in spared
      <4>1. PICK e \in unused : e[1] = f[1] /\ f \in Spared(e)
        BY <1>3, <3>2
      <4>2. e[1] \in Chains /\ e \in Entities(e[1]) /\ f \in Entities(e[1]) /\ f \in Family(e) /\ f # e
        BY <1>3, <3>2, <4>1 DEF Invs, Placed, Fresh, Marked, Others, Spared
      <4>3. f[2] <= e[2] /\ f[2] \in 0..Length(e[1]) /\ e[2] \in 0..Length(e[1]) /\ Length(e[1]) \in Nat
            /\ f = <<e[1], f[2]>> /\ e = <<e[1], e[2]>>
        BY <4>2, Shape DEF Family
      <4>4. f[2] # e[2]
        BY <4>2, <4>3
      <4>5. f[2] # Length(e[1])
        BY <4>3, <4>4
      <4> QED
        BY <4>1, <4>5, PlanKept DEF Final
    <3> QED
      BY <1>1, <3>1, <3>2
  <2> QED
    BY <2>1 DEF NotLast
<1>9. ASSUME NEW c \in Chains PROVE WholeOrOver(c)'
  <2> SUFFICES ASSUME orphans' \cap Entities(c) = {}
               PROVE  /\ Session(c) \in alive' => Entities(c) \subseteq alive'
                      /\ c \in arrived \/ promise[c] = "response" => Session(c) \notin alive'
                      /\ c \in cancelled =>
                            alive' \cap Entities(c) = {} /\ c \notin arrived /\ promise[c] # "response"
    BY PlanKept DEF WholeOrOver
  <2>1. orphans \cap Entities(c) = {}
    <3> SUFFICES ASSUME NEW f \in orphans, f \in Entities(c), f \in dead PROVE FALSE
      BY <1>1
    <3>1. PICK e \in unused : e[1] = f[1]
      BY <1>2
    <3>2. f[1] = c
      BY Shape
    <3> QED
      BY <3>1, <3>2 DEF Invs, Fresh
  <2>2. WholeOrOver(c) /\ alive' \subseteq alive
    BY <1>1 DEF Invs
  <2>3. ASSUME Session(c) \in alive' PROVE Entities(c) \subseteq alive'
    <3>1. CASE \E e \in unused : e[1] = c
      <4>1. PICK e \in unused : e[1] = c
        BY <3>1
      <4>2. Session(c) \notin Dropped(e)
        BY <1>1, <1>5, <2>3
      <4>3. PICK g \in Spared(e) : g \in orphans'
        BY <1>4, <4>1, <4>2, SessionDropped DEF Invs
      <4>4. g \in Entities(c)
        BY <4>1, FamilyIn, AliveOf DEF Invs
      <4> QED
        BY <4>3, <4>4
    <3>2. CASE \A e \in unused : e[1] # c
      <4>1. \A f \in Entities(c) : f \notin dead
        BY <1>2, <3>2, Shape
      <4> QED
        BY <1>1, <2>1, <2>2, <2>3, <4>1 DEF WholeOrOver
    <3> QED
      BY <3>1, <3>2
  <2> QED
    BY <2>1, <2>2, <2>3 DEF WholeOrOver
<1> QED
  BY <1>6, <1>7, <1>8, <1>9 DEF Invs

LEMMA CollectKeeps ==
    ASSUME IInv, NEW woken \in SUBSET tasks, Collect(woken) \/ CollectToLimit(woken)
    PROVE  IInv'
<1> USE DEF Collect, CollectToLimit, resultVars
<1>1. Sets /\ Others /\ Invs /\ DropUnused
  BY IInvIs
<1>2. Sets'
  BY <1>1, DropUnusedSets DEF Sets
<1>3. Collected \in Seq(Items) /\ <<>> \in Seq(Items)
  BY <1>1, CollectedTyped
<1>4. Others'
  <2>1. queue' \in Seq(Items) /\ deferred' \in Seq(Items) /\ nextRoster' \in Seq(Items)
    BY <1>3
  <2>2. phase' \in {"app", "collect", "run", "again"}
    OBVIOUS
  <2> QED
    BY <1>1, <2>1, <2>2 DEF Others
<1>5. Invs'
  BY <1>1, DropUnusedKeeps DEF SamePlan
<1> QED
  BY <1>2, <1>4, <1>5, IInvNext

-----------------------------------------------------------------------------
(* The operations *)

\* What the operations that despawn nothing leave alone.
Calm ==
    /\ phase = "run"
    /\ UNCHANGED <<plan, made, alive, orphans, unused, cancelled, arrived, promise>>
    /\ ToSet(cancels') \subseteq made

LEMMA CalmQuiet == Invs /\ Calm => Quiet
BY DEF Invs, Fresh, Calm, Quiet, SamePlan

LEMMA TailIn ==
    ASSUME Others, queue # <<>>
    PROVE  Tail(queue) \in Seq(Items)
BY DEF Others

LEMMA OfChain ==
    ASSUME Sets, Others, Invs, NEW e \in alive
    PROVE  e \in AllEntities /\ e[1] \in made /\ e[1] \in Chains
BY DEF Sets, Others, Invs, Placed

LEMMA RespondTyped ==
    ASSUME Sets, Others, Invs, NEW e \in alive, Respond(e), queue # <<>>, UNCHANGED alive
    PROVE  inputs' \subseteq alive' /\ queue' \in Seq(Items)
           /\ broken' \subseteq made
<1>1. Accepted(e) => Target(e) \in alive /\ Target(e) \in AllEntities
  BY DEF Accepted, Refused, Sets
<1>2. Tail(queue) \in Seq(Items)
  BY TailIn
<1>3. queue' \in Seq(Items)
  BY <1>1, <1>2, ItemsOf, AppendSet DEF Respond
<1>4. inputs' \subseteq alive'
  BY <1>1 DEF Respond, Sets
<1>5. broken' \subseteq made
  BY OfChain DEF Respond, Others
<1> QED
  BY <1>3, <1>4, <1>5

LEMMA SkipKeeps ==
    ASSUME IInv, NEW e, Skip(e)
    PROVE  IInv'
<1> USE DEF Skip, At, chainVars, entityVars, resultVars
<1>1. Sets /\ Others /\ Invs
  BY IInvIs
<1>2. Sets'
  BY <1>1 DEF Sets
<1>3. Others'
  BY <1>1, TailIn DEF Others
<1>4. Calm
  BY <1>1 DEF Calm, Invs, Placed
<1> QED
  BY <1>1, <1>2, <1>3, <1>4, CalmQuiet, QuietKept, IInvNext

LEMMA RunMapKeeps ==
    ASSUME IInv, NEW e, RunMap(e)
    PROVE  IInv'
<1> USE DEF RunMap, Ready, At, chainVars
<1>1. Sets /\ Others /\ Invs
  BY IInvIs
<1>2. e \in alive /\ e \in AllEntities
  BY <1>1, OfChain
<1>3. inputs' \subseteq alive' /\ queue' \in Seq(Items) /\ broken' \subseteq made
  BY <1>1, <1>2, RespondTyped
<1>4. Sets'
  BY <1>1, <1>2, <1>3 DEF Sets
<1>5. Others'
  BY <1>1, <1>3 DEF Others
<1>6. Calm
  BY <1>1 DEF Calm, Invs, Placed
<1> QED
  BY <1>1, <1>4, <1>5, <1>6, CalmQuiet, QuietKept, IInvNext

LEMMA ServiceCancelsKeeps ==
    ASSUME IInv, NEW e, ServiceCancels(e)
    PROVE  IInv'
<1> USE DEF ServiceCancels, Ready, At, chainVars, resultVars
<1>1. Sets /\ Others /\ Invs
  BY IInvIs
<1>2. e[1] \in made /\ e[1] \in Chains
  BY <1>1, OfChain
<1>3. Sets'
  BY <1>1 DEF Sets
<1>4. cancels' \in Seq(Chains) /\ ToSet(cancels') = {e[1]}
  <2>1. cancels' = <<e[1]>>
    OBVIOUS
  <2> QED
    BY <1>2, <2>1 DEF ToSet
<1>5. Others'
  BY <1>1, <1>4, TailIn DEF Others
<1>6. Calm
  BY <1>1, <1>2, <1>4 DEF Calm
<1> QED
  BY <1>1, <1>3, <1>5, <1>6, CalmQuiet, QuietKept, IInvNext

LEMMA ServiceGoneKeeps ==
    ASSUME IInv, NEW e, ServiceGone(e)
    PROVE  IInv'
<1> USE DEF ServiceGone, Ready, At, chainVars
<1>1. Sets /\ Others /\ Invs
  BY IInvIs
<1>2. e[1] \in made
  BY <1>1, OfChain
<1>3. Sets'
  BY <1>1 DEF Sets
<1>4. Others'
  BY <1>1, <1>2, TailIn DEF Others
<1>5. Calm
  BY <1>1 DEF Calm, Invs, Placed
<1> QED
  BY <1>1, <1>3, <1>4, <1>5, CalmQuiet, QuietKept, IInvNext

LEMMA RunAsyncKeeps ==
    ASSUME IInv, NEW e, RunAsync(e)
    PROVE  IInv'
<1> USE DEF RunAsync, Ready, At, chainVars, resultVars
<1>1. Sets /\ Others /\ Invs
  BY IInvIs
<1>2. e \in alive /\ e \in AllEntities
  BY <1>1, OfChain
<1>3. Sets'
  BY <1>1, <1>2 DEF Sets
<1>4. queue' \in Seq(Items)
  BY <1>1, <1>2, TailIn, ItemsOf, AppendSet
<1>5. Others'
  BY <1>1, <1>4 DEF Others
<1>6. Calm
  BY <1>1 DEF Calm, Invs, Placed
<1> QED
  BY <1>1, <1>3, <1>5, <1>6, CalmQuiet, QuietKept, IInvNext

LEMMA FinishTyped ==
    ASSUME Sets, Others, Invs, NEW e \in tasks, Finish(e), UNCHANGED alive
    PROVE  /\ inputs' \subseteq alive' /\ tasks' \subseteq alive' /\ deferred' \in Seq(Items)
           /\ broken' \subseteq made /\ crashed' \in BOOLEAN
<1>1. Accepted(e) => Target(e) \in alive /\ Target(e) \in AllEntities
  BY DEF Accepted, Refused, Sets
<1>2. deferred' \in Seq(Items)
  BY <1>1, ItemsOf, AppendSet DEF Finish, Others
<1>3. inputs' \subseteq alive' /\ tasks' \subseteq alive'
  BY <1>1 DEF Finish, Sets
<1>4. e \in alive
  BY DEF Sets
<1>5. broken' \subseteq made
  BY <1>4, OfChain DEF Finish, Others
<1>6. crashed' \in BOOLEAN
  BY DEF Finish, Others
<1> QED
  BY <1>2, <1>3, <1>5, <1>6

LEMMA PollKeeps ==
    ASSUME IInv, NEW e, NEW ready \in BOOLEAN, FirstPoll(e, ready) \/ Poll(e, ready)
    PROVE  IInv'
<1> USE DEF FirstPoll, Poll, chainVars
<1>1. Sets /\ Others /\ Invs
  BY IInvIs
<1>2. /\ inputs' \subseteq alive' /\ tasks' \subseteq alive' /\ deferred' \in Seq(Items)
      /\ broken' \subseteq made /\ crashed' \in BOOLEAN
  <2>1. CASE ready /\ e \in tasks
    BY <1>1, <2>1, FinishTyped
  <2>2. CASE ~(ready /\ e \in tasks)
    BY <1>1, <2>2 DEF Sets, Others
  <2> QED
    BY <2>1, <2>2
<1>3. queue' \in Seq(Items)
  BY <1>1, TailIn DEF Others
<1>4. Sets'
  BY <1>1, <1>2 DEF Sets
<1>5. Others'
  BY <1>1, <1>2, <1>3 DEF Others
<1>6. Calm
  BY <1>1 DEF Calm, Invs, Placed
<1> QED
  BY <1>1, <1>4, <1>5, <1>6, CalmQuiet, QuietKept, IInvNext

-----------------------------------------------------------------------------
(* The end of a chain *)

\* Despawning the last entity leaves the orphans, and nothing else of its chain
\* that was not cut off.
LEMMA DespawnChain ==
    ASSUME Sets, Others, Invs, NEW c \in Chains, Despawn(Family(Final(c)))
    PROVE  /\ alive' \subseteq alive /\ orphans' = orphans /\ orphans' \subseteq alive'
           /\ inputs' \subseteq alive' /\ tasks' \subseteq alive'
           /\ orphans \cap Entities(c) = {} => alive' \cap Entities(c) = {}
           /\ \A d \in Chains : d # c => alive' \cap Entities(d) = alive \cap Entities(d)
<1>1. /\ Final(c)[1] = c /\ Final(c)[2] = Length(c) /\ Length(c) \in Nat
      /\ Final(c) \in Entities(c)
  BY Shape DEF Final
<1>2. ASSUME NEW f \in orphans PROVE f \notin Family(Final(c))
  <2>1. SUFFICES ASSUME f \in Family(Final(c)) PROVE FALSE
    OBVIOUS
  <2>2. f[1] = c /\ f \in alive
    BY <1>1, <2>1 DEF Family
  <2>3. f \in Entities(c)
    BY <2>2, AliveOf DEF Invs
  <2>4. f[2] \in 0..Length(c) /\ f = <<c, f[2]>> /\ f # Final(c)
    BY <2>2, <2>3, Shape DEF Invs, NotLast
  <2>5. f[2] # Length(c)
    BY <2>4 DEF Final
  <2>6. f[2] \in f[2]..(Length(c) - 1)
    BY <1>1, <2>4, <2>5
  <2>7. <<c, f[2]>> \notin orphans
    BY <1>1, <2>1, <2>6 DEF Family
  <2> QED
    BY <2>4, <2>7
<1>3. orphans' = orphans
  BY <1>2 DEF Despawn
<1>4. alive' = alive \ Family(Final(c))
  BY DEF Despawn
<1>5. orphans' \subseteq alive' /\ inputs' \subseteq alive' /\ tasks' \subseteq alive'
  BY <1>2, <1>3 DEF Despawn, Sets
<1>6. ASSUME orphans \cap Entities(c) = {} PROVE alive' \cap Entities(c) = {}
  <2>1. Family(Final(c)) = {f \in alive : f[1] = c /\ f[2] <= Length(c)}
    BY <1>1, <1>6, FamilyWhole DEF Invs
  <2>2. \A f \in Entities(c) : f[1] = c /\ f[2] <= Length(c)
    BY <1>1, Shape
  <2> QED
    BY <1>4, <2>1, <2>2
<1>7. ASSUME NEW d \in Chains, d # c PROVE alive' \cap Entities(d) = alive \cap Entities(d)
  <2>1. \A f \in Entities(d) : f[1] = d
    BY Shape
  <2> QED
    BY <1>1, <1>4, <1>7, <2>1, FamilyIn
<1> QED
  BY <1>3, <1>4, <1>5, <1>6, <1>7

\* The other parts of the invariant, when a chain's last family is despawned.
LEMMA DespawnKeeps ==
    ASSUME Sets, Others, Invs, NEW c \in Chains, Despawn(Family(Final(c))), unused = {},
           SamePlan, UNCHANGED <<made, unused>>, ToSet(cancels') \subseteq made, c \in made,
           \A d \in Chains : d # c => promise'[d] = promise[d],
           promise'[c] = promise[c] \/ promise[c] # "none",
           \A d \in Chains : d # c => (d \in arrived' <=> d \in arrived)
                                      /\ (d \in cancelled' <=> d \in cancelled),
           c \in cancelled' => \/ c \notin arrived' /\ promise'[c] # "response"
                               \/ orphans \cap Entities(c) # {}
    PROVE  Invs'
<1>1. Placed'
  <2>1. \A e \in alive' : e[1] \in made' /\ e \in Entities(e[1])'
    BY DespawnChain, PlanKept DEF Invs, Placed
  <2>2. \A d \in Chains : promise'[d] # "none" => d \in made'
    BY DEF Invs, Placed
  <2> QED
    BY <2>1, <2>2 DEF Placed
<1>2. Fresh'
  BY DEF Fresh
<1>3. NotLast'
  <2>1. \A e \in orphans' : e # Final(e[1])'
    BY DespawnChain, PlanKept DEF Invs, NotLast
  <2> QED
    BY <2>1 DEF NotLast
<1>4. ASSUME NEW d \in Chains PROVE WholeOrOver(d)'
  <2>1. /\ Entities(d)' = Entities(d) /\ Session(d)' = Session(d)
        /\ Session(d) \in Entities(d) /\ orphans' = orphans
    BY DespawnChain, PlanKept, Shape
  <2>2. CASE d = c
    <3>1. orphans \cap Entities(c) = {} => alive' \cap Entities(c) = {}
      BY DespawnChain
    <3> QED
      BY <2>1, <2>2, <3>1 DEF WholeOrOver
  <2>3. CASE d # c
    <3>1. alive' \cap Entities(d) = alive \cap Entities(d)
      BY <2>3, DespawnChain
    <3>2. WholeOrOver(d)
      BY DEF Invs
    <3> QED
      BY <2>1, <2>3, <3>1, <3>2 DEF WholeOrOver
  <2> QED
    BY <2>2, <2>3
<1> QED
  BY <1>1, <1>2, <1>3, <1>4 DEF Invs

LEMMA TerminateKeeps ==
    ASSUME IInv, NEW c \in made, Terminate(c)
    PROVE  IInv'
<1> USE DEF Terminate, Ready, At, chainVars
<1>1. Sets /\ Others /\ Invs /\ c \in Chains
  BY IInvIs DEF Others
<1>2. unused = {} /\ SamePlan /\ ToSet(cancels') \subseteq made
  BY <1>1 DEF Invs, Fresh, Placed, SamePlan
<1>3. CASE plan[c].end = "push" /\ ~holder
  <2>1. Sets'
    BY <1>1, <1>3 DEF Sets
  <2>2. Others'
    BY <1>1, <1>3, TailIn DEF Others
  <2>3. Calm
    BY <1>1, <1>2, <1>3 DEF Calm
  <2> QED
    BY <1>1, <2>1, <2>2, <2>3, CalmQuiet, QuietKept, IInvNext
<1>4. CASE ~(plan[c].end = "push" /\ ~holder)
  <2>1. /\ Despawn(Family(Final(c)))
        /\ promise' = [promise EXCEPT ![c] = IF @ = "pending" THEN "response" ELSE @]
        /\ arrived' = arrived \/ arrived' = arrived \cup {c}
        /\ UNCHANGED broken
    BY <1>4
  <2>2. Sets'
    BY <1>1, <2>1, DespawnChain DEF Sets
  <2>3. Others'
    <3>1. promise' \in [Chains -> {"none", "pending", "response", "cancelled", "dropped"}]
      BY <1>1, <2>1 DEF Others
    <3>2. arrived' \subseteq made'
      BY <1>1, <2>1 DEF Others
    <3> QED
      BY <1>1, <2>1, <3>1, <3>2, TailIn DEF Others
  <2>4. c \notin cancelled \/ orphans \cap Entities(c) # {}
    <3>1. Final(c) \in alive /\ Final(c) \in Entities(c)
      BY <1>1, Shape
    <3> QED
      BY <1>1, <3>1 DEF Invs, WholeOrOver
  <2>5. promise'[c] = promise[c] \/ promise[c] # "none"
    BY <1>1, <2>1 DEF Others
  <2>6. \A d \in Chains : d # c => promise'[d] = promise[d]
    BY <1>1, <2>1 DEF Others
  <2>7. Invs'
    BY <1>1, <1>2, <2>1, <2>4, <2>5, <2>6, DespawnKeeps
  <2> QED
    BY <2>2, <2>3, <2>7, IInvNext
<1> QED
  BY <1>3, <1>4

\* cancel_impulse finds the end of a chain, unless an entity of it is missing.
LEMMA TerminalIs ==
    ASSUME Others, NEW c \in Chains
    PROVE  /\ Terminal(c) \in alive => Terminal(c) = Final(c)
           /\ Terminal(c) \notin alive => ~(Entities(c) \subseteq alive)
<1> DEFINE gap == {p \in 1..Length(c) : <<c, p>> \notin alive}
<1>1. Length(c) \in Nat /\ Final(c) \in Entities(c)
  BY Shape
<1>2. CASE gap = {}
  <2>1. Terminal(c) = Final(c)
    BY <1>2 DEF Terminal
  <2> QED
    BY <1>1, <2>1
<1>3. CASE gap # {}
  <2>1. PICK p \in gap : \A q \in gap : p <= q
    <3>1. gap \in SUBSET Nat
      BY <1>1
    <3> QED
      BY <1>3, <3>1, LeastNumber
  <2>2. Min(gap) \in gap
    BY <2>1 DEF Min
  <2>3. Terminal(c) = <<c, Min(gap)>>
    BY <1>3 DEF Terminal
  <2> HIDE DEF gap
  <2>4. Min(gap) \in 1..Length(c) /\ <<c, Min(gap)>> \notin alive
    BY <2>2 DEF gap
  <2>5. <<c, Min(gap)>> \in Entities(c)
    BY <1>1, <2>4, Shape
  <2> QED
    BY <2>3, <2>4, <2>5
<1> QED
  BY <1>2, <1>3

LEMMA CancelKeeps ==
    ASSUME IInv, Cancel
    PROVE  IInv'
<1> DEFINE c == Head(cancels)
           end == Terminal(c)
<1> USE DEF Cancel, chainVars
<1>1. Sets /\ Others /\ Invs
  BY IInvIs
<1>2. /\ c \in made /\ c \in Chains /\ cancels' \in Seq(Chains)
      /\ ToSet(cancels') \subseteq made
  <2>1. cancels \in Seq(Chains) /\ cancels # <<>> /\ ToSet(cancels) \subseteq made /\ cancels' = Tail(cancels)
    BY <1>1 DEF Others, Invs, Placed
  <2> QED
    BY <2>1, TailSet
<1>3. unused = {} /\ SamePlan
  BY <1>1 DEF Invs, Fresh, SamePlan
<1>4. CASE Session(c) \notin alive
  <2>1. broken' = broken \cup {c} /\ UNCHANGED <<alive, orphans, inputs, tasks, promise, cancelled>>
    BY <1>4
  <2> HIDE DEF c
  <2>2. Sets'
    BY <1>1, <2>1 DEF Sets
  <2>3. Others'
    BY <1>1, <1>2, <2>1 DEF Others
  <2>4. Calm
    BY <1>2, <2>1 DEF Calm
  <2> QED
    BY <1>1, <2>2, <2>3, <2>4, CalmQuiet, QuietKept, IInvNext
<1>5. CASE Session(c) \in alive
  <2>1. /\ Despawn(Family(end) \cap (IF end \in alive THEN alive ELSE {}))
        /\ promise' = [promise EXCEPT ![c] =
                         IF @ = "pending" /\ end = Final(c) THEN "cancelled" ELSE @]
        /\ cancelled' = cancelled \cup {c} /\ UNCHANGED <<broken, arrived>>
    BY <1>5
  <2> HIDE DEF Cancel, c, end
  <2>2. /\ promise' \in [Chains -> {"none", "pending", "response", "cancelled", "dropped"}]
        /\ \A d \in Chains : d # c => promise'[d] = promise[d]
        /\ promise'[c] = promise[c] \/ promise[c] # "none"
        /\ promise'[c] = "response" => promise[c] = "response"
    BY <1>1, <1>2, <2>1 DEF Others
  <2>3. Others'
    BY <1>1, <1>2, <2>1, <2>2 DEF Cancel, Others
  <2>4. \/ orphans \cap Entities(c) # {}
        \/ Entities(c) \subseteq alive /\ c \notin arrived /\ promise[c] # "response"
    BY <1>1, <1>2, <1>5 DEF Invs, WholeOrOver
  <2>5. CASE end \in alive
    <3>1. end = Final(c)
      BY <1>1, <1>2, <2>5, TerminalIs DEF end
    <3>2. Family(end) \cap alive = Family(end)
      BY FamilyIn
    <3>3. Despawn(Family(Final(c)))
      BY <2>1, <2>5, <3>1, <3>2
    <3>4. Sets'
      BY <1>1, <1>2, <3>3, DespawnChain DEF Sets, Cancel
    <3>5. Invs'
      BY <1>1, <1>2, <1>3, <2>1, <2>2, <2>4, <3>3, DespawnKeeps DEF Cancel
    <3> QED
      BY <2>3, <3>4, <3>5, IInvNext
  <2>6. CASE end \notin alive
    <3>1. orphans \cap Entities(c) # {}
      BY <1>1, <1>2, <2>4, <2>6, TerminalIs DEF end
    <3>2. UNCHANGED <<alive, orphans, inputs, tasks>>
      BY <2>1, <2>6 DEF Despawn
    <3>3. Sets'
      BY <1>1, <3>2 DEF Sets, Cancel
    <3>4. Placed' /\ Fresh' /\ NotLast'
      <4>1. \A e \in alive' : e[1] \in made' /\ e \in Entities(e[1])'
        BY <1>1, <1>3, <3>2, PlanKept DEF Invs, Placed, Cancel
      <4>2. \A e \in orphans' : e # Final(e[1])'
        BY <1>1, <1>3, <3>2, PlanKept DEF Invs, NotLast
      <4>3. \A d \in Chains : promise'[d] # "none" => d \in made'
        BY <1>1, <1>2, <2>2 DEF Invs, Placed, Cancel
      <4>4. unused' = {}
        BY <1>3 DEF Cancel
      <4> QED
        BY <1>2, <4>1, <4>2, <4>3, <4>4 DEF Placed, Fresh, NotLast, Cancel
    <3>5. ASSUME NEW d \in Chains PROVE WholeOrOver(d)'
      <4>1. CASE d = c
        BY <1>3, <3>1, <3>2, <4>1, PlanKept DEF WholeOrOver
      <4>2. CASE d # c
        BY <1>1, <1>3, <2>1, <2>2, <3>2, <4>2, PlanKept DEF WholeOrOver, Invs
      <4> QED
        BY <4>1, <4>2
    <3> QED
      BY <2>3, <3>3, <3>4, <3>5, IInvNext DEF Invs
  <2> QED
    BY <2>5, <2>6
<1> QED
  BY <1>4, <1>5

-----------------------------------------------------------------------------
(* The theorems *)

LEMMA StepKeeps == IInv /\ [Next]_vars => IInv'
<1> SUFFICES ASSUME IInv, [Next]_vars PROVE IInv'
  OBVIOUS
<1>1. ASSUME NEW c \in Chains, Create(c) \/ DropPromise(c) PROVE IInv'
  BY <1>1, CreateKeeps, DropPromiseKeeps
<1>2. CASE DespawnHolder \/ BeginFlush \/ EndRound
  BY <1>2, DespawnHolderKeeps, PhaseKeeps
<1>3. ASSUME NEW woken \in SUBSET tasks, Collect(woken) \/ CollectToLimit(woken) PROVE IInv'
  BY <1>3, CollectKeeps
<1>4. ASSUME NEW e, Skip(e) \/ RunMap(e) \/ ServiceCancels(e) \/ ServiceGone(e) \/ RunAsync(e)
      PROVE  IInv'
  BY <1>4, SkipKeeps, RunMapKeeps, ServiceCancelsKeeps, ServiceGoneKeeps, RunAsyncKeeps
<1>5. ASSUME NEW e, NEW ready \in BOOLEAN, FirstPoll(e, ready) \/ Poll(e, ready) PROVE IInv'
  BY <1>5, PollKeeps
<1>6. ASSUME NEW c \in made, Terminate(c) PROVE IInv'
  BY <1>6, TerminateKeeps
<1>7. CASE Cancel
  BY <1>7, CancelKeeps
<1>8. CASE UNCHANGED vars
  BY <1>8, Stays
<1> QED
  BY <1>1, <1>2, <1>3, <1>4, <1>5, <1>6, <1>7, <1>8 DEF Next, RosterStep

LEMMA Invariance == Spec => []IInv
<1> QED
  BY InitIInv, StepKeeps, PTL DEF Spec

\* Entities, tasks, inputs and the roster are what the flush takes them for, in any
\* run of any chains; in particular only existing entities hold inputs and tasks.
THEOREM ImpulseTypeCorrect == Spec => []TypeOK
<1>1. IInv => TypeOK
  BY DEF IInv
<1> QED
  BY <1>1, Invariance, PTL

\* A chain that is cancelled is over, unless it was cut at a detached impulse before:
\* all its entities are gone and no response of it arrives, then or later (cancel_impulse).
THEOREM CancellingEndsChains == Spec => []CancelledIsOver
<1>1. IInv => CancelledIsOver
  <2> SUFFICES ASSUME IInv, NEW c \in cancelled, orphans \cap Entities(c) = {}
               PROVE  alive \cap Entities(c) = {} /\ c \notin arrived /\ promise[c] # "response"
    BY DEF CancelledIsOver
  <2>1. c \in Chains
    BY IInvIs DEF Others
  <2> QED
    BY <2>1 DEF IInv, WholeOrOver
<1> QED
  BY <1>1, Invariance, PTL
=============================================================================
