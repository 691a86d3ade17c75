---------------------------- MODULE PromiseProofs ----------------------------
(***************************************************************************)
(* Proofs about Promise for any set of threads: type correctness, that a   *)
(* response is neither lost nor duplicated, that no waiting thread misses  *)
(* its notification, when the drop hook may run, and the implementation of *)
(* OneShot.                                                                *)
(***************************************************************************)
EXTENDS Promise, TLAPS

-----------------------------------------------------------------------------
(* The inductive invariant *)

\* A thread is parking exactly while it holds the mutex, and a thread is
\* inside a call only while the promise can be borrowed.
LockInv ==
    /\ \A t \in Threads : (pc[t] = "parking") <=> (mutex = t)
    /\ \A t \in Threads : pc[t] # "idle" => owner = "held"
    /\ polling => owner = "awaited"

\* Where the outcome is, between the Sender and the holder.
OutcomeInv ==
    /\ ~sent => result = "none" /\ state = "Pending" /\ taken = 0
    /\ sent => spc \in {"closing", "gone"} /\ sending \in Results
    /\ spc \in {"setting", "disposing"} => sending \in Results
    /\ result # "none" => result = sending /\ state = "Pending"
    /\ state \in Results => state = sending
    /\ state = "Taken" => taken = 1 /\ sending = "Available"
    /\ state # "Taken" => taken = 0
    /\ sent /\ owner # "dropped" /\ state = "Pending" => result = sending

\* The hook exists only once it is registered, and is called at most once.
HookInv ==
    /\ spc \in {"new", "hooking"} => ~hook /\ hookCalls = 0 /\ owner # "dropping"
    /\ owner = "dropping" => ~hook /\ hookCalls = 0
    /\ hookCalls = 1 => ~hook /\ owner = "dropped"

\* A thread in an interruptible wait is known to the interrupter or flagged,
\* and while the loop runs it is still to be rung or flagged.
InterruptInv ==
    \A t \in Threads :
        pc[t] # "idle" /\ call[t].intr =>
            /\ t \in waiters \/ flag[t]
            /\ interrupting => t \in ringing \/ flag[t]
            /\ triggered /\ ~interrupting => flag[t]

IInv ==
    /\ TypeOK
    /\ LockInv
    /\ OutcomeInv
    /\ HookInv
    /\ InterruptInv
    /\ NoMissedNotification
    /\ HookMeansUnseen

LEMMA InitIInv == Init => IInv
<1> SUFFICES ASSUME Init PROVE IInv
  OBVIOUS
<1> USE NoThreadAssumption DEF Init
<1>1. TypeOK
  <2>1. DataTypeOK
    <3>1. taken \in 0..1 /\ hookCalls \in 0..1
      OBVIOUS
    <3>2. state \in States /\ result \in Results \cup {"none"} /\ sending \in Results \cup {"none"}
      BY DEF States
    <3>3. waker \in BOOLEAN /\ hook \in BOOLEAN /\ sent \in BOOLEAN /\ woken \in BOOLEAN /\ polling \in BOOLEAN
      OBVIOUS
    <3> QED
      BY <3>1, <3>2, <3>3 DEF DataTypeOK
  <2>2. WaitTypeOK
    BY DEF WaitTypeOK, Calls
  <2> QED
    BY <2>1, <2>2 DEF TypeOK
<1>2. LockInv /\ OutcomeInv /\ HookInv /\ InterruptInv /\ NoMissedNotification /\ HookMeansUnseen
  BY DEF LockInv, InterruptInv, OutcomeInv, HookInv, NoMissedNotification, HookMeansUnseen, Results
<1> QED
  BY <1>1, <1>2 DEF IInv

-----------------------------------------------------------------------------
(* Each group of actions preserves the invariant *)

LEMMA SenderStep == IInv /\ SenderNext => IInv'
<1> SUFFICES ASSUME IInv, SenderNext PROVE IInv'
  OBVIOUS
<1> USE NoThreadAssumption DEF promiseVars, targetVars, senderVars, waitVars,
        pollVars, interruptVars
<1>1. CASE OnPromiseDrop
  <2>1. DataTypeOK'
    BY <1>1 DEF OnPromiseDrop, IInv, TypeOK, DataTypeOK, HookInv
  <2>2. WaitTypeOK'
    BY <1>1 DEF OnPromiseDrop, IInv, TypeOK, WaitTypeOK, HookInv
  <2>3. (LockInv /\ OutcomeInv /\ NoMissedNotification)'
    BY <1>1 DEF OnPromiseDrop, IInv, TypeOK, DataTypeOK, WaitTypeOK, LockInv, OutcomeInv, NoMissedNotification, TargetAlive
  <2>4. (HookInv /\ HookMeansUnseen)'
    BY <1>1 DEF OnPromiseDrop, IInv, TypeOK, DataTypeOK, WaitTypeOK, LockInv, OutcomeInv, HookInv, HookMeansUnseen, TargetAlive
  <2>5. InterruptInv'
    BY <1>1 DEF OnPromiseDrop, IInv, TypeOK, WaitTypeOK, InterruptInv
  <2> QED
    BY <2>1, <2>2, <2>3, <2>4, <2>5 DEF IInv, TypeOK
<1>2. CASE OnPromiseDropStore
  <2>1. DataTypeOK'
    BY <1>2 DEF OnPromiseDropStore, IInv, TypeOK, DataTypeOK
  <2>2. WaitTypeOK'
    BY <1>2 DEF OnPromiseDropStore, IInv, TypeOK, WaitTypeOK
  <2>3. (LockInv /\ OutcomeInv /\ NoMissedNotification)'
    BY <1>2 DEF OnPromiseDropStore, IInv, TypeOK, DataTypeOK, WaitTypeOK, LockInv, OutcomeInv, NoMissedNotification, Free
  <2>4. (HookInv /\ HookMeansUnseen)'
    BY <1>2 DEF OnPromiseDropStore, IInv, TypeOK, DataTypeOK, WaitTypeOK, LockInv, OutcomeInv, HookInv, HookMeansUnseen, Free
  <2>5. InterruptInv'
    BY <1>2 DEF OnPromiseDropStore, IInv, TypeOK, WaitTypeOK, InterruptInv
  <2> QED
    BY <2>1, <2>2, <2>3, <2>4, <2>5 DEF IInv, TypeOK
<1>3. CASE \E r \in {"Available", "Cancelled"} : Send(r)
  <2>1. DataTypeOK'
    BY <1>3 DEF Send, IInv, TypeOK, DataTypeOK, Results
  <2>2. WaitTypeOK'
    BY <1>3 DEF Send, IInv, TypeOK, WaitTypeOK, Results
  <2>3. (LockInv /\ OutcomeInv /\ NoMissedNotification)'
    BY <1>3 DEF Send, IInv, TypeOK, DataTypeOK, WaitTypeOK, LockInv, OutcomeInv, NoMissedNotification, Results
  <2>4. (HookInv /\ HookMeansUnseen)'
    BY <1>3 DEF Send, IInv, TypeOK, DataTypeOK, WaitTypeOK, LockInv, OutcomeInv, HookInv, HookMeansUnseen, Results
  <2>5. InterruptInv'
    BY <1>3 DEF Send, IInv, TypeOK, WaitTypeOK, InterruptInv
  <2> QED
    BY <2>1, <2>2, <2>3, <2>4, <2>5 DEF IInv, TypeOK
<1>4. CASE Set
  <2>1. DataTypeOK'
    BY <1>4 DEF Set, IInv, TypeOK, DataTypeOK, OutcomeInv, Notified
  <2>2. WaitTypeOK'
    BY <1>4 DEF Set, IInv, TypeOK, WaitTypeOK, OutcomeInv, Notified
  <2>3. (LockInv /\ OutcomeInv /\ NoMissedNotification)'
    BY <1>4 DEF Set, IInv, TypeOK, DataTypeOK, WaitTypeOK, LockInv, OutcomeInv, NoMissedNotification, Free, Notified
  <2>4. (HookInv /\ HookMeansUnseen)'
    BY <1>4 DEF Set, IInv, TypeOK, DataTypeOK, WaitTypeOK, LockInv, OutcomeInv, HookInv, HookMeansUnseen, Free, Notified
  <2>5. InterruptInv'
    BY <1>4 DEF Set, IInv, TypeOK, WaitTypeOK, InterruptInv, Notified
  <2> QED
    BY <2>1, <2>2, <2>3, <2>4, <2>5 DEF IInv, TypeOK
<1>5. CASE SenderDrop
  <2>1. DataTypeOK'
    BY <1>5 DEF SenderDrop, IInv, TypeOK, DataTypeOK, Results
  <2>2. WaitTypeOK'
    BY <1>5 DEF SenderDrop, IInv, TypeOK, WaitTypeOK, Results
  <2>3. (LockInv /\ OutcomeInv /\ NoMissedNotification)'
    BY <1>5 DEF SenderDrop, IInv, TypeOK, DataTypeOK, WaitTypeOK, LockInv, OutcomeInv, NoMissedNotification, Results
  <2>4. (HookInv /\ HookMeansUnseen)'
    BY <1>5 DEF SenderDrop, IInv, TypeOK, DataTypeOK, WaitTypeOK, LockInv, OutcomeInv, HookInv, HookMeansUnseen, Results
  <2>5. InterruptInv'
    BY <1>5 DEF SenderDrop, IInv, TypeOK, WaitTypeOK, InterruptInv
  <2> QED
    BY <2>1, <2>2, <2>3, <2>4, <2>5 DEF IInv, TypeOK
<1> QED
  BY <1>1, <1>2, <1>3, <1>4, <1>5 DEF SenderNext

LEMMA HolderStep == IInv /\ HolderNext => IInv'
<1> SUFFICES ASSUME IInv, HolderNext PROVE IInv'
  OBVIOUS
<1> USE NoThreadAssumption DEF promiseVars, targetVars, senderVars, waitVars,
        pollVars, interruptVars
<1>1. CASE Peek
  <2>1. DataTypeOK'
    BY <1>1 DEF Peek, IInv, TypeOK, DataTypeOK, OutcomeInv, Updated, Emptied, States
  <2>2. WaitTypeOK'
    BY <1>1 DEF Peek, IInv, TypeOK, WaitTypeOK, OutcomeInv, Updated, Emptied, States
  <2>3. (LockInv /\ OutcomeInv /\ NoMissedNotification)'
    BY <1>1 DEF Peek, IInv, TypeOK, DataTypeOK, WaitTypeOK, LockInv, OutcomeInv, NoMissedNotification, Free, AllIdle, Updated, Emptied, Results
  <2>4. (HookInv /\ HookMeansUnseen)'
    BY <1>1 DEF Peek, IInv, TypeOK, DataTypeOK, WaitTypeOK, LockInv, OutcomeInv, HookInv, HookMeansUnseen, Free, AllIdle, Updated, Emptied, Results
  <2>5. InterruptInv'
    BY <1>1 DEF Peek, IInv, TypeOK, WaitTypeOK, InterruptInv
  <2> QED
    BY <2>1, <2>2, <2>3, <2>4, <2>5 DEF IInv, TypeOK
<1>2. CASE Take
  <2>1. DataTypeOK'
    BY <1>2 DEF Take, IInv, TypeOK, DataTypeOK, OutcomeInv, Updated, Emptied, AfterTake, States, Results
  <2>2. WaitTypeOK'
    BY <1>2 DEF Take, IInv, TypeOK, WaitTypeOK, OutcomeInv, Updated, Emptied, AfterTake, States, Results
  <2>3. (LockInv /\ OutcomeInv /\ NoMissedNotification)'
    BY <1>2 DEF Take, IInv, TypeOK, DataTypeOK, WaitTypeOK, LockInv, OutcomeInv, NoMissedNotification, Free, AllIdle, Updated, Emptied, AfterTake, Results
  <2>4. (HookInv /\ HookMeansUnseen)'
    BY <1>2 DEF Take, IInv, TypeOK, DataTypeOK, WaitTypeOK, LockInv, OutcomeInv, HookInv, HookMeansUnseen, Free, AllIdle, Updated, Emptied, AfterTake, Results
  <2>5. InterruptInv'
    BY <1>2 DEF Take, IInv, TypeOK, WaitTypeOK, InterruptInv
  <2> QED
    BY <2>1, <2>2, <2>3, <2>4, <2>5 DEF IInv, TypeOK
<1>3. CASE Await
  <2>1. DataTypeOK'
    BY <1>3 DEF Await, IInv, TypeOK, DataTypeOK
  <2>2. WaitTypeOK'
    BY <1>3 DEF Await, IInv, TypeOK, WaitTypeOK
  <2>3. (LockInv /\ OutcomeInv /\ NoMissedNotification)'
    BY <1>3 DEF Await, IInv, TypeOK, DataTypeOK, WaitTypeOK, LockInv, OutcomeInv, NoMissedNotification, AllIdle
  <2>4. (HookInv /\ HookMeansUnseen)'
    BY <1>3 DEF Await, IInv, TypeOK, DataTypeOK, WaitTypeOK, LockInv, OutcomeInv, HookInv, HookMeansUnseen, AllIdle
  <2>5. InterruptInv'
    BY <1>3 DEF Await, IInv, TypeOK, WaitTypeOK, InterruptInv
  <2> QED
    BY <2>1, <2>2, <2>3, <2>4, <2>5 DEF IInv, TypeOK
<1>4. CASE PromiseDrop
  <2>1. DataTypeOK'
    BY <1>4 DEF PromiseDrop, IInv, TypeOK, DataTypeOK
  <2>2. WaitTypeOK'
    BY <1>4 DEF PromiseDrop, IInv, TypeOK, WaitTypeOK
  <2>3. (LockInv /\ OutcomeInv /\ NoMissedNotification)'
    BY <1>4 DEF PromiseDrop, IInv, TypeOK, DataTypeOK, WaitTypeOK, LockInv, OutcomeInv, NoMissedNotification, Free, AllIdle
  <2>4. (HookInv /\ HookMeansUnseen)'
    BY <1>4 DEF PromiseDrop, IInv, TypeOK, DataTypeOK, WaitTypeOK, LockInv, OutcomeInv, HookInv, HookMeansUnseen, Free, AllIdle
  <2>5. InterruptInv'
    BY <1>4 DEF PromiseDrop, IInv, TypeOK, WaitTypeOK, InterruptInv
  <2> QED
    BY <2>1, <2>2, <2>3, <2>4, <2>5 DEF IInv, TypeOK
<1>5. CASE CallHook
  <2>1. DataTypeOK'
    BY <1>5 DEF CallHook, IInv, TypeOK, DataTypeOK, HookInv
  <2>2. WaitTypeOK'
    BY <1>5 DEF CallHook, IInv, TypeOK, WaitTypeOK, HookInv
  <2>3. (LockInv /\ OutcomeInv /\ NoMissedNotification)'
    BY <1>5 DEF CallHook, IInv, TypeOK, DataTypeOK, WaitTypeOK, LockInv, OutcomeInv, NoMissedNotification
  <2>4. (HookInv /\ HookMeansUnseen)'
    BY <1>5 DEF CallHook, IInv, TypeOK, DataTypeOK, WaitTypeOK, LockInv, OutcomeInv, HookInv, HookMeansUnseen
  <2>5. InterruptInv'
    BY <1>5 DEF CallHook, IInv, TypeOK, WaitTypeOK, InterruptInv
  <2> QED
    BY <2>1, <2>2, <2>3, <2>4, <2>5 DEF IInv, TypeOK
<1> QED
  BY <1>1, <1>2, <1>3, <1>4, <1>5 DEF HolderNext

LEMMA ExecutorStep == IInv /\ ExecutorNext => IInv'
<1> SUFFICES ASSUME IInv, ExecutorNext PROVE IInv'
  OBVIOUS
<1> USE NoThreadAssumption DEF promiseVars, targetVars, senderVars, waitVars,
        pollVars, interruptVars
<1>1. CASE Poll
  <2>1. DataTypeOK'
    <3>1. state' \in States /\ taken' \in 0..1
      BY <1>1 DEF Poll, IInv, TypeOK, DataTypeOK, OutcomeInv, Updated, Emptied,
                  AfterTake, States, Results
    <3> QED
      BY <1>1, <3>1 DEF Poll, IInv, TypeOK, DataTypeOK, Emptied
  <2>2. WaitTypeOK'
    BY <1>1 DEF Poll, IInv, TypeOK, WaitTypeOK, OutcomeInv, Updated, Emptied, AfterTake, States, Results
  <2>3. (LockInv /\ OutcomeInv /\ NoMissedNotification)'
    BY <1>1 DEF Poll, IInv, TypeOK, DataTypeOK, WaitTypeOK, LockInv, OutcomeInv, NoMissedNotification, Free, Updated, Emptied, AfterTake, Results
  <2>4. (HookInv /\ HookMeansUnseen)'
    BY <1>1 DEF Poll, IInv, TypeOK, DataTypeOK, WaitTypeOK, LockInv, OutcomeInv, HookInv, HookMeansUnseen, Free, Updated, Emptied, AfterTake, Results
  <2>5. InterruptInv'
    BY <1>1 DEF Poll, IInv, TypeOK, WaitTypeOK, InterruptInv
  <2> QED
    BY <2>1, <2>2, <2>3, <2>4, <2>5 DEF IInv, TypeOK
<1>2. CASE PollStoreWaker
  <2>1. DataTypeOK'
    BY <1>2 DEF PollStoreWaker, IInv, TypeOK, DataTypeOK
  <2>2. WaitTypeOK'
    BY <1>2 DEF PollStoreWaker, IInv, TypeOK, WaitTypeOK
  <2>3. (LockInv /\ OutcomeInv /\ NoMissedNotification)'
    BY <1>2 DEF PollStoreWaker, IInv, TypeOK, DataTypeOK, WaitTypeOK, LockInv, OutcomeInv, NoMissedNotification, Free
  <2>4. (HookInv /\ HookMeansUnseen)'
    BY <1>2 DEF PollStoreWaker, IInv, TypeOK, DataTypeOK, WaitTypeOK, LockInv, OutcomeInv, HookInv, HookMeansUnseen, Free
  <2>5. InterruptInv'
    BY <1>2 DEF PollStoreWaker, IInv, TypeOK, WaitTypeOK, InterruptInv
  <2> QED
    BY <2>1, <2>2, <2>3, <2>4, <2>5 DEF IInv, TypeOK
<1> QED
  BY <1>1, <1>2 DEF ExecutorNext

LEMMA InterrupterStep == IInv /\ InterrupterNext => IInv'
<1> SUFFICES ASSUME IInv, InterrupterNext PROVE IInv'
  OBVIOUS
<1> USE NoThreadAssumption DEF promiseVars, targetVars, senderVars, waitVars,
        pollVars, interruptVars
<1>1. CASE Interrupt
  <2>1. DataTypeOK'
    BY <1>1 DEF Interrupt, IInv, TypeOK, DataTypeOK
  <2>2. WaitTypeOK'
    BY <1>1 DEF Interrupt, IInv, TypeOK, WaitTypeOK
  <2>3. (LockInv /\ OutcomeInv /\ NoMissedNotification)'
    BY <1>1 DEF Interrupt, IInv, TypeOK, DataTypeOK, WaitTypeOK, LockInv, OutcomeInv, NoMissedNotification
  <2>4. (HookInv /\ HookMeansUnseen)'
    BY <1>1 DEF Interrupt, IInv, TypeOK, DataTypeOK, WaitTypeOK, LockInv, OutcomeInv, HookInv, HookMeansUnseen
  <2>5. InterruptInv'
    BY <1>1 DEF Interrupt, IInv, TypeOK, WaitTypeOK, InterruptInv
  <2> QED
    BY <2>1, <2>2, <2>3, <2>4, <2>5 DEF IInv, TypeOK
<1>2. CASE \E t \in Threads : InterruptWaiter(t)
  <2>1. DataTypeOK'
    BY <1>2 DEF InterruptWaiter, IInv, TypeOK, DataTypeOK, Notified
  <2>2. WaitTypeOK'
    BY <1>2 DEF InterruptWaiter, IInv, TypeOK, WaitTypeOK, Notified
  <2>3. (LockInv /\ OutcomeInv /\ NoMissedNotification)'
    BY <1>2 DEF InterruptWaiter, IInv, TypeOK, DataTypeOK, WaitTypeOK, LockInv, OutcomeInv, NoMissedNotification, Notified
  <2>4. (HookInv /\ HookMeansUnseen)'
    BY <1>2 DEF InterruptWaiter, IInv, TypeOK, DataTypeOK, WaitTypeOK, LockInv, OutcomeInv, HookInv, HookMeansUnseen, Notified
  <2>5. InterruptInv'
    BY <1>2 DEF InterruptWaiter, IInv, TypeOK, WaitTypeOK, InterruptInv, Notified
  <2> QED
    BY <2>1, <2>2, <2>3, <2>4, <2>5 DEF IInv, TypeOK
<1>3. CASE InterruptEnd
  <2>1. DataTypeOK'
    BY <1>3 DEF InterruptEnd, IInv, TypeOK, DataTypeOK
  <2>2. WaitTypeOK'
    BY <1>3 DEF InterruptEnd, IInv, TypeOK, WaitTypeOK
  <2>3. (LockInv /\ OutcomeInv /\ NoMissedNotification)'
    BY <1>3 DEF InterruptEnd, IInv, TypeOK, DataTypeOK, WaitTypeOK, LockInv, OutcomeInv, NoMissedNotification
  <2>4. (HookInv /\ HookMeansUnseen)'
    BY <1>3 DEF InterruptEnd, IInv, TypeOK, DataTypeOK, WaitTypeOK, LockInv, OutcomeInv, HookInv, HookMeansUnseen
  <2>5. InterruptInv'
    BY <1>3 DEF InterruptEnd, IInv, TypeOK, WaitTypeOK, InterruptInv
  <2> QED
    BY <2>1, <2>2, <2>3, <2>4, <2>5 DEF IInv, TypeOK
<1>4. CASE Reset
  <2>1. DataTypeOK'
    BY <1>4 DEF Reset, IInv, TypeOK, DataTypeOK
  <2>2. WaitTypeOK'
    BY <1>4 DEF Reset, IInv, TypeOK, WaitTypeOK
  <2>3. (LockInv /\ OutcomeInv /\ NoMissedNotification)'
    BY <1>4 DEF Reset, IInv, TypeOK, DataTypeOK, WaitTypeOK, LockInv, OutcomeInv, NoMissedNotification
  <2>4. (HookInv /\ HookMeansUnseen)'
    BY <1>4 DEF Reset, IInv, TypeOK, DataTypeOK, WaitTypeOK, LockInv, OutcomeInv, HookInv, HookMeansUnseen
  <2>5. InterruptInv'
    BY <1>4 DEF Reset, IInv, TypeOK, WaitTypeOK, InterruptInv
  <2> QED
    BY <2>1, <2>2, <2>3, <2>4, <2>5 DEF IInv, TypeOK
<1> QED
  BY <1>1, <1>2, <1>3, <1>4 DEF InterrupterNext

LEMMA WaitingStep == ASSUME NEW t \in Threads, IInv, WaitNext(t) PROVE IInv'
<1> USE NoThreadAssumption DEF promiseVars, targetVars, senderVars, waitVars,
        pollVars, interruptVars
<1>1. CASE \E c \in Calls : Wait(t, c)
  <2>1. DataTypeOK'
    BY <1>1 DEF Wait, IInv, TypeOK, DataTypeOK, Calls
  <2>2. WaitTypeOK'
    <3> PICK c \in Calls : Wait(t, c)
      BY <1>1
    <3>1. waiters' \in SUBSET Threads /\ flag' \in [Threads -> BOOLEAN]
      BY DEF Wait, IInv, TypeOK, WaitTypeOK
    <3> QED
      BY <3>1 DEF Wait, IInv, TypeOK, WaitTypeOK
  <2>3. (LockInv /\ OutcomeInv /\ NoMissedNotification)'
    BY <1>1 DEF Wait, IInv, TypeOK, DataTypeOK, WaitTypeOK, LockInv, OutcomeInv, NoMissedNotification, MayCall
  <2>4. (HookInv /\ HookMeansUnseen)'
    BY <1>1 DEF Wait, IInv, TypeOK, DataTypeOK, WaitTypeOK, LockInv, OutcomeInv, HookInv, HookMeansUnseen, MayCall
  <2>5. InterruptInv'
    BY <1>1 DEF Wait, IInv, TypeOK, WaitTypeOK, InterruptInv, MayCall, Push, Calls
  <2> QED
    BY <2>1, <2>2, <2>3, <2>4, <2>5 DEF IInv, TypeOK
<1>2. CASE ImplWait(t)
  <2>1. DataTypeOK'
    BY <1>2 DEF ImplWait, IInv, TypeOK, DataTypeOK
  <2>2. WaitTypeOK'
    BY <1>2 DEF ImplWait, IInv, TypeOK, WaitTypeOK
  <2>3. (LockInv /\ OutcomeInv /\ NoMissedNotification)'
    BY <1>2 DEF ImplWait, IInv, TypeOK, DataTypeOK, WaitTypeOK, LockInv, OutcomeInv, NoMissedNotification, Free, Stop
  <2>4. (HookInv /\ HookMeansUnseen)'
    BY <1>2 DEF ImplWait, IInv, TypeOK, DataTypeOK, WaitTypeOK, LockInv, OutcomeInv, HookInv, HookMeansUnseen, Free, Stop
  <2>5. InterruptInv'
    BY <1>2 DEF ImplWait, IInv, TypeOK, WaitTypeOK, InterruptInv
  <2> QED
    BY <2>1, <2>2, <2>3, <2>4, <2>5 DEF IInv, TypeOK
<1>3. CASE Park(t)
  <2>1. DataTypeOK'
    BY <1>3 DEF Park, IInv, TypeOK, DataTypeOK
  <2>2. WaitTypeOK'
    BY <1>3 DEF Park, IInv, TypeOK, WaitTypeOK
  <2>3. (LockInv /\ OutcomeInv /\ NoMissedNotification)'
    BY <1>3 DEF Park, IInv, TypeOK, DataTypeOK, WaitTypeOK, LockInv, OutcomeInv, NoMissedNotification
  <2>4. (HookInv /\ HookMeansUnseen)'
    BY <1>3 DEF Park, IInv, TypeOK, DataTypeOK, WaitTypeOK, LockInv, OutcomeInv, HookInv, HookMeansUnseen
  <2>5. InterruptInv'
    BY <1>3 DEF Park, IInv, TypeOK, WaitTypeOK, InterruptInv
  <2> QED
    BY <2>1, <2>2, <2>3, <2>4, <2>5 DEF IInv, TypeOK
<1>4. CASE SpuriousWakeup(t)
  <2>1. DataTypeOK'
    BY <1>4 DEF SpuriousWakeup, IInv, TypeOK, DataTypeOK
  <2>2. WaitTypeOK'
    BY <1>4 DEF SpuriousWakeup, IInv, TypeOK, WaitTypeOK
  <2>3. (LockInv /\ OutcomeInv /\ NoMissedNotification)'
    BY <1>4 DEF SpuriousWakeup, IInv, TypeOK, DataTypeOK, WaitTypeOK, LockInv, OutcomeInv, NoMissedNotification
  <2>4. (HookInv /\ HookMeansUnseen)'
    BY <1>4 DEF SpuriousWakeup, IInv, TypeOK, DataTypeOK, WaitTypeOK, LockInv, OutcomeInv, HookInv, HookMeansUnseen
  <2>5. InterruptInv'
    BY <1>4 DEF SpuriousWakeup, IInv, TypeOK, WaitTypeOK, InterruptInv
  <2> QED
    BY <2>1, <2>2, <2>3, <2>4, <2>5 DEF IInv, TypeOK
<1>5. CASE Wake(t)
  <2>1. DataTypeOK'
    BY <1>5 DEF Wake, IInv, TypeOK, DataTypeOK, States
  <2>2. WaitTypeOK'
    BY <1>5 DEF Wake, IInv, TypeOK, WaitTypeOK, States
  <2>3. (LockInv /\ OutcomeInv /\ NoMissedNotification)'
    BY <1>5 DEF Wake, IInv, TypeOK, DataTypeOK, WaitTypeOK, LockInv, OutcomeInv, NoMissedNotification, Free, Stop, Results
  <2>4. (HookInv /\ HookMeansUnseen)'
    BY <1>5 DEF Wake, IInv, TypeOK, DataTypeOK, WaitTypeOK, LockInv, OutcomeInv, HookInv, HookMeansUnseen, Free, Stop, Results
  <2>5. InterruptInv'
    BY <1>5 DEF Wake, IInv, TypeOK, WaitTypeOK, InterruptInv
  <2> QED
    BY <2>1, <2>2, <2>3, <2>4, <2>5 DEF IInv, TypeOK
<1> QED
  BY <1>1, <1>2, <1>3, <1>4, <1>5 DEF WaitNext, WaitStep

LEMMA NextIInv == IInv /\ [Next]_vars => IInv'
<1>1. ASSUME IInv, UNCHANGED vars PROVE IInv'
  <2>1. DataTypeOK'
    BY <1>1 DEF vars, IInv, TypeOK, DataTypeOK
  <2>2. WaitTypeOK'
    BY <1>1 DEF vars, IInv, TypeOK, WaitTypeOK
  <2>3. (LockInv /\ OutcomeInv /\ HookInv)'
    BY <1>1 DEF vars, IInv, LockInv, OutcomeInv, HookInv
  <2>4. (InterruptInv /\ NoMissedNotification /\ HookMeansUnseen)'
    BY <1>1 DEF vars, IInv, InterruptInv, NoMissedNotification, HookMeansUnseen
  <2> QED
    BY <2>1, <2>2, <2>3, <2>4 DEF IInv, TypeOK
<1> QED
  BY <1>1, SenderStep, WaitingStep, HolderStep, ExecutorStep, InterrupterStep DEF Next

-----------------------------------------------------------------------------
(* Theorems *)

THEOREM Invariance == Spec => []IInv
<1> QED
  BY InitIInv, NextIInv, PTL DEF Spec

\* Every part of the promise keeps its type; a response is taken at most once.
THEOREM TypeCorrect == Spec => []TypeOK
<1>1. IInv => TypeOK
  BY DEF IInv
<1> QED
  BY <1>1, Invariance, PTL

\* A response is in exactly one place from the moment the Sender stores it
\* until the promise is dropped.
THEOREM ResponseConserved == Spec => []OneCopy
<1>1. IInv => OneCopy
  BY DEF IInv, TypeOK, DataTypeOK, OutcomeInv, OneCopy, InTarget, InPromise, WithCaller, States, Results
<1> QED
  BY <1>1, Invariance, PTL

\* No thread sleeps in wait, or is about to, once the result has arrived.
THEOREM NotificationsReachWaiters == Spec => []NoMissedNotification
<1>1. IInv => NoMissedNotification
  BY DEF IInv
<1> QED
  BY <1>1, Invariance, PTL

\* The drop hook runs only for a promise whose result was never seen.
THEOREM HookOnlyWhenUnseen == Spec => []HookMeansUnseen
<1>1. IInv => HookMeansUnseen
  BY DEF IInv
<1> QED
  BY <1>1, Invariance, PTL

\* After interrupt() every thread in an interruptible wait has its flag set.
THEOREM InterruptIsComplete == Spec => []InterruptReachesAll
<1>1. IInv => InterruptReachesAll
  BY DEF IInv, InterruptInv, InterruptReachesAll
<1> QED
  BY <1>1, Invariance, PTL

-----------------------------------------------------------------------------
(* Promise implements OneShot *)

LEMMA RefineInit == Init => Abstract!Init
  BY DEF Init, Abstract!Init

LEMMA RefineStutter ==
  ASSUME UNCHANGED <<state, owner, sent, IF sent THEN sending ELSE "none">>
  PROVE  UNCHANGED Abstract!vars
  BY DEF Abstract!vars

LEMMA RefineSender == IInv /\ SenderNext => [Abstract!Next]_Abstract!vars
<1> SUFFICES ASSUME IInv, SenderNext PROVE [Abstract!Next]_Abstract!vars
  OBVIOUS
<1> USE DEF promiseVars, targetVars, senderVars, waitVars, pollVars, interruptVars
<1>1. CASE OnPromiseDrop \/ OnPromiseDropStore
  BY <1>1, RefineStutter DEF OnPromiseDrop, OnPromiseDropStore
<1>2. CASE \E r \in {"Available", "Cancelled"} : Send(r)
  <2>1. ~sent
    BY <1>2 DEF Send, IInv, OutcomeInv
  <2> QED
    BY <1>2, <2>1, RefineStutter DEF Send
<1>3. CASE Set
  <2>1. ~sent /\ sent' /\ sending \in Results /\ sending' = sending
    BY <1>3 DEF Set, IInv, OutcomeInv
  <2>2. Abstract!Settle(sending)
    BY <1>3, <2>1 DEF Set, Abstract!Settle
  <2> QED
    BY <2>1, <2>2 DEF Abstract!Next
<1>4. CASE SenderDrop
  BY <1>4, RefineStutter DEF SenderDrop
<1> QED
  BY <1>1, <1>2, <1>3, <1>4 DEF SenderNext

LEMMA RefineWaiting ==
  ASSUME NEW t \in Threads, IInv, WaitNext(t) PROVE [Abstract!Next]_Abstract!vars
<1> USE DEF promiseVars, targetVars, senderVars, waitVars, pollVars, interruptVars
<1>1. CASE (\E c \in Calls : Wait(t, c)) \/ ImplWait(t) \/ Park(t) \/ SpuriousWakeup(t)
  BY <1>1, RefineStutter DEF Wait, ImplWait, Park, SpuriousWakeup
<1>2. CASE Wake(t)
  <2>1. CASE state' # state
    <3>1. result # "none" /\ state' = result /\ owner = "held"
      BY <1>2, <2>1 DEF Wake, IInv, LockInv
    <3>2. state = "Pending" /\ sent /\ result = sending /\ result \in Results
      BY <3>1 DEF IInv, TypeOK, DataTypeOK, OutcomeInv
    <3>3. Abstract!Observe
      BY <1>2, <3>1, <3>2 DEF Wake, Abstract!Observe, Results
    <3> QED
      BY <3>3 DEF Abstract!Next
  <2>2. CASE state' = state
    BY <1>2, <2>2, RefineStutter DEF Wake
  <2> QED
    BY <2>1, <2>2
<1> QED
  BY <1>1, <1>2 DEF WaitNext, WaitStep

\* What Promise::update shows is the outcome the Sender stored.
LEMMA UpdatedIsOutcome ==
  ASSUME IInv, Updated # "Pending", owner # "dropped"
  PROVE  /\ sent
         /\ sending \in Results
         /\ state = "Pending" => Updated = sending
         /\ state # "Pending" => Updated = state
         /\ Updated = "Available" => sending = "Available" /\ state \in {"Pending", "Available"}
         /\ Updated # "Available" => AfterTake(Updated) = Updated
  BY DEF IInv, TypeOK, DataTypeOK, OutcomeInv, Updated, AfterTake, Results, States

LEMMA RefineHolder == IInv /\ (HolderNext \/ ExecutorNext) => [Abstract!Next]_Abstract!vars
<1> SUFFICES ASSUME IInv, HolderNext \/ ExecutorNext PROVE [Abstract!Next]_Abstract!vars
  OBVIOUS
<1> USE DEF promiseVars, targetVars, senderVars, waitVars, pollVars, interruptVars
<1>1. CASE Peek
  <2>1. CASE state' = state
    BY <1>1, <2>1, RefineStutter DEF Peek
  <2>2. CASE state' # state
    <3>1. state = "Pending" /\ Updated # "Pending" /\ owner # "dropped"
      BY <1>1, <2>2 DEF Peek, Updated, IInv, OutcomeInv
    <3>2. Abstract!Observe
      BY <1>1, <3>1, UpdatedIsOutcome DEF Peek, Abstract!Observe, Results
    <3> QED
      BY <3>2 DEF Abstract!Next
  <2> QED
    BY <2>1, <2>2
<1>2. ASSUME Take \/ Poll PROVE [Abstract!Next]_Abstract!vars
  <2>0. owner # "dropped" /\ state' = AfterTake(Updated) /\ sent' = sent /\ sending' = sending
    BY <1>2 DEF Take, Poll
  <2>1. CASE Updated = "Pending"
    BY <1>2, <2>1, RefineStutter DEF Take, Poll, Updated, AfterTake, IInv, OutcomeInv
  <2>2. CASE Updated = "Available"
    <3>1. Abstract!Take
      BY <1>2, <2>0, <2>2, UpdatedIsOutcome DEF Take, Poll, AfterTake, Abstract!Take
    <3> QED
      BY <3>1 DEF Abstract!Next
  <2>3. CASE Updated \notin {"Pending", "Available"} /\ state' = state
    <3>1. Abstract!LetGo \/ UNCHANGED Abstract!vars
      BY <1>2, <2>0, <2>3 DEF Take, Poll, Abstract!LetGo, Abstract!vars
    <3> QED
      BY <3>1 DEF Abstract!Next
  <2>4. CASE Updated \notin {"Pending", "Available"} /\ state' # state
    <3>1. state = "Pending" /\ state' = sending /\ sent /\ sending \in Results
      BY <2>0, <2>4, UpdatedIsOutcome
    <3>2. Abstract!Observe \/ Abstract!LetGo
      BY <1>2, <2>0, <3>1 DEF Take, Poll, Abstract!Observe, Abstract!LetGo, Results
    <3> QED
      BY <3>2 DEF Abstract!Next
  <2> QED
    BY <2>1, <2>2, <2>3, <2>4
<1>3. CASE Await \/ PollStoreWaker
  BY <1>3 DEF Await, PollStoreWaker, Abstract!vars
<1>4. CASE PromiseDrop \/ CallHook
  <2>1. Abstract!LetGo \/ UNCHANGED Abstract!vars
    BY <1>4 DEF PromiseDrop, CallHook, Abstract!LetGo, Abstract!vars
  <2> QED
    BY <2>1 DEF Abstract!Next
<1> QED
  BY <1>1, <1>2, <1>3, <1>4 DEF HolderNext, ExecutorNext

LEMMA RefineInterrupter == InterrupterNext => UNCHANGED Abstract!vars
  BY RefineStutter DEF InterrupterNext, Interrupt, InterruptWaiter, InterruptEnd, Reset,
     promiseVars, targetVars, senderVars, waitVars, pollVars

\* The threads, the locks and the condition variable together behave as one
\* cell that is settled once, seen as settled, and taken once.
THEOREM Refinement == Spec => ImplementsOneShot
<1>1. IInv /\ [Next]_vars => [Abstract!Next]_Abstract!vars
  <2>1. UNCHANGED vars => UNCHANGED Abstract!vars
    BY DEF vars, Abstract!vars
  <2> QED
    BY <2>1, RefineSender, RefineWaiting, RefineHolder, RefineInterrupter DEF Next
<1> QED
  BY <1>1, RefineInit, Invariance, PTL DEF Spec, ImplementsOneShot, Abstract!Spec
=============================================================================
