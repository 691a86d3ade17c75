------------------------------- MODULE Promise -------------------------------
(***************************************************************************)
(* One Promise<T> and its Sender<T> (promise.rs, promise/private.rs) at    *)
(* the granularity of the locks: a step is one critical section of         *)
(* PromiseTarget::inner, or the code between two of them.                  *)
(*                                                                         *)
(* The provider's thread owns the Sender.  Threads share the Promise by    *)
(* reference to wait on it; what needs `&mut self` or `self` is done while *)
(* no other thread is inside, which is what the borrow checker enforces.   *)
(* Alternatively the Promise is awaited as a Future.  A further thread may *)
(* trigger the Interrupter the waits are registered with.  A lock poisoned *)
(* by a panic is not modelled, and flags are read in the order they are    *)
(* written (Ordering::Relaxed in the wait is taken as SeqCst).             *)
(***************************************************************************)
EXTENDS Naturals

CONSTANTS
    Threads,            \* threads that may hold a reference to the promise
    NoThread            \* "the mutex is free"

ASSUME NoThreadAssumption == NoThread \notin Threads

Results == {"Available", "Cancelled", "Disposed"}       \* enum PromiseResult
States == Results \cup {"Pending", "Taken"}             \* enum PromiseState

VARIABLES
    \* The Promise
    state,              \* Promise::state, the holder's cache
    owner,              \* held, awaited, dropping (hook about to run) or dropped
    taken,              \* how many times a response has been handed out
    \* PromiseTarget
    mutex,              \* who is inside a critical section that spans steps
    result,             \* PromiseTargetInner::result
    waker,              \* PromiseTargetInner::waker is set
    hook,               \* PromiseTargetInner::on_promise_drop is set
    hookCalls,          \* how many times on_promise_drop has been called
    \* Sender
    spc,                \* what the provider's thread is doing with the Sender
    sending,            \* the argument of Sender::set
    sent,               \* Sender::sent
    \* Waiting threads
    pc,                 \* where thread t is in a call to wait
    call,               \* which of the four wait functions it called
    flag,               \* the AtomicBool of its Interruptee
    \* The executor of the awaiting task
    woken,              \* the task is scheduled to be polled
    polling,            \* poll has seen Pending and has yet to store the waker
    \* Interrupter
    triggered,          \* InterrupterInner::triggered
    waiters,            \* InterrupterInner::waiters
    interrupting,       \* interrupt() is going through the waiters, under its own lock
    ringing             \* the waiters it has still to go through

vars == <<state, owner, taken, mutex, result, waker, hook, hookCalls, spc,
          sending, sent, pc, call, flag, woken, polling, triggered, waiters,
          interrupting, ringing>>
promiseVars == <<state, owner, taken>>
targetVars == <<mutex, result, waker, hook, hookCalls>>
senderVars == <<spc, sending, sent>>
waitVars == <<pc, call, flag>>
pollVars == <<woken, polling>>
interruptVars == <<triggered, waiters, interrupting, ringing>>

Calls == [mut : BOOLEAN, intr : BOOLEAN]

(***************************************************************************)
(* Type invariant: each part of the promise stays within its type, and a   *)
(* response is handed out at most once (promise.rs: "It will never be      *)
(* available to take again").                                              *)
(***************************************************************************)
DataTypeOK ==
    /\ state \in States
    /\ owner \in {"held", "awaited", "dropping", "dropped"}
    /\ taken \in 0..1
    /\ result \in Results \cup {"none"}
    /\ hookCalls \in 0..1
    /\ spc \in {"new", "hooking", "armed", "setting", "closing", "disposing", "gone"}
    /\ sending \in Results \cup {"none"}
    /\ waker \in BOOLEAN /\ hook \in BOOLEAN /\ sent \in BOOLEAN
    /\ woken \in BOOLEAN /\ polling \in BOOLEAN

WaitTypeOK ==
    /\ mutex \in Threads \cup {NoThread}
    /\ pc \in [Threads -> {"idle", "entering", "parking", "asleep", "notified"}]
    /\ call \in [Threads -> Calls]
    /\ flag \in [Threads -> BOOLEAN]
    /\ triggered \in BOOLEAN /\ interrupting \in BOOLEAN
    /\ waiters \in SUBSET Threads
    /\ ringing \in SUBSET Threads

TypeOK == DataTypeOK /\ WaitTypeOK

\* Promise::new: the two ends of a channel that holds nothing yet.
Init ==
    /\ state = "Pending" /\ owner = "held" /\ taken = 0
    /\ mutex = NoThread /\ result = "none" /\ waker = FALSE
    /\ hook = FALSE /\ hookCalls = 0
    /\ spc = "new" /\ sending = "none" /\ sent = FALSE
    /\ pc = [t \in Threads |-> "idle"]
    /\ call = [t \in Threads |-> [mut |-> FALSE, intr |-> FALSE]]
    /\ flag = [t \in Threads |-> FALSE]
    /\ woken = FALSE /\ polling = FALSE
    /\ triggered = FALSE /\ waiters = {} /\ interrupting = FALSE /\ ringing = {}

Free == mutex = NoThread
AllIdle == \A t \in Threads : pc[t] = "idle"

\* Does Weak::upgrade find the target?  The Promise holds it, so does every
\* entry an Interrupter still keeps, and so does an upgrade in use.
TargetAlive ==
    \/ owner # "dropped"
    \/ waiters # {}
    \/ spc \in {"hooking", "setting", "disposing"}

\* Condvar::notify_all, and the slip of leaving it out.
NotifyNobody == pc

Notified == [t \in Threads |-> IF pc[t] = "asleep" THEN "notified" ELSE pc[t]]

-----------------------------------------------------------------------------
(* Sender *)

\* Sender::on_promise_drop: the target is looked up, then locked; if it is
\* gone already the hook runs at once.
OnPromiseDrop ==
    /\ spc = "new"
    /\ IF TargetAlive
       THEN spc' = "hooking" /\ UNCHANGED hookCalls
       ELSE spc' = "armed" /\ hookCalls' = hookCalls + 1
    /\ UNCHANGED <<promiseVars, mutex, result, waker, hook, sending, sent,
                   waitVars, pollVars, interruptVars>>

OnPromiseDropStore ==
    /\ spc = "hooking"
    /\ Free
    /\ hook' = TRUE
    /\ spc' = "armed"
    /\ UNCHANGED <<promiseVars, mutex, result, waker, hookCalls, sending, sent,
                   waitVars, pollVars, interruptVars>>

\* Sender::send and Sender::cancel up to the upgrade; they consume the Sender,
\* so when set() fails the Drop of the Sender follows.
Send(r) ==
    /\ spc \in {"new", "armed"}
    /\ IF TargetAlive
       THEN spc' = "setting" /\ sending' = r
       ELSE spc' = "closing" /\ UNCHANGED sending
    /\ UNCHANGED <<promiseVars, targetVars, sent, waitVars, pollVars, interruptVars>>

\* The critical section of Sender::set with no on_result_arrival in place.
Set ==
    /\ spc \in {"setting", "disposing"}
    /\ Free
    /\ result' = sending
    /\ waker' = FALSE
    /\ woken' = (woken \/ waker)
    /\ pc' = Notified
    /\ sent' = TRUE
    /\ spc' = IF spc = "setting" THEN "closing" ELSE "gone"
    /\ UNCHANGED <<promiseVars, mutex, hook, hookCalls, sending, call, flag,
                   polling, interruptVars>>

\* Slips in the Drop of a Sender: not looking at sent, and not disposing.
DropMayOverwrite ==
    /\ spc \in {"new", "armed", "closing"}
    /\ IF TargetAlive
       THEN spc' = "disposing" /\ sending' = "Disposed"
       ELSE spc' = "gone" /\ UNCHANGED sending
    /\ UNCHANGED <<promiseVars, targetVars, sent, waitVars, pollVars, interruptVars>>

DropIsSilent ==
    /\ spc \in {"new", "armed", "closing"}
    /\ spc' = "gone"
    /\ UNCHANGED <<promiseVars, targetVars, sending, sent, waitVars, pollVars, interruptVars>>

\* <Sender as Drop>::drop: an unused Sender leaves Disposed behind.
SenderDrop ==
    /\ spc \in {"new", "armed", "closing"}
    /\ IF ~sent /\ TargetAlive
       THEN spc' = "disposing" /\ sending' = "Disposed"
       ELSE spc' = "gone" /\ UNCHANGED sending
    /\ UNCHANGED <<promiseVars, targetVars, sent, waitVars, pollVars, interruptVars>>

-----------------------------------------------------------------------------
(* Waiting threads *)

\* May thread t start a call?  A `&mut self` call excludes every other one.
MayCall(t, mut) ==
    /\ owner = "held"
    /\ pc[t] = "idle"
    /\ \A u \in Threads : pc[u] # "idle" => ~mut /\ ~call[u].mut

\* wait, wait_mut, interruptible_wait, interruptible_wait_mut, up to the first
\* lock.  Interrupter::push declines when the interrupter is triggered, and
\* then, as when the state is not pending, the call returns at once.
PushWhenever == ~interrupting
Push == ~interrupting /\ ~triggered

Wait(t, c) ==
    /\ MayCall(t, c.mut)
    /\ state = "Pending"
    /\ pc' = [pc EXCEPT ![t] = "entering"]
    /\ call' = [call EXCEPT ![t] = c]
    /\ IF c.intr
       THEN /\ Push
            /\ waiters' = waiters \cup {t}
            /\ flag' = [flag EXCEPT ![t] = FALSE]
       ELSE UNCHANGED <<waiters, flag>>
    /\ UNCHANGED <<promiseVars, targetVars, senderVars, pollVars, triggered,
                   interrupting, ringing>>

\* The predicate of wait_while is false: stop waiting.
Stop(t) == (call[t].intr /\ flag[t]) \/ result # "none"

\* impl_wait from the lock to the first evaluation of the predicate.  When the
\* result is there already it returns None and nobody takes the result.
ImplWait(t) ==
    /\ pc[t] = "entering"
    /\ Free
    /\ IF Stop(t)
       THEN pc' = [pc EXCEPT ![t] = "idle"] /\ UNCHANGED mutex
       ELSE pc' = [pc EXCEPT ![t] = "parking"] /\ mutex' = t
    /\ UNCHANGED <<promiseVars, result, waker, hook, hookCalls, senderVars, call,
                   flag, pollVars, interruptVars>>

\* Condvar::wait: the mutex is released and the thread sleeps, in one step.
Park(t) ==
    /\ pc[t] = "parking"
    /\ pc' = [pc EXCEPT ![t] = "asleep"]
    /\ mutex' = NoThread
    /\ UNCHANGED <<promiseVars, result, waker, hook, hookCalls, senderVars, call,
                   flag, pollVars, interruptVars>>

\* A condition variable may wake a thread for no reason.
SpuriousWakeup(t) ==
    /\ pc[t] = "asleep"
    /\ pc' = [pc EXCEPT ![t] = "notified"]
    /\ UNCHANGED <<promiseVars, targetVars, senderVars, call, flag, pollVars, interruptVars>>

\* The thread has the mutex again and evaluates the predicate; on the way out
\* wait_mut runs impl_try_take_result.
Wake(t) ==
    /\ pc[t] = "notified"
    /\ Free
    /\ IF Stop(t)
       THEN /\ pc' = [pc EXCEPT ![t] = "idle"]
            /\ IF call[t].mut /\ result # "none"
               THEN state' = result /\ result' = "none"
               ELSE UNCHANGED <<state, result>>
            /\ UNCHANGED mutex
       ELSE /\ pc' = [pc EXCEPT ![t] = "parking"]
            /\ mutex' = t
            /\ UNCHANGED <<state, result>>
    /\ UNCHANGED <<owner, taken, waker, hook, hookCalls, senderVars, call, flag,
                   pollVars, interruptVars>>

-----------------------------------------------------------------------------
(* Looking, taking, awaiting, dropping *)

\* Promise::update as a function of what the caller sees.
Updated == IF state = "Pending" /\ result # "none" THEN result ELSE state
Emptied == IF state = "Pending" THEN "none" ELSE result

\* Promise::update and Promise::peek
Peek ==
    /\ owner = "held" /\ AllIdle
    /\ Free
    /\ state' = Updated
    /\ result' = Emptied
    /\ UNCHANGED <<owner, taken, mutex, waker, hook, hookCalls, senderVars,
                   waitVars, pollVars, interruptVars>>

\* PromiseState::take
AfterTake(s) == IF s = "Available" THEN "Taken" ELSE s

\* A slip: take() hands out the response and keeps it available.
CopyOnTake ==
    /\ owner = "held" /\ AllIdle
    /\ Free
    /\ state' = Updated
    /\ result' = Emptied
    /\ taken' = IF Updated = "Available" THEN taken + 1 ELSE taken
    /\ UNCHANGED <<owner, mutex, waker, hook, hookCalls, senderVars, waitVars,
                   pollVars, interruptVars>>

\* Promise::take
Take ==
    /\ owner = "held" /\ AllIdle
    /\ Free
    /\ state' = AfterTake(Updated)
    /\ result' = Emptied
    /\ taken' = IF Updated = "Available" THEN taken + 1 ELSE taken
    /\ UNCHANGED <<owner, mutex, waker, hook, hookCalls, senderVars, waitVars,
                   pollVars, interruptVars>>

\* The promise is handed to an executor, which polls it a first time.
Await ==
    /\ owner = "held" /\ AllIdle
    /\ owner' = "awaited"
    /\ woken' = TRUE
    /\ UNCHANGED <<state, taken, targetVars, senderVars, waitVars, polling, interruptVars>>

\* <Promise as Future>::poll up to the end of take(), which is one critical
\* section; a Ready task is finished with the promise.
Poll ==
    /\ owner = "awaited" /\ woken /\ ~polling
    /\ Free
    /\ woken' = FALSE
    /\ result' = Emptied
    /\ state' = AfterTake(Updated)
    /\ taken' = IF Updated = "Available" THEN taken + 1 ELSE taken
    /\ IF Updated = "Pending"
       THEN polling' = TRUE /\ UNCHANGED owner
       ELSE owner' = "dropped" /\ UNCHANGED polling
    /\ UNCHANGED <<mutex, waker, hook, hookCalls, senderVars, waitVars, interruptVars>>

\* The second critical section of poll: store the waker, without looking.
PollStoreWaker ==
    /\ polling
    /\ Free
    /\ waker' = TRUE
    /\ polling' = FALSE
    /\ UNCHANGED <<promiseVars, mutex, result, hook, hookCalls, senderVars,
                   waitVars, woken, interruptVars>>

\* A slip: every drop of a promise takes the hook, seen or not.
HookOnAnyDrop ==
    /\ owner \in {"held", "awaited"} /\ AllIdle /\ ~polling
    /\ Free
    /\ hook' = FALSE
    /\ owner' = IF hook THEN "dropping" ELSE "dropped"
    /\ UNCHANGED <<state, taken, mutex, result, waker, hookCalls, senderVars,
                   waitVars, pollVars, interruptVars>>

\* <Promise as Drop>::drop: a promise that is still pending takes the hook...
PromiseDrop ==
    /\ owner \in {"held", "awaited"} /\ AllIdle /\ ~polling
    /\ IF state = "Pending"
       THEN /\ Free
            /\ hook' = FALSE
            /\ owner' = IF hook THEN "dropping" ELSE "dropped"
       ELSE owner' = "dropped" /\ UNCHANGED hook
    /\ UNCHANGED <<state, taken, mutex, result, waker, hookCalls, senderVars,
                   waitVars, pollVars, interruptVars>>

\* ... and calls it after the lock is released.
CallHook ==
    /\ owner = "dropping"
    /\ hookCalls' = hookCalls + 1
    /\ owner' = "dropped"
    /\ UNCHANGED <<state, taken, mutex, result, waker, hook, senderVars, waitVars,
                   pollVars, interruptVars>>

-----------------------------------------------------------------------------
(* Interrupter *)

\* Interrupter::interrupt holds the interrupter's own lock while it goes
\* through the waiters; it never takes the lock of a promise.
Interrupt ==
    /\ ~interrupting
    /\ triggered' = TRUE
    /\ interrupting' = TRUE
    /\ ringing' = waiters
    /\ UNCHANGED <<promiseVars, targetVars, senderVars, waitVars, pollVars, waiters>>

\* One turn of its loop: store the flag, then notify_all.
InterruptWaiter(t) ==
    /\ t \in ringing
    /\ flag' = [flag EXCEPT ![t] = TRUE]
    /\ pc' = Notified
    /\ ringing' = ringing \ {t}
    /\ UNCHANGED <<promiseVars, targetVars, senderVars, call, pollVars, triggered,
                   waiters, interrupting>>

InterruptEnd ==
    /\ interrupting /\ ringing = {}
    /\ waiters' = {}
    /\ interrupting' = FALSE
    /\ UNCHANGED <<promiseVars, targetVars, senderVars, waitVars, pollVars, triggered, ringing>>

\* Interrupter::reset
Reset ==
    /\ ~interrupting
    /\ triggered' = FALSE
    /\ UNCHANGED <<promiseVars, targetVars, senderVars, waitVars, pollVars, waiters,
                   interrupting, ringing>>

-----------------------------------------------------------------------------
SenderNext ==
    \/ OnPromiseDrop
    \/ OnPromiseDropStore
    \/ \E r \in {"Available", "Cancelled"} : Send(r)
    \/ Set
    \/ SenderDrop

\* What a thread inside a wait does next, spurious wakeups aside.
WaitStep(t) ==
    \/ ImplWait(t)
    \/ Park(t)
    \/ Wake(t)

WaitNext(t) ==
    \/ \E c \in Calls : Wait(t, c)
    \/ WaitStep(t)
    \/ SpuriousWakeup(t)

HolderNext ==
    \/ Peek
    \/ Take
    \/ Await
    \/ PromiseDrop
    \/ CallHook

ExecutorNext ==
    \/ Poll
    \/ PollStoreWaker

InterrupterNext ==
    \/ Interrupt
    \/ \E t \in Threads : InterruptWaiter(t)
    \/ InterruptEnd
    \/ Reset

Next ==
    \/ SenderNext
    \/ \E t \in Threads : WaitNext(t)
    \/ HolderNext
    \/ ExecutorNext
    \/ InterrupterNext

Spec == Init /\ [][Next]_vars

(***************************************************************************)
(* Fairness.  Every thread that is inside a call keeps running, a task     *)
(* that is woken is polled, and interrupt() finishes its loop.  That the   *)
(* provider eventually answers or drops its Sender is a promise of the     *)
(* rest of the crate and is assumed by SenderFairSpec only.  A thread that *)
(* keeps asking for a mutex gets it in the end: strong fairness on what    *)
(* needs the lock while waiting threads come and go.                       *)
(***************************************************************************)
ThreadFairness ==
    /\ \A t \in Threads : WF_vars(WaitStep(t))
    /\ WF_vars(Poll)
    /\ SF_vars(PollStoreWaker)
    /\ WF_vars(CallHook)
    /\ WF_vars(InterruptEnd)
    /\ \A t \in Threads : WF_vars(InterruptWaiter(t))

FairSpec == Spec /\ ThreadFairness
SenderFairSpec ==
    FairSpec /\ SF_vars(Set) /\ SF_vars(OnPromiseDropStore) /\ WF_vars(SenderDrop)

-----------------------------------------------------------------------------
(* Properties *)

(***************************************************************************)
(* A response is neither lost nor duplicated on its way through            *)
(* Sender::set, Promise::update and PromiseState::take: once the Sender    *)
(* has answered, and until the Promise is dropped, it is in exactly one    *)
(* place; before that it is nowhere.                                       *)
(***************************************************************************)
InTarget == result = "Available"
InPromise == state = "Available"
WithCaller == taken = 1

OneCopy ==
    /\ ~(InTarget /\ InPromise) /\ ~(InTarget /\ WithCaller) /\ ~(InPromise /\ WithCaller)
    /\ InTarget \/ InPromise \/ WithCaller => sent /\ sending = "Available"
    /\ sent /\ sending = "Available" /\ owner # "dropped" =>
            InTarget \/ InPromise \/ WithCaller

(***************************************************************************)
(* The condition variable of wait is used right: no thread sleeps, or is   *)
(* about to, once the result is in the target.  impl_wait evaluates its    *)
(* predicate under the lock that Sender::set needs to store the result.    *)
(***************************************************************************)
NoMissedNotification ==
    result # "none" => \A t \in Threads : pc[t] \notin {"parking", "asleep"}

(***************************************************************************)
(* The drop hook, which tells the impulse that nobody wants its response,  *)
(* runs only for a promise that never showed its holder a result.          *)
(***************************************************************************)
HookMeansUnseen ==
    owner = "dropping" \/ hookCalls > 0 => state = "Pending" /\ taken = 0

(***************************************************************************)
(* Every call of a wait function returns, provided the Sender is used or   *)
(* dropped: neither a notification nor an upgrade that comes late, nor     *)
(* other waiting threads, keep it inside for ever.                         *)
(***************************************************************************)
WaitsReturn == \A t \in Threads : pc[t] # "idle" ~> pc[t] = "idle"

(***************************************************************************)
(* Once Interrupter::interrupt has returned, and until it is reset, every  *)
(* thread inside an interruptible wait has its flag set, also one that     *)
(* registered while the loop was running: Interrupter::push and the loop   *)
(* exclude each other.  (Seeing the flag is another matter: interrupt()    *)
(* does not take the lock of the promise, so a thread that has evaluated   *)
(* its predicate and is not asleep yet is not woken by it.)                *)
(***************************************************************************)
InterruptReachesAll ==
    triggered /\ ~interrupting =>
        \A t \in Threads : pc[t] # "idle" /\ call[t].intr => flag[t]

(***************************************************************************)
(* All of this implements OneShot: the outcome is what the Sender stored.  *)
(***************************************************************************)
Abstract == INSTANCE OneShot WITH
    outcome <- IF sent THEN sending ELSE "none",
    view <- state,
    gone <- owner = "dropped"

ImplementsOneShot == Abstract!Spec

-----------------------------------------------------------------------------
(* What the documentation says and the code does not always do *)

(***************************************************************************)
(* promise.rs on Promise: "A promise expects to receive a value in the     *)
(* future": a task that awaits one whose Sender is used or dropped is      *)
(* completed.                                                              *)
(***************************************************************************)
AwaitCompletes == owner = "awaited" ~> owner # "awaited"
=============================================================================
