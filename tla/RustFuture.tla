----------------------------- MODULE RustFuture -----------------------------
(***************************************************************************)
(* One call of an exported async Rust function: the RustFuture             *)
(* (uniffi_core/src/ffi/rustfuture/), the foreign task that drives it, the *)
(* threads that complete what it awaits and a thread that cancels it.      *)
(*                                                                         *)
(*   Caller     the generated poll loop (uniffiRustCallAsync): poll until  *)
(*              the continuation is called with Ready, complete, free.  It *)
(*              may be interrupted while suspended and then only frees.    *)
(*   Events     the operations the async fn awaits, each a oneshot channel *)
(*              (uniffi_core/src/oneshot.rs) whose sender is a thread of   *)
(*              its own.  The async fn awaits all of them together.        *)
(*   Canceller  a foreign thread that may call rust_future_cancel.         *)
(*                                                                         *)
(* A step is one critical section (the scheduler's lock, the future's lock *)
(* or a channel's lock) or one invocation of a callback, so everything the *)
(* code does between two locks can be interleaved.                         *)
(***************************************************************************)
EXTENDS Integers, FiniteSets, Scheduler

CONSTANTS Events, Caller, Canceller,
          NoCallback,    \* the caller has not polled yet
          MaxSpurious    \* bound: wakes that come before their event

ASSUME RustFutureAssumption ==
    /\ Threads = Events \cup {Caller, Canceller}
    /\ Caller \notin Events /\ Canceller \notin Events /\ Caller # Canceller
    /\ IsFiniteSet(Events)
    /\ NoCallback \notin Callbacks
    /\ MaxSpurious \in Nat

VARIABLES
    pc,         \* where each thread is in its program
    cb,         \* the callback of the current poll
    resumed,    \* the code that continuation was resumed with, if it was
    status,     \* the RustCallStatus that complete() gave the caller
    future,     \* WrappedFuture.future is Some
    result,     \* WrappedFuture.result
    handle,     \* the foreign side owns the handle
    strong,     \* the strong count of the Arc<RustFuture>
    todo,       \* receivers that the running poll of the async fn has yet to poll
    seen,       \* receivers whose value the async fn has taken
    fired,      \* channels whose value was sent
    slot,       \* channels that hold a Waker (a counted reference)
    spurious    \* how many early wakes have happened

futureVars == <<future, result, handle, strong>>
channelVars == <<todo, seen, fired, slot, spurious>>
callVars == <<cb, resumed, status>>
vars == <<schedVars, pc, callVars, futureVars, channelVars>>

CallerPcs == {"poll", "is_cancelled", "lock", "inner", "answer", "store",
              "return", "suspended", "complete", "free", "drop", "done"}
EventPcs == {"armed", "waking", "woken", "done"}
CancellerPcs == {"idle", "cancel", "return", "done"}

TypeOK ==
    /\ SchedTypeOK
    /\ pc \in [Threads -> CallerPcs \cup EventPcs \cup CancellerPcs]
    /\ pc[Caller] \in CallerPcs
    /\ pc[Canceller] \in CancellerPcs
    /\ \A e \in Events : pc[e] \in EventPcs
    /\ cb \in Callbacks \cup {NoCallback}
    /\ resumed \in {"none"} \cup PollCodes
    /\ status \in {"none", "Ok", "Err", "Cancelled"}
    /\ future \in BOOLEAN
    /\ result \in {"None", "Ok", "Err"}
    /\ handle \in BOOLEAN
    /\ strong \in Int
    /\ todo \in SUBSET Events
    /\ seen \in SUBSET Events
    /\ fired \in SUBSET Events
    /\ slot \in SUBSET Events
    /\ spurious \in 0..MaxSpurious

\* rust_future_new: the handle is the one reference.
Init ==
    /\ SchedInit
    /\ pc = [t \in Threads |->
                IF t = Caller THEN "poll" ELSE IF t = Canceller THEN "idle" ELSE "armed"]
    /\ cb = NoCallback
    /\ resumed = "none"
    /\ status = "none"
    /\ future = TRUE
    /\ result = "None"
    /\ handle = TRUE
    /\ strong = 1
    /\ todo = {}
    /\ seen = {}
    /\ fired = {}
    /\ slot = {}
    /\ spurious = 0

Goto(t, label) == pc' = [pc EXCEPT ![t] = label]

At(t, label) == pc[t] = label

-----------------------------------------------------------------------------
(* The caller: RustFuture::poll *)

\* rust_future_poll with a new continuation; into_arc_borrowed counts a reference.
PollBegin ==
    /\ At(Caller, "poll")
    /\ Callbacks \ issued # {}
    /\ cb' = CHOOSE c \in Callbacks : c \notin issued
    /\ resumed' = "none"
    /\ strong' = strong + 1
    /\ Goto(Caller, "is_cancelled")
    /\ UNCHANGED <<schedVars, status, future, result, handle, channelVars>>

CheckCancelled ==
    /\ At(Caller, "is_cancelled")
    /\ Goto(Caller, IF IsCancelled THEN "answer" ELSE "lock")
    /\ UNCHANGED <<schedVars, callVars, futureVars, channelVars>>

\* Lock the future, make a waker (another reference) and enter WrappedFuture::poll.
\* With a result, or without a future, the poll is ready and the waker dropped.
LockFuture ==
    /\ At(Caller, "lock")
    /\ IF result = "None" /\ future
       THEN /\ Goto(Caller, "inner")
            /\ todo' = Events \ seen
            /\ strong' = strong + 1
       ELSE /\ Goto(Caller, "answer")
            /\ UNCHANGED <<todo, strong>>
    /\ UNCHANGED <<schedVars, callVars, future, result, handle,
                   seen, fired, slot, spurious>>

\* Fault: the clone is not counted.
RegisterWakerUncounted(e) ==
    /\ slot' = slot \cup {e}
    /\ UNCHANGED strong

\* waker_clone, and the drop of the waker that was in the slot.
RegisterWaker(e) ==
    /\ slot' = slot \cup {e}
    /\ strong' = strong + (IF e \in slot THEN 0 ELSE 1)

\* Receiver::poll, for one of the channels the async fn awaits.
PollReceiver(e) ==
    /\ At(Caller, "inner")
    /\ e \in todo
    /\ todo' = todo \ {e}
    /\ IF e \in fired
       THEN seen' = seen \cup {e} /\ UNCHANGED <<slot, strong>>
       ELSE RegisterWaker(e) /\ UNCHANGED seen
    /\ UNCHANGED <<schedVars, pc, callVars, future, result, handle, fired, spurious>>

\* Poll::Pending: drop the waker, unlock, go on to scheduler.store().
InnerPending ==
    /\ At(Caller, "inner")
    /\ todo = {} /\ seen # Events
    /\ strong' = strong - 1
    /\ Goto(Caller, "store")
    /\ UNCHANGED <<schedVars, callVars, future, result, handle, channelVars>>

\* Channels without a sender: the receiver is all that keeps the waker in the slot.
Orphans == {e \in slot : At(e, "done")}

\* The async fn and its receivers are dropped, `refs` other references with them.
DropFuture(refs) ==
    /\ future' = FALSE
    /\ slot' = IF future THEN slot \ Orphans ELSE slot
    /\ strong' = strong - refs - (IF future THEN Cardinality(Orphans) ELSE 0)

\* Poll::Ready with a value or an error, or a panic (caught, it becomes an error):
\* the future is dropped, the result kept, the waker dropped, the lock released.
InnerReady(r) ==
    /\ At(Caller, "inner")
    /\ r = "Err" \/ (todo = {} /\ seen = Events)
    /\ result' = r
    /\ DropFuture(1)
    /\ todo' = {}
    /\ Goto(Caller, "answer")
    /\ UNCHANGED <<schedVars, callVars, handle, seen, fired, spurious>>

PollAnswer ==
    /\ At(Caller, "answer")
    /\ Answer(Caller, cb)
    /\ Goto(Caller, "return")
    /\ UNCHANGED <<callVars, futureVars, channelVars>>

PollStore ==
    /\ At(Caller, "store")
    /\ Store(Caller, cb)
    /\ Goto(Caller, "return")
    /\ UNCHANGED <<callVars, futureVars, channelVars>>

PollReturn ==
    /\ At(Caller, "return")
    /\ Idle(Caller)
    /\ strong' = strong - 1
    /\ Goto(Caller, "suspended")
    /\ UNCHANGED <<schedVars, callVars, future, result, handle, channelVars>>

-----------------------------------------------------------------------------
(* The caller: the rest of the loop *)

\* Fault: the loop polls again without waiting for its continuation.
ResumeUnasked ==
    /\ At(Caller, "suspended")
    /\ Goto(Caller, IF resumed = "Ready" THEN "complete" ELSE "poll")
    /\ UNCHANGED <<schedVars, callVars, futureVars, channelVars>>

Resume ==
    /\ At(Caller, "suspended")
    /\ resumed # "none"
    /\ Goto(Caller, IF resumed = "Ready" THEN "complete" ELSE "poll")
    /\ UNCHANGED <<schedVars, callVars, futureVars, channelVars>>

\* The foreign task is cancelled while it waits: its finally block frees.
Interrupt ==
    /\ At(Caller, "suspended")
    /\ Goto(Caller, "free")
    /\ UNCHANGED <<schedVars, callVars, futureVars, channelVars>>

\* Fault: the result is copied instead of taken.
CompleteKeepsResult ==
    /\ At(Caller, "complete")
    /\ status' = IF result = "None" THEN "Cancelled" ELSE result
    /\ DropFuture(0)
    /\ Goto(Caller, "free")
    /\ UNCHANGED <<schedVars, cb, resumed, result, handle, todo, seen, fired, spurious>>

\* rust_future_complete: take the result (none means cancelled), drop everything.
Complete ==
    /\ At(Caller, "complete")
    /\ status' = IF result = "None" THEN "Cancelled" ELSE result
    /\ result' = "None"
    /\ DropFuture(0)
    /\ Goto(Caller, "free")
    /\ UNCHANGED <<schedVars, cb, resumed, handle, todo, seen, fired, spurious>>

\* Fault: free() does not cancel, and a parked callback stays parked.
FreeWithoutCancel ==
    /\ At(Caller, "free")
    /\ handle' = FALSE
    /\ Goto(Caller, "drop")
    /\ UNCHANGED <<schedVars, callVars, future, result, strong, channelVars>>

\* rust_future_free: the handle's reference is the call's from here on.
FreeCancel ==
    /\ At(Caller, "free")
    /\ Cancel(Caller)
    /\ handle' = FALSE
    /\ Goto(Caller, "drop")
    /\ UNCHANGED <<callVars, future, result, strong, channelVars>>

\* Fault: free() gives up its reference only; the async fn stays with its waker.
FreeDropKeepsFuture ==
    /\ At(Caller, "drop")
    /\ Idle(Caller)
    /\ strong' = strong - 1
    /\ Goto(Caller, "done")
    /\ UNCHANGED <<schedVars, callVars, future, result, handle, channelVars>>

\* The async fn is dropped even if wakers keep the RustFuture alive.
FreeDrop ==
    /\ At(Caller, "drop")
    /\ Idle(Caller)
    /\ result' = "None"
    /\ DropFuture(1)
    /\ Goto(Caller, "done")
    /\ UNCHANGED <<schedVars, callVars, handle, todo, seen, fired, spurious>>

-----------------------------------------------------------------------------
(* The threads behind the awaited operations *)

\* Sender::send under the channel's lock: the value is in, the waker is out and, with
\* its reference, in the hands of the thread.
Fire(e) ==
    /\ At(e, "armed")
    /\ fired' = fired \cup {e}
    /\ slot' = slot \ {e}
    /\ Goto(e, IF e \in slot THEN "waking" ELSE "done")
    /\ UNCHANGED <<schedVars, callVars, futureVars, todo, seen, spurious>>

\* A wake without an event, through a clone of the waker.
WakeEarly(e) ==
    /\ At(e, "armed")
    /\ e \in slot
    /\ spurious < MaxSpurious
    /\ spurious' = spurious + 1
    /\ strong' = strong + 1
    /\ Goto(e, "waking")
    /\ UNCHANGED <<schedVars, callVars, future, result, handle, todo, seen, fired, slot>>

\* The sender is dropped: its value never comes, and without a receiver the channel
\* goes too, with the waker in it (waker_drop).
Abandon(e) ==
    /\ At(e, "armed")
    /\ slot' = IF future THEN slot ELSE slot \ {e}
    /\ strong' = strong - (IF e \in slot /\ ~future THEN 1 ELSE 0)
    /\ Goto(e, "done")
    /\ UNCHANGED <<schedVars, callVars, future, result, handle, todo, seen, fired, spurious>>

\* waker_wake
WakeFuture(e) ==
    /\ At(e, "waking")
    /\ Wake(e)
    /\ Goto(e, "woken")
    /\ UNCHANGED <<callVars, futureVars, channelVars>>

\* The Arc that waker_wake recreated is dropped when it returns.
WakeReturn(e) ==
    /\ At(e, "woken")
    /\ Idle(e)
    /\ strong' = strong - 1
    /\ Goto(e, IF e \in fired THEN "done" ELSE "armed")
    /\ UNCHANGED <<schedVars, callVars, future, result, handle, channelVars>>

-----------------------------------------------------------------------------
(* The canceller: rust_future_cancel, on a handle that is not freed *)

CancelBegin ==
    /\ At(Canceller, "idle")
    /\ handle
    /\ strong' = strong + 1
    /\ Goto(Canceller, "cancel")
    /\ UNCHANGED <<schedVars, callVars, future, result, handle, channelVars>>

CancelFuture ==
    /\ At(Canceller, "cancel")
    /\ Cancel(Canceller)
    /\ Goto(Canceller, "return")
    /\ UNCHANGED <<callVars, futureVars, channelVars>>

CancelReturn ==
    /\ At(Canceller, "return")
    /\ Idle(Canceller)
    /\ strong' = strong - 1
    /\ Goto(Canceller, "done")
    /\ UNCHANGED <<schedVars, callVars, future, result, handle, channelVars>>

-----------------------------------------------------------------------------

\* A callback resumes the continuation it stands for.
Callback(t) ==
    \E c \in Callbacks, code \in PollCodes :
        /\ InvokeCallback(t, c, code)
        /\ resumed' = IF c = cb THEN code ELSE resumed
        /\ UNCHANGED <<pc, cb, status, futureVars, channelVars>>

CallerNext ==
    \/ PollBegin \/ CheckCancelled \/ LockFuture
    \/ \E e \in Events : PollReceiver(e)
    \/ InnerPending
    \/ \E r \in {"Ok", "Err"} : InnerReady(r)
    \/ PollAnswer \/ PollStore \/ PollReturn
    \/ Resume \/ Complete \/ FreeCancel \/ FreeDrop
    \/ Callback(Caller)

EventNext(e) == WakeFuture(e) \/ WakeReturn(e) \/ Callback(e)

CancellerNext == CancelFuture \/ CancelReturn \/ Callback(Canceller)

\* What the program's own code goes on to do, and what happens to it.
Next ==
    \/ CallerNext
    \/ \E e \in Events : EventNext(e)
    \/ CancellerNext
    \/ Interrupt
    \/ CancelBegin
    \/ \E e \in Events : Fire(e) \/ WakeEarly(e) \/ Abandon(e)

\* Threads inside the library run on.  Events need not happen and nobody need cancel.
Fairness ==
    /\ WF_vars(CallerNext)
    /\ \A e \in Events : WF_vars(EventNext(e))
    /\ WF_vars(CancellerNext)

Spec == Init /\ [][Next]_vars

FairSpec == Spec /\ Fairness

-----------------------------------------------------------------------------
(* Properties *)

\* The caller sleeps and its callback is parked in the scheduler.
Parked ==
    /\ At(Caller, "suspended")
    /\ resumed = "none"
    /\ cb \in stored

\* No lost wakeup: a parked caller waits for something.  Each value the async fn still
\* lacks either has not been sent, and then the channel holds a waker, or its sender is
\* about to wake: no wake between the poll of the receiver and store() got lost.
NoLostWakeup ==
    Parked =>
        /\ future /\ seen # Events
        /\ \A e \in Events \ seen : IF e \in fired THEN At(e, "waking") ELSE e \in slot

\* store() never meets another callback: the foreign loop has one poll at a time, the
\* question in the trace message of Scheduler::store.
OnePollAtATime == At(Caller, "store") => state # "Set"

InCall(t) ==
    IF t = Caller THEN pc[t] \notin {"poll", "suspended", "complete", "free", "done"}
    ELSE IF t = Canceller THEN pc[t] \in {"cancel", "return"}
    ELSE pc[t] \in {"waking", "woken"}

\* When nobody is inside the library, a caller that sleeps does so for a reason: its
\* continuation is parked, the call is not cancelled, and for each value that the async
\* fn lacks and nobody has sent there is a waker in the channel.
SleepsForEvents ==
    (At(Caller, "suspended") /\ resumed = "none" /\ \A t \in Threads : ~InCall(t)) =>
        /\ cb \in stored /\ ~IsCancelled
        /\ future /\ seen # Events
        /\ \A e \in Events \ seen : e \notin fired /\ e \in slot

\* The RustFuture is alive while the handle, a running call or a waker can reach it, so
\* that neither a late wake() nor a late cancel() touches freed memory.
NoUseAfterFree ==
    (handle \/ slot # {} \/ \E t \in Threads : InCall(t)) => strong > 0

\* ... and it is deallocated once all of them are through: the waker that the async fn
\* keeps of itself is no cycle, because free() and complete() drop the async fn.
NoLeak ==
    (/\ At(Caller, "done")
     /\ pc[Canceller] \in {"idle", "done"}
     /\ \A e \in Events : At(e, "done")) => strong = 0

\* "For each rust_future_poll call the continuation will be called exactly once",
\* also for the polls of a caller that was interrupted: once no thread is about to
\* invoke, none is left out.
EveryPollAnswered ==
    (At(Caller, "done") /\ \A t \in Threads : Idle(t)) => \A c \in issued : calls[c] = 1

\* If nothing that is awaited is abandoned, and all of it happens, the call ends.
Termination ==
    (\A e \in Events : <>(e \in fired)) => <>At(Caller, "done")

\* rust_future_cancel ends the call even if nothing that is awaited ever happens: "any
\* current and future continuations will be immediately called with Ready".
CancelEndsCall == At(Canceller, "cancel") ~> At(Caller, "done")

\* What two documents say, and the code does otherwise (README, findings).  After
\* rust_future_free every continuation has been called:
FreeCallsOutstanding == At(Caller, "done") => \A c \in issued : calls[c] = 1

\* and rust_future_cancel drops the Rust future:
CancelDropsFuture == At(Canceller, "done") => ~future

\* The abstract call that this implements.
computed == IF result # "None" THEN result ELSE IF future THEN "pending" ELSE "gone"

requested == pc[Canceller] \in {"return", "done"}

Abstract == INSTANCE AsyncCall WITH Results <- {"Ok", "Err"}, answer <- status

\* Every behaviour is one of the abstract call: at most one result, delivered as it was
\* computed and at most once, and Cancelled only on request.
ImplementsAsyncCall == Abstract!AsyncSpec
=============================================================================
