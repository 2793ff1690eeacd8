----------------------------- MODULE Scheduler -----------------------------
(***************************************************************************)
(* The continuation scheduler of a RustFuture                              *)
(* (uniffi_core/src/ffi/rustfuture/scheduler.rs): one Mutex around         *)
(* Empty | Waked | Cancelled | Set(callback), used by the foreign task     *)
(* that polls, by the threads that wake and by the thread that cancels.    *)
(*                                                                         *)
(* Each operation is one critical section that decides which callback is   *)
(* to be invoked, if any; the invocation itself comes after the unlock and *)
(* is a step of its own, so any other thread may run in between.           *)
(*                                                                         *)
(* Next lets any thread call any operation at any moment, two concurrent   *)
(* polls included: what is proved of SchedSpec holds for every client.     *)
(* The operators marked "Fault" are not used: each is a plausible mistake   *)
(* in the definition after it, and breaks one of the properties.           *)
(***************************************************************************)
EXTENDS Naturals

CONSTANTS Threads,    \* threads that call into the scheduler
          Callbacks   \* callback data values, one per call of rust_future_poll

VARIABLES
    state,      \* the State enum's variant
    stored,     \* the payload of Set: a singleton in that variant, else empty
    toInvoke,   \* per thread, the invocation it owes after its critical section
    issued,     \* history: callbacks handed over by the foreign side
    calls       \* history: how often each callback has been invoked

schedVars == <<state, stored, toInvoke, issued, calls>>

States == {"Empty", "Waked", "Cancelled", "Set"}

\* RustFuturePoll, the code a callback is invoked with.
PollCodes == {"Ready", "Wake"}

\* The types.  `stored` and `toInvoke[t]` are Options: at most one element, and
\* `stored` has one exactly in the variant that carries a callback.
SchedTypeOK ==
    /\ state \in States
    /\ stored \in SUBSET Callbacks
    /\ toInvoke \in [Threads -> SUBSET (Callbacks \X PollCodes)]
    /\ issued \in SUBSET Callbacks
    /\ calls \in [Callbacks -> Nat]
    /\ state = "Set" <=> stored # {}
    /\ \A c, d \in stored : c = d
    /\ \A t \in Threads : \A x, y \in toInvoke[t] : x = y

SchedInit ==
    /\ state = "Empty"
    /\ stored = {}
    /\ toInvoke = [t \in Threads |-> {}]
    /\ issued = {}
    /\ calls = [c \in Callbacks |-> 0]

-----------------------------------------------------------------------------
(* The operations.  A thread that still owes an invocation is inside one.  *)

Idle(t) == toInvoke[t] = {}

IsCancelled == state = "Cancelled"

\* What thread t has to invoke once it has released the lock.
Owe(t, cbs, code) == toInvoke' = [toInvoke EXCEPT ![t] = cbs \X {code}]

\* Callback cb is new: the foreign handle map never gives a handle twice.
Issue(cb) ==
    /\ cb \in Callbacks \ issued
    /\ issued' = issued \cup {cb}

\* State::Empty => Set(callback)
StoreEmpty(t, cb) ==
    /\ state = "Empty"
    /\ state' = "Set"
    /\ stored' = {cb}
    /\ UNCHANGED toInvoke

\* Fault: the older callback is dropped when a new one replaces it.
StoreSetDropsOld(t, cb) ==
    /\ state = "Set"
    /\ stored' = {cb}
    /\ UNCHANGED <<state, toInvoke>>

\* State::Set(old) => Set(callback), and old is woken: two polls at once.
StoreSet(t, cb) ==
    /\ state = "Set"
    /\ stored' = {cb}
    /\ Owe(t, stored, "Wake")
    /\ UNCHANGED state

\* Fault: the callback is parked although a wake() came before it.
StoreWakedParks(t, cb) ==
    /\ state = "Waked"
    /\ state' = "Set"
    /\ stored' = {cb}
    /\ UNCHANGED toInvoke

\* State::Waked => Empty, and the new callback is woken at once.
StoreWaked(t, cb) ==
    /\ state = "Waked"
    /\ state' = "Empty"
    /\ Owe(t, {cb}, "Wake")
    /\ UNCHANGED stored

\* Fault: the callback is parked in a scheduler that nobody wakes any more.
StoreCancelledParks(t, cb) ==
    /\ IsCancelled
    /\ stored' = {cb}
    /\ UNCHANGED <<state, toInvoke>>

\* State::Cancelled => stays, and the new callback is told Ready at once.
StoreCancelled(t, cb) ==
    /\ IsCancelled
    /\ Owe(t, {cb}, "Ready")
    /\ UNCHANGED <<state, stored>>

Store(t, cb) ==
    /\ Idle(t)
    /\ Issue(cb)
    /\ \/ StoreEmpty(t, cb)
       \/ StoreSet(t, cb)
       \/ StoreWaked(t, cb)
       \/ StoreCancelled(t, cb)
    /\ UNCHANGED calls

\* Fault: the callback is called without being taken out.
WakeSetKeeps(t) ==
    /\ state = "Set"
    /\ state' = "Empty"
    /\ Owe(t, stored, "Wake")
    /\ UNCHANGED stored

\* State::Set(callback) => Empty, and the callback is woken.
WakeSet(t) ==
    /\ state = "Set"
    /\ state' = "Empty"
    /\ stored' = {}
    /\ Owe(t, stored, "Wake")

\* Fault: a wake() that meets no callback is dropped.
WakeEmptyIgnored(t) ==
    /\ state = "Empty"
    /\ UNCHANGED <<state, stored, toInvoke>>

\* State::Empty => Waked: the next store() will see it.
WakeEmpty(t) ==
    /\ state = "Empty"
    /\ state' = "Waked"
    /\ UNCHANGED <<stored, toInvoke>>

\* Fault: a late wake() reopens a cancelled scheduler.
WakeReopens(t) ==
    /\ state \in {"Waked", "Cancelled"}
    /\ state' = "Waked"
    /\ UNCHANGED <<stored, toInvoke>>

WakeNoOp(t) ==
    /\ state \in {"Waked", "Cancelled"}
    /\ UNCHANGED <<state, stored, toInvoke>>

Wake(t) ==
    /\ Idle(t)
    /\ WakeSet(t) \/ WakeEmpty(t) \/ WakeNoOp(t)
    /\ UNCHANGED <<issued, calls>>

Cancel(t) ==
    /\ Idle(t)
    /\ state' = "Cancelled"
    /\ stored' = {}
    /\ Owe(t, stored, "Ready")
    /\ UNCHANGED <<issued, calls>>

\* A poll that finds its future ready answers its own callback, which the
\* scheduler never sees (RustFuture::poll).
Answer(t, cb) ==
    /\ Idle(t)
    /\ Issue(cb)
    /\ Owe(t, {cb}, "Ready")
    /\ UNCHANGED <<state, stored, calls>>

\* The invocation, outside the lock: RustFutureCallback::invoke.
InvokeCallback(t, cb, code) ==
    /\ <<cb, code>> \in toInvoke[t]
    /\ toInvoke' = [toInvoke EXCEPT ![t] = {}]
    /\ calls' = [calls EXCEPT ![cb] = @ + 1]
    /\ UNCHANGED <<state, stored, issued>>

Invoke(t) ==
    \E cb \in Callbacks, code \in PollCodes : InvokeCallback(t, cb, code)

SchedNext ==
    \E t \in Threads :
        \/ \E cb \in Callbacks : Store(t, cb) \/ Answer(t, cb)
        \/ Wake(t)
        \/ Cancel(t)
        \/ Invoke(t)

SchedSpec == SchedInit /\ [][SchedNext]_schedVars

\* A thread between its unlock and its invocation gets there: that is straight
\* line code.  Nobody has to call anything.
FairSchedSpec == SchedSpec /\ \A t \in Threads : WF_schedVars(Invoke(t))

-----------------------------------------------------------------------------
(* Properties *)

\* Thread t is about to invoke callback c.
Holds(t, c) == \E code \in PollCodes : <<c, code>> \in toInvoke[t]

\* "Each callback will be invoked exactly once" as an invariant: a callback
\* handed over has been invoked once, or it sits in exactly one place from
\* which it will be invoked; it is never dropped and never in two hands.
ExactlyOnce ==
    \A c \in Callbacks :
        LET holders == {t \in Threads : Holds(t, c)}
        IN  IF c \in issued \ stored
            THEN \/ calls[c] = 1 /\ holders = {}
                 \/ calls[c] = 0 /\ \E t \in Threads : holders = {t}
            ELSE calls[c] = 0 /\ holders = {} /\ (c \in stored => c \in issued)

\* A wake() that met no callback is not forgotten: only handing it to a callback,
\* or cancel(), ends the Waked state.
WakeRemembered ==
    [][state = "Waked" /\ state' # "Waked" =>
          \/ state' = "Cancelled"
          \/ \E t \in Threads, c \in issued' \ issued :
                <<c, "Wake">> \in toInvoke'[t]]_schedVars

\* cancel(): the scheduler stays cancelled, keeps no callback and answers every
\* callback it is given from then on without waiting for a wake.
CancelIsFinal ==
    [][state = "Cancelled" => state' = "Cancelled" /\ stored' = {}]_schedVars

\* Under cancel() every callback, current or future, is eventually invoked.
CancelFlushes ==
    \A c \in Callbacks : (IsCancelled /\ c \in issued) ~> (calls[c] = 1)
=============================================================================
