---------------------------- MODULE KotlinObject ----------------------------
(***************************************************************************)
(* The life of a Rust object behind Kotlin wrappers: ObjectTemplate.kt     *)
(* (destroy, callWithHandle, the cleaner, lower and lift), the clone and   *)
(* free functions of uniffi_macros/src/object.rs and the Arc count that a  *)
(* handle stands for (uniffi_core/src/ffi/handle.rs).                      *)
(*                                                                         *)
(* One Rust object, the wrappers made of handles to it, and threads that   *)
(* call methods on a wrapper, pass a wrapper as an argument, get the       *)
(* object returned, and destroy wrappers.  Java's cleaner frees the handle *)
(* of a wrapper that nobody refers to.                                     *)
(***************************************************************************)
EXTENDS Naturals, FiniteSets

CONSTANTS
    Wrappers,       \* the Kotlin objects for the Rust object
    Threads,        \* the threads of the Kotlin program
    NoWrapper,      \* no wrapper
    MaxCount,       \* Long.MAX_VALUE
    MaxRefs,        \* bound: references that Rust keeps
    MaxLost,        \* bound: references that failed calls lose
    PassesDestroyed,\* the program passes wrappers as arguments while or after it destroys them
    KeepsArguments  \* a wrapper passed as an argument stays reachable until its call has ended

ASSUME WrapperAssumption ==
    /\ IsFiniteSet(Wrappers) /\ IsFiniteSet(Threads)
    /\ NoWrapper \notin Wrappers
    /\ MaxCount \in Nat /\ MaxCount > 1
    /\ MaxRefs \in Nat /\ MaxLost \in Nat
    /\ PassesDestroyed \in BOOLEAN
    /\ KeepsArguments \in BOOLEAN

VARIABLES
    strong,         \* the Arc's strong count; the object is dropped when it becomes 0
    rustRefs,       \* the part of it that Rust keeps after a call: stored Arcs, futures
    lost,           \* the part that nobody owns any more
    created,        \* the wrappers constructed
    reachable,      \* those the program refers to
    wasDestroyed,   \* those whose flag is set
    callCounter,    \* their AtomicLong
    cleaned,        \* those whose clean action has run
    pc,             \* where a thread is
    self,           \* the wrapper it calls or destroys
    arg,            \* the wrapper it passes as an argument, or NoWrapper
    c,              \* the counter it read
    carried,        \* handles in the hands of a thread, or of the Rust function it called
    fresh           \* the wrapper it will make of the returned handle, or NoWrapper

refVars == <<strong, rustRefs, lost, carried>>
wrapperVars == <<created, reachable, wasDestroyed, callCounter, cleaned>>
threadVars == <<pc, self, arg, c, fresh>>
vars == <<refVars, wrapperVars, threadVars>>

Tokens == Threads \X {"self", "arg", "return"}

RefTypes ==
    /\ strong \in Nat
    /\ rustRefs \in 0..MaxRefs /\ lost \in 0..MaxLost
    /\ carried \in SUBSET Tokens

WrapperTypes ==
    /\ created \in SUBSET Wrappers
    /\ reachable \in SUBSET created
    /\ wasDestroyed \in SUBSET created
    /\ cleaned \in SUBSET created
    /\ callCounter \in [Wrappers -> 0..MaxCount]

ThreadTypes ==
    /\ pc \in [Threads -> {"idle", "load", "cas", "clone", "lower", "pass", "rust",
                           "finally", "clean", "lift"}]
    /\ self \in [Threads -> Wrappers \cup {NoWrapper}]
    /\ arg \in [Threads -> Wrappers \cup {NoWrapper}]
    /\ fresh \in [Threads -> Wrappers \cup {NoWrapper}]
    /\ c \in [Threads -> 0..MaxCount]

KotlinTypeOK == RefTypes /\ WrapperTypes /\ ThreadTypes

\* The primary constructor has returned: one handle, one wrapper.
Init ==
    /\ \E w \in Wrappers : created = {w}
    /\ strong = 1
    /\ rustRefs = 0 /\ lost = 0 /\ carried = {}
    /\ reachable = created
    /\ wasDestroyed = {} /\ cleaned = {}
    /\ callCounter = [w \in Wrappers |-> 1]
    /\ pc = [t \in Threads |-> "idle"]
    /\ self = [t \in Threads |-> NoWrapper]
    /\ arg = [t \in Threads |-> NoWrapper]
    /\ fresh = [t \in Threads |-> NoWrapper]
    /\ c = [t \in Threads |-> 0]

Goto(t, loc) == pc' = [pc EXCEPT ![t] = loc]

-----------------------------------------------------------------------------
(* destroy(), the cleaner *)

Lowering(w) == \E t \in Threads : arg[t] = w /\ pc[t] \in {"load", "cas", "clone", "lower"}

\* Fault: without the flag's compareAndSet.
DestroyAgain(t, w) ==
    /\ pc[t] = "idle"
    /\ w \in reachable
    /\ PassesDestroyed \/ ~Lowering(w)
    /\ wasDestroyed' = wasDestroyed \cup {w}
    /\ self' = [self EXCEPT ![t] = w]
    /\ arg' = [arg EXCEPT ![t] = NoWrapper]
    /\ Goto(t, "finally")
    /\ UNCHANGED <<refVars, created, reachable, callCounter, cleaned, c, fresh>>

\* Fault: clean at once, without waiting for the calls in flight.
DestroyAtOnce(t, w) ==
    /\ pc[t] = "idle"
    /\ w \in reachable \ wasDestroyed
    /\ PassesDestroyed \/ ~Lowering(w)
    /\ wasDestroyed' = wasDestroyed \cup {w}
    /\ self' = [self EXCEPT ![t] = w]
    /\ arg' = [arg EXCEPT ![t] = NoWrapper]
    /\ Goto(t, "clean")
    /\ UNCHANGED <<refVars, created, reachable, callCounter, cleaned, c, fresh>>

\* destroy() or close() up to compareAndSet(false, true); a second call does nothing.
Destroy(t, w) ==
    /\ pc[t] = "idle"
    /\ w \in reachable \ wasDestroyed
    /\ PassesDestroyed \/ ~Lowering(w)
    /\ wasDestroyed' = wasDestroyed \cup {w}
    /\ self' = [self EXCEPT ![t] = w]
    /\ arg' = [arg EXCEPT ![t] = NoWrapper]
    /\ Goto(t, "finally")
    /\ UNCHANGED <<refVars, created, reachable, callCounter, cleaned, c, fresh>>

\* Where a call goes on at its end: the handle it returned is lifted.
End(returned) == IF returned = NoWrapper THEN "idle" ELSE "lift"

\* Fault: who finds the counter at zero does not clean.
DecrementOnly(t) ==
    /\ pc[t] = "finally"
    /\ callCounter' = [callCounter EXCEPT ![self[t]] = @ - 1]
    /\ Goto(t, End(fresh[t]))
    /\ UNCHANGED <<refVars, created, reachable, wasDestroyed, cleaned, self, arg, c, fresh>>

\* decrementAndGet() == 0L, in destroy() and in callWithHandle's finally.
Decrement(t) ==
    /\ pc[t] = "finally"
    /\ callCounter' = [callCounter EXCEPT ![self[t]] = @ - 1]
    /\ Goto(t, IF callCounter[self[t]] = 1 THEN "clean" ELSE End(fresh[t]))
    /\ UNCHANGED <<refVars, created, reachable, wasDestroyed, cleaned, self, arg, c, fresh>>

\* UniffiCleanAction, which frees the handle; a Cleanable runs it at most once.
RunClean(w) ==
    /\ cleaned' = cleaned \cup {w}
    /\ strong' = IF w \in cleaned THEN strong ELSE strong - 1

Clean(t) ==
    /\ pc[t] = "clean"
    /\ RunClean(self[t])
    /\ Goto(t, End(fresh[t]))
    /\ UNCHANGED <<rustRefs, lost, carried, created, reachable, wasDestroyed, callCounter,
                   self, arg, c, fresh>>

\* The program forgets a wrapper.
Forget(w) ==
    /\ w \in reachable
    /\ reachable' = reachable \ {w}
    /\ UNCHANGED <<refVars, created, wasDestroyed, callCounter, cleaned, threadVars>>

\* What the collector takes for reachable.  callWithHandle's finally refers to the receiver;
\* nothing refers to an argument once lower() has read its handle, and a runtime may or may
\* not keep it: at "lower" the handle is read and not yet cloned.
InUse(w) ==
    \E t \in Threads :
       /\ pc[t] # "idle"
       /\ \/ w = self[t]
          \/ w = arg[t] /\ (KeepsArguments \/ pc[t] \in {"load", "cas", "clone"})

\* The cleaner's thread, for a wrapper that only the collector knows.
Collect(w) ==
    /\ w \in created \ (reachable \cup cleaned)
    /\ ~InUse(w)
    /\ RunClean(w)
    /\ UNCHANGED <<rustRefs, lost, carried, created, reachable, wasDestroyed, callCounter,
                   threadVars>>

-----------------------------------------------------------------------------
(* callWithHandle() *)

CanPass(a) == a \in reachable /\ (PassesDestroyed \/ a \notin wasDestroyed)

\* A method is called on w, with a as an argument or without one.
CallMethod(t, w, a) ==
    /\ pc[t] = "idle"
    /\ w \in reachable
    /\ a = NoWrapper \/ CanPass(a)
    /\ self' = [self EXCEPT ![t] = w]
    /\ arg' = [arg EXCEPT ![t] = a]
    /\ Goto(t, "load")
    /\ UNCHANGED <<refVars, wrapperVars, c, fresh>>

\* A function, or a method of some other object, is called with a as an argument.
CallFunction(t, a) ==
    /\ pc[t] = "idle"
    /\ CanPass(a)
    /\ self' = [self EXCEPT ![t] = NoWrapper]
    /\ arg' = [arg EXCEPT ![t] = a]
    /\ Goto(t, "lower")
    /\ UNCHANGED <<refVars, wrapperVars, c, fresh>>

\* Fault: the loop does not look at the limit.
LoadUnlimited(t) ==
    /\ pc[t] = "load"
    /\ c' = [c EXCEPT ![t] = callCounter[self[t]]]
    /\ Goto(t, IF callCounter[self[t]] = 0 THEN "idle" ELSE "cas")
    /\ UNCHANGED <<refVars, wrapperVars, self, arg, fresh>>

\* callCounter.get(); a counter of zero or of MAX_VALUE is an IllegalStateException.
LoadCounter(t) ==
    /\ pc[t] = "load"
    /\ c' = [c EXCEPT ![t] = callCounter[self[t]]]
    /\ Goto(t, IF callCounter[self[t]] \in {0, MaxCount} THEN "idle" ELSE "cas")
    /\ UNCHANGED <<refVars, wrapperVars, self, arg, fresh>>

\* Fault: check, then increment, without a retry.
IncrementBlindly(t) ==
    /\ pc[t] = "cas"
    /\ callCounter' = [callCounter EXCEPT ![self[t]] = @ + 1]
    /\ Goto(t, "clone")
    /\ UNCHANGED <<refVars, created, reachable, wasDestroyed, cleaned, self, arg, c, fresh>>

\* compareAndSet(c, c + 1L), or the loop again.
CompareAndSet(t) ==
    /\ pc[t] = "cas"
    /\ IF callCounter[self[t]] = c[t]
       THEN callCounter' = [callCounter EXCEPT ![self[t]] = c[t] + 1] /\ Goto(t, "clone")
       ELSE Goto(t, "load") /\ UNCHANGED callCounter
    /\ UNCHANGED <<refVars, created, reachable, wasDestroyed, cleaned, self, arg, c, fresh>>

\* Fault: the handle itself is passed, without a clone.
BorrowHandle(t) ==
    /\ pc[t] = "clone"
    /\ carried' = carried \cup {<<t, "self">>}
    /\ Goto(t, "lower")
    /\ UNCHANGED <<strong, rustRefs, lost, wrapperVars, self, arg, c, fresh>>

\* uniffiCloneHandle(): Arc::increment_strong_count.
CloneHandle(t) ==
    /\ pc[t] = "clone"
    /\ strong' = strong + 1
    /\ carried' = carried \cup {<<t, "self">>}
    /\ Goto(t, "lower")
    /\ UNCHANGED <<rustRefs, lost, wrapperVars, self, arg, c, fresh>>

\* lower(value): another uniffiCloneHandle(), on the argument's handle as it stands.
LowerArgument(t) ==
    /\ pc[t] = "lower"
    /\ IF arg[t] = NoWrapper
       THEN UNCHANGED <<strong, carried>>
       ELSE strong' = strong + 1 /\ carried' = carried \cup {<<t, "arg">>}
    /\ Goto(t, "pass")
    /\ UNCHANGED <<rustRefs, lost, wrapperVars, self, arg, c, fresh>>

\* The handles cloned for a call.
Passed(t) == {<<t, "self">>, <<t, "arg">>}

\* Leaving the block, of callWithHandle or of a function's call.
Leave(t, returned) == Goto(t, IF self[t] = NoWrapper THEN End(returned) ELSE "finally")

\* The lowering of another argument raises, before that of arg or after it: the handles
\* cloned for the call are forgotten.
LoweringFails(t) ==
    /\ pc[t] \in {"lower", "pass"}
    /\ lost + Cardinality(carried \cap Passed(t)) <= MaxLost
    /\ lost' = lost + Cardinality(carried \cap Passed(t))
    /\ carried' = carried \ Passed(t)
    /\ Leave(t, NoWrapper)
    /\ UNCHANGED <<strong, rustRefs, wrapperVars, self, arg, c, fresh>>

-----------------------------------------------------------------------------
(* The Rust function, which owns the handles it was passed (into_arc) *)

\* The lift closure: self, then each argument.
LiftArguments(t) ==
    /\ pc[t] = "pass"
    /\ Goto(t, "rust")
    /\ UNCHANGED <<refVars, wrapperVars, self, arg, c, fresh>>

\* An earlier argument cannot be lifted: the closure drops self, and nobody lifts arg.
LiftFails(t) ==
    /\ pc[t] = "pass"
    /\ lost < MaxLost
    /\ lost' = lost + Cardinality(carried \cap {<<t, "arg">>})
    /\ strong' = strong - Cardinality(carried \cap {<<t, "self">>})
    /\ carried' = carried \ Passed(t)
    /\ Leave(t, NoWrapper)
    /\ UNCHANGED <<rustRefs, wrapperVars, self, arg, c, fresh>>

\* It clones the Arc and stores it.
Keep(t) ==
    /\ pc[t] = "rust"
    /\ rustRefs < MaxRefs
    /\ rustRefs' = rustRefs + 1
    /\ strong' = strong + 1
    /\ UNCHANGED <<lost, carried, wrapperVars, threadVars>>

\* It returns a plain value or an error, or panics: its arguments are dropped.
Return(t) ==
    /\ pc[t] = "rust"
    /\ strong' = strong - Cardinality(carried \cap Passed(t))
    /\ carried' = carried \ Passed(t)
    /\ Leave(t, NoWrapper)
    /\ UNCHANGED <<rustRefs, lost, wrapperVars, self, arg, c, fresh>>

\* It returns the object: Handle::from_arc of a clone.
ReturnObject(t, w) ==
    /\ pc[t] = "rust"
    /\ w \notin created
    /\ \A u \in Threads : fresh[u] # w
    /\ strong' = strong - Cardinality(carried \cap Passed(t)) + 1
    /\ carried' = (carried \ Passed(t)) \cup {<<t, "return">>}
    /\ fresh' = [fresh EXCEPT ![t] = w]
    /\ Leave(t, w)
    /\ UNCHANGED <<rustRefs, lost, wrapperVars, self, arg, c>>

\* An async function: the future owns the arguments.
ReturnFuture(t) ==
    /\ pc[t] = "rust"
    /\ rustRefs + Cardinality(carried \cap Passed(t)) <= MaxRefs
    /\ rustRefs' = rustRefs + Cardinality(carried \cap Passed(t))
    /\ carried' = carried \ Passed(t)
    /\ Leave(t, NoWrapper)
    /\ UNCHANGED <<strong, lost, wrapperVars, self, arg, c, fresh>>

\* Rust drops what it kept: a stored Arc, or those of a future that is freed.
RustDrops ==
    /\ rustRefs > 0
    /\ rustRefs' = rustRefs - 1
    /\ strong' = strong - 1
    /\ UNCHANGED <<lost, carried, wrapperVars, threadVars>>

\* lift(value): a new wrapper owns the returned handle.
Lift(t) ==
    /\ pc[t] = "lift"
    /\ created' = created \cup {fresh[t]}
    /\ reachable' = reachable \cup {fresh[t]}
    /\ carried' = carried \ {<<t, "return">>}
    /\ fresh' = [fresh EXCEPT ![t] = NoWrapper]
    /\ Goto(t, "idle")
    /\ UNCHANGED <<strong, rustRefs, lost, wasDestroyed, callCounter, cleaned, self, arg, c>>

-----------------------------------------------------------------------------

\* What a thread does once it has begun a call or a destroy.
ThreadRuns(t) ==
    \/ Decrement(t) \/ Clean(t)
    \/ LoadCounter(t) \/ CompareAndSet(t)
    \/ CloneHandle(t) \/ LowerArgument(t) \/ LoweringFails(t)
    \/ LiftArguments(t) \/ LiftFails(t)
    \/ Return(t) \/ ReturnFuture(t) \/ \E w \in Wrappers : ReturnObject(t, w)
    \/ Lift(t)

Next ==
    \/ \E t \in Threads :
          \/ ThreadRuns(t)
          \/ Keep(t)
          \/ \E w \in Wrappers :
                \/ Destroy(t, w)
                \/ CallFunction(t, w)
                \/ \E a \in Wrappers \cup {NoWrapper} : CallMethod(t, w, a)
    \/ \E w \in Wrappers : Forget(w) \/ Collect(w)
    \/ RustDrops

Spec == Init /\ [][Next]_vars

\* A thread in the middle of a call goes on, and the Rust function returns.  The collector
\* need not run.
FairSpec == Spec /\ \A t \in Threads : WF_vars(ThreadRuns(t))

-----------------------------------------------------------------------------
(* Properties *)

Counted(w) == {t \in Threads : self[t] = w /\ pc[t] \in {"clone", "lower", "pass", "rust", "finally"}}

\* "We must never allow Rust code to operate on the underlying Rust struct after the
\* destructor has been called": where a thread is about to use the handle, or does, the
\* Arc is alive.  For arguments it takes PassesDestroyed = FALSE and KeepsArguments = TRUE.
NoUseAfterFree ==
    \A t \in Threads :
       (pc[t] \in {"clone", "pass", "rust", "lift"} \/ (pc[t] = "lower" /\ arg[t] # NoWrapper))
          => strong > 0

\* The Arc count is the number of the handles' owners: no wrapper's handle is freed twice,
\* or along with somebody else's.
OwnersCounted ==
    strong = Cardinality(created \ cleaned) + Cardinality(carried) + rustRefs + lost

\* "The underlying Rust struct is destroyed only when destroy has been called and all
\* in-flight method calls have completed", or when the wrapper was collected.
FreedAfterCalls ==
    \A w \in cleaned : Counted(w) = {} /\ (w \in wasDestroyed \/ w \notin reachable)

\* Once everything is destroyed and dropped, the object is, but for the handles lost
\* by calls whose arguments could not be lowered or lifted.
NoLeak ==
    (/\ \A t \in Threads : pc[t] = "idle"
     /\ created \subseteq wasDestroyed /\ rustRefs = 0) => strong = lost

\* A destroyed wrapper's handle is freed without the collector's help, if the program does
\* not call it for ever.
DestroyFrees ==
    \A w \in Wrappers :
       <>[](w \in wasDestroyed /\ w \notin reachable) => <>(w \in cleaned)

\* The abstract life: a thread is inside a wrapper from the increment of its counter, or from
\* setting its flag, to the decrement.
inside == [t \in Threads |->
              IF pc[t] \in {"clone", "lower", "pass", "rust", "finally"} THEN self[t] ELSE NoWrapper]

Life == INSTANCE ObjectLife WITH
    made <- created,
    forgotten <- created \ reachable,
    closed <- wasDestroyed,
    freed <- cleaned

\* The counter, the flag and the retry loop do what the template's comment says: a handle is
\* freed once, by the last to leave a destroyed wrapper or by the collector, and nobody
\* enters afterwards.
ImplementsLife == Life!LifeSpec
=============================================================================
