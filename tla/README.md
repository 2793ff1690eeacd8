# UniFFI: a verification project

UniFFI generates the code that lets Kotlin, Swift, Python and Ruby call a Rust
library and be called by it. Most of the repository is a compiler: proc macros,
a UDL parser and a pipeline that turn metadata into source text. What runs in a
user's program is small, and it is what these modules are about: the runtime in
`uniffi_core`, and the templates that the bindings are made of.

## Inventory

| Part | State | Operations | Who calls whom |
|---|---|---|---|
| Scheduler (`uniffi_core/src/ffi/rustfuture/scheduler.rs`) | `Empty`, `Waked`, `Cancelled` or `Set(callback)` behind a Mutex | `store`, `wake`, `cancel`, `is_cancelled` | called by RustFuture and by wakers on any thread; calls the foreign continuation |
| RustFuture (`.../future.rs`, `mod.rs`) | the async fn or its result behind a Mutex, a scheduler, an Arc count shared by the handle, running calls and wakers | `rust_future_new/poll/cancel/complete/free`, the waker vtable | called by the foreign poll loop; polls the async fn |
| Foreign poll loops (`Async.{kt,py,swift,rb}`) | the continuation of the current poll, in a handle map | `uniffiRustCallAsync` and its continuation callback | drive one RustFuture per call |
| Oneshot channel (`uniffi_core/src/oneshot.rs`) | a value and a waker behind a Mutex | `send`, `poll`, drop of either end | sender on a foreign thread, receiver in an async fn |
| Foreign futures (`foreignfuture.rs`, `Async.*`) | a channel, the raw sender handed across the FFI, the dropped callback, the foreign task | `foreign_async_call`, `foreign_future_complete`, the dropped callback, each language's task driver | Rust awaits a foreign method |
| Handle maps (`HandleMap.*`) | a map and a counter under a lock | `insert`, `get`, `clone`, `remove` | continuations, callback interfaces, foreign futures |
| Object handles (`handle.rs`) | an Arc behind a `u64` | `from_arc`, `into_arc`, `into_arc_borrowed`, `clone_arc_handle` | every method call on an object |
| Kotlin objects (`ObjectTemplate.kt`) | a handle, a destroyed flag, a call counter, a cleaner | `destroy`, `callWithHandle`, `uniffiCloneHandle` | user threads and the cleaner |
| Callback interfaces (`foreigncallbacks.rs`, `callback_interface.rs`) | a vtable cell, handles in the foreign map | init, clone, free, methods | Rust calls foreign |
| RustBuffer, RustCallStatus | a heap buffer with an owner, an out-parameter | alloc, from_bytes, reserve, free; `rust_call`, panics | every call with data |
| Search for recursive types (`infer_recursive_enums.rs`) | a stack, the visited and the recursive types | `find_recursive_enum_names` | both generators, before anything is rendered |
| JNI runtime (`uniffi-bindgen-kotlin-jni`) | a second async call, with a continuation kept under the future's lock | poll, wake, cancel, complete, free | Kotlin over JNI |
| Other generators, parsers, metadata, CLI | none at run time | | |

Hard behaviours: wakes and cancellations that arrive between two critical
sections of one `poll`; callbacks taken under a lock and invoked after it;
wakers that outlive the handle; a reference cycle async fn → channel → waker →
RustFuture → async fn; foreign tasks that are interrupted while their
continuation is parked; Rust futures that are dropped while the foreign task
that should answer them is running; objects that the foreign side implements and
Rust frees from whichever thread drops the last Arc; callbacks that end by an
exception, with a buffer to be freed by the other side; foreign runtime locks held
around calls into the library; a graph search whose order comes out of hash tables. For each part the properties that make it correct are listed with
its module below, and every hazard, at its line, in `PROJECT.json`.

## Modules

| Module | Models |
|---|---|
| `Scheduler` | the scheduler under any client; `MCScheduler` instantiates it |
| `RustFuture` | one async call: caller, RustFuture, wakers, channels, canceller; EXTENDS `Scheduler`; `MCRustFuture` instantiates it |
| `AsyncCall` | the abstract async call; `RustFuture` implements it in one direction, `ForeignFuture` in the other |
| `ForeignFuture` | one foreign async method awaited by Rust: the call, the channel, the task drivers of the four languages, cancellation |
| `KotlinObject` | a Rust object behind Kotlin wrappers: threads that call, pass, return and destroy it, the cleaner, the Arc count |
| `ObjectLife` | the gate that `KotlinObject` implements: who may enter a wrapper, and when its handle is freed |
| `CallbackInterface` | objects that Kotlin implements and Rust calls: the handle map, the handlers and their Arcs, a method call and its buffers |
| `HandleTable` | the handle map as the bindings with a lock have it, which `CallbackInterface` implements |
| `TypeGraph`, `RecursiveTypes` | the containment graph of types; the depth-first search for the recursive ones |
| `SchedulerProofs`, `RustFutureProofs`, `ReferenceCountProofs`, `ForeignFutureProofs`, `KotlinObjectProofs`, `CallbackInterfaceProofs`, `TypeGraphProofs`, `RecursiveTypesProofs` | the theorems |

### Scheduler

`state` and `stored` are the enum and its payload. A critical section is one
action: it decides which callback is to be invoked, puts it in `toInvoke[t]`
(the local `to_invoke`/`callback` of the Rust code), and the invocation is the
later action `Invoke(t)`. `Answer` is the other place that invokes a callback,
`RustFuture::poll` on a ready future. `issued` and `calls` are history. In
`SchedSpec` every thread may call anything at any time, so it also covers two
polls at once (`State::Set` in `store`), which the foreign loops do not do.

- `ExactlyOnce`: "each callback will be invoked exactly once": a callback is
  parked, or in the hands of one thread, or invoked once.
- `WakeRemembered`: a wake that finds no callback is given to the next one.
- `CancelIsFinal`, `CancelFlushes`: cancel keeps nothing and answers everything.

### RustFuture

| Action | Code |
|---|---|
| `PollBegin` … `PollReturn` | `rust_future_poll`: count a reference, `is_cancelled` (first lock), the future's lock with `WrappedFuture::poll`, then `Ready` or `scheduler.store` (third lock), drop the reference |
| `PollReceiver`, `InnerPending`, `InnerReady` | the async fn, which joins one oneshot receiver per element of `Events`; each receiver has its own lock. `InnerReady("Err")` at any point is an error or a caught panic |
| `Resume`, `Interrupt` | the foreign loop: go on with the code the continuation was resumed with; or be cancelled while suspended, and only free |
| `Complete` | `rust_future_complete` |
| `FreeCancel`, `FreeDrop` | `rust_future_free`: cancel the scheduler, invoke what was parked, drop the async fn and the handle's reference |
| `Fire`, `WakeEarly`, `Abandon` | a sender's thread: send the value and take the waker; wake without an event; drop the sender |
| `WakeFuture`, `WakeReturn` | `waker_wake`: the scheduler's lock, the callback, the drop of the recreated Arc |
| `CancelBegin` … `CancelReturn` | `rust_future_cancel` on another thread while the handle is valid. Of the bindings here only Ruby's calls it, on the caller's own interrupted thread (`Async.rb:79`); the API lets any thread that has the handle do so |
| `Callback` | the continuation callback resumes the caller |

`strong` is the Arc count, changed where the code clones, converts and drops.
Dropping the async fn drops its receivers; a channel whose sender is gone too is
deallocated with the waker in its slot (`Orphans`), any other keeps its waker
until the sender goes.

- `NoLostWakeup`: a caller that sleeps on a parked callback waits only for
  channels that hold a waker or whose thread is about to wake.
- `SleepsForEvents`: a caller that sleeps while no thread is inside the library has its
  continuation parked, is not cancelled, and waits for values that nobody has sent, in
  channels that hold its waker. Any other rest would be a sleep without end.
- `OnePollAtATime`: `store` never finds `Set`; the Mutex "should never block".
- `NoUseAfterFree`, `NoLeak`: the count is positive while anything can reach the
  RustFuture, and zero when everything is through, in spite of the cycle.
- `EveryPollAnswered`: also an interrupted caller's continuation is called, or
  its entry in the handle map would leak.
- `Termination`, `CancelEndsCall`: the call ends if all events happen; and ends
  after a cancel even if none does.
- `ImplementsAsyncCall`: the refinement of `AsyncCall` with
  `computed` = result, or pending while the async fn is there, or gone.

### ForeignFuture

`driver` and `throws`, chosen by `Init`, are the language and whether the method
declares an error type; the drivers differ in `Start`, `Escapes`, `RequestCancel`
and, for Ruby, `Claim`.

| Action | Code |
|---|---|
| `Launch`, `Register` | `uniffiTraitInterfaceCallAsync`: start the coroutine, task or thread; put it in the handle map and fill in the out-parameter. The task already runs between the two |
| `Poll`, `PollAgain`, `Lift` | `foreign_async_call`: `Receiver::poll`, a poll by the executor, `lift_foreign_return` |
| `DropFuture`, `DropCallback` | the async fn is dropped where it waits; `Drop` of the callback struct, which also runs after a result, and the language's callback |
| `Start`, `MethodEnds`, `HandleResult`, `HandleNothing` | the driver around the user's method, for each way in which that can end (`Outcomes`) |
| `Claim` | Ruby's `UniffiOnceFlag`, by the task; `DropCallback` claims it for the dropper |
| `CancelQueued` | Python's request, when the event loop runs it |
| `Complete`, `WakeReceiver` | `foreign_future_complete` and `Sender::send`: the critical section, then the wake after the unlock |
| `RaiseAfterReply` | an exception hits the task between its reply and its end; Ruby's and Python's outer `except` then call `handle_error` again (`CatchesAroundReply`) |

A method may return a value, or raise an error, that cannot be lowered (`bad`,
`badError`): in Kotlin a negative `Duration` is one, in Python and Ruby anything of the wrong
type. Kotlin lowers both outside its `try`; Python does so for results of methods without
an error type; Ruby's and Python's outer handlers catch the rest. In Swift lowering
cannot throw, it can only stop the program, which is left out.

`LateRaises` are the languages in which an exception may hit a task after its reply: a
`Thread#raise` of the program's own, an interrupt on the way out of the FFI call. With
Kotlin in it, as in the run, the task merely ends. With Ruby or Python in it TLC finds
`CompletedAtMostOnce` violated, because the outer rescue replies again: the comment in
`Async.rb:167-168` says "only attempt this if we can still claim", but the code below it claims nothing.
The run and the proof of this property therefore assume that no such exception
comes in these two languages.

Abstracted: values are their status code; a Ruby thread is interrupted by its dropped
callback only inside the user's method, which is what its flag is for.

- `CompletedAtMostOnce`: the raw sender is consumed at most once (a second
  `Sender::from_raw` would use a freed channel), also when a completion, an
  exception in the method and a cancellation meet; not when one hits a reply that
  was made in Ruby or Python (above).
- `NoLostCompletion`: no value arrives between the poll and the wait unnoticed.
- `RaiseOrReply`: Ruby's dropper and task exclude each other.
- `NoSelfInflictedError`: Rust never lifts an error that its own cancellation
  provoked; so the dropped callback must not run before the answer is there.
- `SenderConsumed`: a task that ends has consumed the sender, so that the channel is freed,
  but for three ways to end in silence: the method's end is one that its driver does not
  catch (`Uncaught`), the task was cancelled before it began, or, in Ruby, the dropper
  claimed the flag. `HandleReleased`: the handle map's entry lives as long as the
  Rust future, not as long as the task.
- `Answered`: the await ends once the method ended in a way that the driver
  catches (`Caught`). `DropIsTold`: a dropped future asks the task to stop.
- `ImplementsAsyncCall`: the refinement of `AsyncCall` with `computed` = how the method
  ended, or pending before that and for an end that no handler sees (`Escapes`), or gone
  with the Rust future.

### KotlinObject

One Rust object. `strong` is its Arc count; `carried` are the handles cloned for
a call that is under way and the one it returns, `rustRefs` what Rust keeps
after a call, `lost` what nobody owns any more. `pc` is where a thread is in the
generated method.

| Action | Code |
|---|---|
| `CallMethod`, `CallFunction` | a generated method of the object; a function, or a method of something else, with the object as an argument |
| `LoadCounter`, `CompareAndSet` | the retry loop of `callWithHandle` |
| `CloneHandle`, `LowerArgument`, `LoweringFails` | the block: the handle is cloned, then the arguments are lowered; one that cannot be, before the object argument or after it, leaves by an exception, and every handle cloned so far is lost |
| `LiftArguments`, `LiftFails` | the scaffolding's lift closure, which turns handles back into Arcs and stops at the first that fails |
| `Keep`, `Return`, `ReturnObject`, `ReturnFuture`, `RustDrops` | the exported function: store a clone, drop the arguments, return a new handle, or move the arguments into a future |
| `Lift` | the returned handle becomes a new wrapper |
| `Destroy`, `Decrement`, `Clean` | `destroy()`, the decrement that it shares with the `finally` of `callWithHandle`, the clean action |
| `Forget`, `Collect` | the program drops its last reference; the cleaner's thread frees the handle |

`PassesDestroyed` says whether the program may pass a wrapper as an argument
while or after it destroys it; see finding 5. `KeepsArguments` says whether a wrapper
passed as an argument stays reachable until the call has ended (`InUse`). `callWithHandle`
keeps its receiver, by the counter in its `finally`; nothing in `lower()` keeps an argument once
its handle was read, so that this is up to the runtime. With `KeepsArguments = FALSE` TLC
finds `NoUseAfterFree` violated in three steps: `CallFunction`, `Forget`, `Collect`.
`kotlin_object` assumes TRUE, `kotlin_call_counter` FALSE, and `ReceiversAreSafe` is
proved for both. Assumed: a `Cleanable` runs its action
at most once, as Java's and JNA's do. Left out: fake objects (`NoHandle`), and
trait interfaces, whose handle is to an Arc of an Arc.

- `OwnersCounted`: every reference of the count has one owner, so no handle is
  freed twice or for somebody else.
- `NoUseAfterFree`: the count is positive wherever a thread is about to use a
  handle, or Rust does.
- `FreedAfterCalls`: a handle is freed when no call is between the increment and
  the decrement, after `destroy()` or by the collector.
- `NoLeak`: when everything is destroyed and dropped, what remains is exactly what
  failed lowerings and lifts lost.
- `DestroyFrees`: a destroyed wrapper is freed without the collector. Its premise
  is that the program stops referring to it: calls of it that overlap for ever
  keep the counter up, as the code has it.
- `ImplementsLife`: the refinement of `ObjectLife`, with a thread `inside` a wrapper from the
  increment of the counter, or from setting the flag, to the decrement. A wrapper that is
  destroyed still lets calls in while another is in it, as the code does; once it is
  empty, nobody enters, and its handle is freed once.

### CallbackInterface

A trait interface whose objects Kotlin implements. `map` and `counter` are Kotlin's
`UniffiHandleMap`; `stored` and `arc` say which handlers Rust has Arcs of, `gone` the
one that a thread is dropping, `fresh` a new handle on its way across the FFI. `arg`,
`ret`, `err` and `code` are the buffers and the status of a method call, `live` the
buffers that are allocated.

| Action | Code |
|---|---|
| `LowerObject`, `TakeNumber`, `Put` | `lower()` of an object: `HandleMap.insert`, in the two steps of its unlocked operations; `clone()` continues with the same two |
| `PassFails`, `LiftObject` | the exported function's arguments: one of them cannot be converted, or the handle becomes a handler in an Arc |
| `Store`, `UseStored`, `DropStored`, `Return` | what the Rust code does with its Arc |
| `DropArc`, `FreeHandle` | an Arc goes out of scope; the last one drops the handler, and `uniffi_free` removes the entry |
| `LowerArc`, `CloneGet`, `ReturnObject`, `LiftReturned` | an Arc is lowered, as a result or an argument: `uniffi_foreign_handle` clones the entry; Kotlin's `lift` removes it |
| `CallMethod`, `GetObject`, `LiftArgs`, `ArgsFail`, `ArgsFailLate` | the generated method; the foreign callback up to the call of the user's method, or to the argument that cannot be lifted, before the object or after it |
| `MethodReturns`, `MethodThrows`, `MethodFails`, `LiftResult` | the three ways in which it ends, and what Rust does with the buffer |
| `ErrorNotLowered` | `lowerError` or the lowering of the message raises in the `catch`: the code is set, `error_buf` stays empty, and the exception leaves the callback |

Handle number k stands for 2k - 1, the odd handles being the foreign ones. A method
has one argument that is data, and perhaps an object, before or after it: more of either
would repeat the same steps. A thread has one Arc at
a time: a method of one object that is passed another is the same as far as handles go.
Left out: handlers in a `Box` (callback interfaces proper: one owner, no clone), Rust's
own implementations of the trait, asynchronous methods (`ForeignFuture`), and the
registration of the vtable, which happens once, before anything else.

- `NoStaleHandle`: `get`, `clone` and `remove` always find their handle. Their exception
  would leave the callback outside of any `try`.
- `OneOwner`, `NoEntryLeaks`: every entry has exactly one owner, who will remove it; what
  failed calls lose (`PassFails`, `ArgsFail`) is counted in `lost`, and nothing else is.
- `BuffersOwned`: also on every path of a failing method exactly one side frees each
  buffer.
- `EntryReleased`: an entry that no handler has any more is removed or handed over.
- `ImplementsTable`: the refinement of `HandleTable`. `put()` and `remove()` are the
  moments at which an operation takes effect; `asked` is what a thread has begun.
  `Clone` requires at that moment that the original is still in the map, although
  Kotlin looked it up two steps before.

### RecursiveTypes

`find_recursive_enum_names` over any graph: `stack` are the calls of `dfs` in progress,
each with the neighbours that it has not come to; the nodes are taken in any order, as
the hash tables give them. `Root`, `Neighbour` and `Return` are the outer loop, the loop
of `dfs` and its end; `Enter` is a call up to its loop.

- `EveryRecursiveMarked`: what the documentation of the function says; see finding 6.
- `OnlyRecursiveMarked`, `EveryCycleBroken`: what does hold, as theorems: only members
  of cycles are marked, and at least one of each cycle. `ShortCyclesMarked` spells out what
  that means for the cycles of one and two types.

## Runs

| Run | Question | Bounds |
|---|---|---|
| `scheduler` | is the scheduler right under any client? | 3 threads, 3 callbacks |
| `rust_future` | is the whole call right? | 2 events, 1 early wake, a canceller, 4 callbacks |
| `free_calls_outstanding` (violation) | have all continuations been called when `rust_future_free` returns? | as above |
| `cancel_drops_future` (violation) | does `rust_future_cancel` drop the future? | as above |
| `foreign_future` | is an awaited foreign method right in every language? | one call; every language, with and without an error type; `LateRaises` = Kotlin |
| `completed_once_if_dropped` (violation) | is `complete_func` called when Rust dropped the future? | Python |
| `completed_on_error` (violation) | is it called when the method's end is an error? | Python |
| `kotlin_object` | is the object alive while it is used, and freed afterwards? | 2 wrappers, 2 threads, counter up to 3, 1 reference kept by Rust, 2 lost, `KeepsArguments` |
| `kotlin_call_counter` | does the counter stand three threads and its limit? | 1 wrapper, 3 threads, counter up to 3, 1 kept, 1 lost, not `KeepsArguments` |
| `kotlin_argument` (violation) | is it alive when a destroyed wrapper is passed as an argument? | as `kotlin_object` with 1 lost, `PassesDestroyed` |
| `callback_interface` | are handles and buffers owned once, and freed, while threads call, clone, return and drop? | 2 objects, 2 threads, 2 buffers, 3 handles |
| `every_recursive_marked` (violation) | does the search find every recursive type? | every graph of 3 types |

Why the bounds are enough. The scheduler keeps at most one callback and each
thread at most one more; two callbacks and two threads already give every pair
of competing operations. A call polls once at first and once per wake, so 1 + 2
events + 1 early wake = 4 callbacks let every behaviour of the instance finish:
`PollBegin` is never blocked for want of a callback (if it were, `Termination`
would fail). Two events make the async fn be polled with one value taken and the
other still missing, so that a waker is registered over an older one; the early
wake makes a poll that finds nothing new. `ForeignFuture` has no numeric bound: its
calls share nothing but the handle map, so that one call is the general case.
In `KotlinObject` a wrapper's threads meet only in its counter and flag, so that
two threads give every race of destroy against a call and three add a third party
to the retry loop; `MaxCount` stands for `Long.MAX_VALUE`, low enough for three
threads to reach it. Two wrappers let one be called with the other as its argument,
and returned as a new one. `MaxRefs` and `MaxLost` bound the references that Rust keeps and
that failed calls lose, not the calls: with `MaxLost` = 2 one failed lowering loses both the
receiver's and the argument's handle. A future that owns both would take `MaxRefs` = 2; the proofs cover it. In `CallbackInterface` a thread has at most one
buffer and one handle under way, so that two threads and two buffers give every overlap;
three handles (`MaxHandle`) are an object, its clone and a clone of that, or two objects of
which one is cloned: a map that has given them out lets the threads finish what they have.
Three types are the fewest that the search gets wrong.

The system may stop: a call that has ended, or one whose event was abandoned and
that nobody cancels, waits for ever; nothing follows the end of a `ForeignFuture`
call; and a Kotlin program that has destroyed and forgotten every wrapper is
through; so are threads that have nothing left to do when the handles of the bound are
given out. So deadlock is not checked in these runs.

Fairness. Threads inside the library run on (`WF` of the caller's, the events'
and the canceller's own steps: straight-line code between locks that are held
briefly). Nothing obliges an event to happen, a sender to be dropped or anybody
to cancel: those actions have no fairness, and `Termination` assumes the events
explicitly. In `ForeignFuture` the call, a poll after a wake and the drop run on
(`RustRuns`), and so does the driver around the method (`TaskRuns`). The method
itself may never end, the future need not be dropped, and an unwoken poll need
not happen. Neither need `CancelQueued`: Python's callback uses `call_soon` from
another thread, which does not wake a sleeping event loop. In `KotlinObject` a
thread that has begun a call or a destroy runs on (`ThreadRuns`, per thread), which
includes that the exported Rust function returns; the collector, the program's
next call and Rust's dropping of what it kept have no fairness. In `CallbackInterface`
`Proceeds(t)`, the generated code and the runtime, runs on in each thread; what the two
programs decide (`Decides`: which objects are passed, how long Rust keeps an Arc, whether
and how a method ends) is not obliged to happen.

## Findings

1. `rust_future_free` and outstanding continuations. The module documentation
   says that free "calls any continuation callbacks that have not been called
   yet". It calls the one that is parked; one that a concurrent `wake()` has
   taken is called by that thread, possibly after free returned. The bindings
   live with it, because a continuation's data stays in the handle map until its
   callback runs; `EveryPollAnswered` is the guarantee they rely on.
   What remains is proved (`FreeLeavesToOthers`): a continuation that is still to be
   called is in the hands of another thread inside `wake()` or `cancel()`.
2. `rust_future_cancel` "causes the future to be dropped", says
   `docs/manual/src/internals/async-ffi.md`. The code only cancels the
   scheduler; the async fn and what it owns stay until complete or free. After free
   they are gone, whoever else holds the RustFuture (`FreeDropsEverything`).
3. A dropped Rust future and `complete_func`. The manual says that it "must be
   called exactly once"; a Python task that is cancelled because Rust dropped the
   future never calls it (`CancelledError` is not an `Exception`), so the channel
   and the waker in it are never freed. A Kotlin coroutine that is cancelled
   before it starts, and a Ruby thread whose flag the dropper claimed, end
   without a call too. In Swift the demand holds (`SwiftAlwaysCompletes`).
4. A Python method without an error type that returns a value of the wrong type.
   The value is lowered outside the `try`, nothing catches the exception,
   `complete_func` is not called and the await never ends. The manual asks to
   "ensure that `complete_func` is also called if the function errors out", which
   the variant for methods with an error type does. In Kotlin both variants call
   `handleSuccess` after the `try`, and `lowerError` in its `catch`, so that a result or
   an error that cannot be lowered (a negative `Duration`, `DurationHelper.kt:23-32`) has the same effect,
   and a Kotlin `Error` escapes as well. Swift and Ruby meet the demand in both variants
   (`ErrorsAreReported`).
5. A Kotlin object as an argument. `ObjectTemplate.kt` requires that method calls
   "concurrently with or even after a call to `destroy`" never let Rust operate on
   a freed object. For the receiver the call counter sees to that; an argument is
   lowered by `uniffiCloneHandle()` without it, so a wrapper that is destroyed
   before or while it is passed clones the handle of a freed object. Everything
   else in `KotlinObject` is checked, and `NotUsedAfterFree` proved, for programs
   that do not do that on runtimes that keep arguments reachable. For any program and runtime, the lowering of a function's argument is the
   one place that may meet a freed object (`ReceiversAreSafe`).
6. Recursive types. The documentation of `find_recursive_enum_names` says "return every
   node that participates in a cycle", and a comment that a visited node's cycles have all
   been detected. A node is visited when its own loop ends, which may be while a cycle
   through it is still open further down the stack: with C containing A and B, B
   containing C and A containing B, the search from C that takes B first never marks A. The
   order is that of a `HashSet`, so that the result differs from one run of the generator
   to the next. Each cycle still has a marked member (`EveryCycleBroken`), and a type that refers to
   itself is never missed (`DirectRecursionMarked`), which is enough
   where records and enums are declared alike; Swift's `indirect` exists for enums only, so
   a cycle whose marked members are records may be left without one.

## Proofs

All theorems hold for every value of the constants: any finite set of events and
any callbacks and threads (`RustFutureAssumption`: the threads are the events', the
caller's and the canceller's, all different), any languages (but for `ErrorsAreReported` and
`SwiftAlwaysCompletes`, which say in which languages a documented demand holds; the former and
`SenderNotReused` also assume no exception after the reply, `LateRaises`, where a handler is around it), any finite sets of
wrappers and threads (`WrapperAssumption`), any objects, threads, buffers and number of
handles (`CallbackAssumption`: the model values that stand for none are none), any types.

- `SchedulerProofs`: `SchedInv` says of each callback where it is (unissued,
  parked, held by one thread, invoked) as four implications; `ExactlyOnce` alone
  is not inductive in a form the provers handle because it counts holders by a
  set. One lemma per kind of step (`StoreStep`, `AnswerStep`, `TakeStep` for wake
  and cancel, `InvokeStep`), each from `OweHolds`, which says what a critical
  section does to who holds what. `CancellationSettles` adds that under cancel nothing is
  parked, so that all is called when no thread owes an invocation.
- `RustFutureProofs`: first `UsesScheduler`, every step of the call is a step of
  `SchedNext` or leaves the scheduler alone, so `SchedInv` comes for free. Then
  `CallInv`, whose parts are
  - `CurrentCallback`: before and during a poll all issued callbacks have been
    invoked, hence none is parked, hence `store` finds `Empty`, `Waked` or
    `Cancelled` (`NothingParked`, and with it `OnePollAtATime`);
  - `ResultKept`: the async fn is there exactly until the result is, and a caller
    that waits without it is told `Ready`;
  - `AwaitedCovered`: during the poll each missing value's channel holds a waker,
    or its thread is about to wake, or the scheduler is already signalled; this is
    `NoLostWakeup` extended to the window between the two critical sections;
  - `ReadyJustified`: `Ready` is said only if there is a result, a cancellation
    was requested, or the caller is leaving.
  `Owing` says that only a thread on its way out of the library, past its critical section
  (`return`, `drop`, `woken`), holds a callback. With `CallInv` this gives
  `SleepersAwaitEvents`: whoever was to call the sleeping caller's continuation would be
  inside, so it is parked, and then `NoLostWakeup` has a waker in each channel.
  `ContinuationsExactlyOnce` is the scheduler's `ExactlyOnce` through `UsesScheduler`.
  `CallIsImplemented` then maps each step: `InnerReady` is `Compute`, `Complete`
  is `Deliver` or `DeliverCancelled`, `FreeDrop` is `GiveUp` or a stutter,
  `CancelFuture` is `RequestCancel`, everything else stutters.
- `ReferenceCountProofs`: `CountInv` adds to `CallInv` that the strong count is the number
  of owners (`ReferencesCounted`: handle, running poll and its waker, `cancel()` call, wakers
  in the channels, wakers being invoked), that a waker sits in a channel without a sender
  only as long as the async fn has the receiver (`WakersHeld`), and that the caller leaves
  in order (`CallerLeaves`: handle given up, scheduler cancelled, async fn dropped).
  `CallerCount` and `EventCount` say what a step of either has to account for; each action
  then shows what it takes and gives up. `NeverUsedAfterFree`, `NeverLeaked` and, with
  `NoneLost` of the scheduler, `PollsAnswered` follow; so do `FreeLeavesToOthers` and
  `FreeDropsEverything`, the true parts of findings 1 and 2.
- `ForeignFutureProofs`: for any set of languages. `ForeignInv` adds to the
  properties `TaskOrder` (where the task is says what has been completed, claimed
  and sent), `OneCompletion` (a completion belongs to a task that is past its
  reply, the channel has a value exactly then, and a second one takes an exception after it), `WakerSet` (a waiting future
  whose value is missing has its waker in the channel), `CancelledLate` (a task
  is cancelled only when the future is gone) and `ValueIsCode` (the channel's value
  is the method's). `RegisteredByCall` and `EndsByReply` (the call ends with the
  dropped callback registered; no outcome before the method ends) are for `SenderConsumed` and
  `HandleReleased`. Each conjunct has one lemma, with one case per action.
  `ForeignCallIsImplemented` maps `MethodEnds` to `Compute` if a handler sees the end and the
  future is still there, to a stutter if not, `Lift` to `Deliver`, `DropFuture` to `GiveUp`, everything else to a
  stutter; it needs `ReportedOnly`, that what was completed is an end that a handler
  saw. `HangsOnlyUncaught`, `ErrorsAreReported` and `SwiftAlwaysCompletes` read the exact
  list of `SenderConsumed` against each language; `DroppedTasksAreTold` has its own
  invariant (`GoneIsTold`).
- `KotlinObjectProofs`: `KotlinInv` adds to the properties
  - `CounterCounts`: the counter is the number of threads in the block, and the
    initial 1 until `destroy()` took it over. From it `NoEntry` (who can still
    increment meets a wrapper that is not cleaned) and `LastLeaves` (who brings the
    counter to 0 was the last, and the wrapper is destroyed);
  - `OneCleaner`: at most one thread is about to clean a wrapper, nobody is in a
    call of it, and it has not been cleaned;
  - `ThreadOrder`, `CarriedWhere`, `FreshNew`: which wrappers and handles a thread
    has at each location; `CollectedUnused`: what the collector took is in
    nobody's hands.
  `OwnersCounted` then follows each change of the count, by cardinalities.
  `NothingLeaks` needs in addition `CleanerExpected` (a destroyed wrapper that is not
  cleaned has somebody in its block, or about to clean, because whoever leaves without
  finding zero leaves somebody behind: `OthersStay`), and
  `NotUsedAfterFree` needs `ArgumentsAlive`, which only holds when
  `PassesDestroyed` is false and `KeepsArguments` true, and both are in its statement. Without them,
  `UsedHasOwner` leaves one location at which the count may be 0 (`ReceiversAreSafe`).
  `WrappersImplementLife` and `KotlinInvariant` need no such assumption. A `Destroy` is `Close`, a
  `CompareAndSet` that succeeds is `Enter`, `Decrement` is `Leave`, `Clean` and `Collect`
  are `Free`, `Lift` is `Make`, `Forget` is `Forget`, everything else stutters.
  `CounterCounts` relates the counter's value to who is `inside`: a successful
  compare-and-set on a closed wrapper has met somebody there (`NoEntry`).
- `CallbackInterfaceProofs`: `CallbackInv` says
  - `BelowCounter`: handles come from below the counter, so that the next is new;
  - `HeldAreEntries`: who has a handle has its entry, except the thread that is just
    putting it;
  - `Apart`, `EntriesOwned`: `OneOwner` and `NoEntryLeaks` handle by handle, with the ones
    that are being put, without which neither is inductive;
  - `CloneCurrent`: the original of a clone under way is still in the map, with the object
    that is being put, because the thread's own Arc keeps it there;
  - `BufferPlaces`, `BuffersLive`: which location has which buffer, and that what is live is
    what exactly one thread has.
  One lemma for each, one case for each action. `TableStep` then maps each step: `LowerObject`
  and `LowerArc` are `Call`, `Put` is `Insert` or `Clone`, what removes is `Remove`, everything
  else stutters. `HandlesNeverReused` and `HandlersKeepTheirObject` are action properties of
  the map from `BelowCounter` and `HeldAreEntries`; `CallsBalance` is the account at rest.
- `RecursiveTypesProofs`: `MarkInv` says that the stack is a path of the graph, that a
  visited type refers to visited or marked types only, and that the visited types that are
  not marked contain no cycle; `TypeGraphProofs` has the lemmas on reachability
  and cycles. `Reaches` is defined by closed sets rather than by recursion, for the sake of
  these proofs.

Liveness is model-checked only: fairness and ENABLED are outside the prover's reach. Its
safety cores are proved, for every value of the constants: that the state in which it would
fail does not occur unless somebody is still to act. What is left to fairness is that this
somebody goes on.

| Property | Its safety core |
|---|---|
| `Termination`, `CancelEndsCall` | `SleepersAwaitEvents`: nobody sleeps for anything but an event, nor in a cancelled call |
| `CancelFlushes` | `CancellationSettles` |
| `Answered` | `HangsOnlyUncaught`: no race leaves an await without its answer |
| `DropIsTold` | `DroppedTasksAreTold` |
| `DestroyFrees` | `FreeingIsOwed`: a destroyed wrapper has somebody who will free it |
| `EntryReleased` | `ReleaseIsOwed`: an entry without a handler has somebody who will remove it |

Every safety property, action property and refinement of the passing runs is proved. Of the
properties that the violation runs refute, the part that holds is proved (Findings).

## Not modelled

The generators but for the search for recursive types, the parsers, metadata and the
CLI: sequential translations with no state at run time, whose output is text. They are
most of the repository's lines. Python's handle map has a lock that is not reentrant: a
collection in the middle of an insert that finalizes the last owner of a handler would
wait for its own thread; the collector is not an actor of any module. Serialization of values: stateless. The values of arguments and
results: a result is Ok or Err. Memory ordering: every shared state here is
behind a Mutex, an atomic or an Arc count.

## Plan

What is left, in the order in which it would add most:

1. `JniRustFuture`: the second async call, its callback under the future's lock.
2. `RubyAsync`: the interpreter lock against the scheduler's and the channel's locks
   (deadlock freedom), the pipe and the timeout.
3. `RustCall`: the other direction of `RustCallStatus`, an exported function that fails
   or panics.
4. The order in which types are declared (`sort.rs`), on `TypeGraph`.
5. Name resolution of `uniffi_parse_rs` as a pure algorithm.
