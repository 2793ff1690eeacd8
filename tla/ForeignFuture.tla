--------------------------- MODULE ForeignFuture ---------------------------
(***************************************************************************)
(* Rust awaits an async method that the foreign side implements:           *)
(* foreign_async_call (uniffi_core/src/ffi/foreignfuture.rs), the oneshot  *)
(* channel whose sender crosses the FFI as a raw pointer, the task that    *)
(* runs the method (uniffiTraitInterfaceCallAsync in each language's       *)
(* Async template) and the callback that tells the foreign side that the   *)
(* Rust future is gone.                                                    *)
(*                                                                         *)
(*   rust   the async fn: it makes the call, awaits the receiver, lifts    *)
(*          the result, and may be dropped wherever it waits               *)
(*   task   the coroutine, Task or Thread that the call launches; it runs  *)
(*          from its launch on, also before the call has returned          *)
(*                                                                         *)
(* The language, and whether the method declares an error type, are chosen *)
(* by Init: the four drivers differ in what they do when the method ends.  *)
(***************************************************************************)
EXTENDS Naturals

CONSTANTS
    Drivers,        \* the languages to consider
    LateRaises      \* those where an exception may hit the task between reply and end

Languages == {"kotlin", "python", "swift", "ruby"}

ASSUME DriversAssumption == Drivers \subseteq Languages /\ LateRaises \subseteq Languages

VARIABLES
    driver, throws, \* the language; the method declares an error type
    rust,           \* where the async fn is
    woken,          \* its waker has been called since it was last polled
    registered,     \* the foreign side has set its dropped callback
    answer,         \* the RustCallStatus code that it lifted
    task,           \* where the foreign task is
    outcome,        \* how the method ended
    once,           \* Ruby's UniffiOnceFlag: who claimed it
    inMap,          \* the task's handle is in the foreign handle map
    cancel,         \* what the task knows of its cancellation
    completions,    \* calls of foreign_future_complete, each consumes the raw sender
    value,          \* the code in the channel's value
    waker           \* the channel's waker: "none", "set", or "taken" by the sender

kind == <<driver, throws>>
rustVars == <<rust, woken, registered, answer>>
taskVars == <<task, outcome, once>>
channelVars == <<completions, value, waker>>
vars == <<kind, rustVars, taskVars, inMap, cancel, channelVars>>

Codes == {"Success", "Error", "UnexpectedError"}

Outcomes == {"value",       \* it returned
             "bad",         \* it returned what its type cannot lower (not in Swift)
             "error",       \* it raised the declared error
             "badError",    \* it raised an error that cannot be lowered (not in Swift)
             "exception",   \* it raised another exception
             "fatal",       \* a Kotlin Error, a Python BaseException, any Ruby Exception
             "cancelled"}   \* it raised what the language raises on cancellation

TypeOK ==
    /\ driver \in Drivers
    /\ throws \in BOOLEAN
    /\ rust \in {"call", "register", "await", "waiting", "lift", "drop", "ended"}
    /\ task \in {"none", "scheduled", "running", "returned", "claimed", "sent", "finished"}
    /\ woken \in BOOLEAN /\ registered \in BOOLEAN /\ inMap \in BOOLEAN
    /\ answer \in {"none"} \cup Codes
    /\ outcome \in {"none"} \cup Outcomes
    /\ once \in {"none", "task", "dropper"}
    /\ cancel \in {"none", "queued", "requested"}
    /\ completions \in Nat
    /\ value \in {"none"} \cup Codes
    /\ waker \in {"none", "set", "taken"}
    /\ waker = "taken" => task = "sent"

Init ==
    /\ driver \in Drivers
    /\ throws \in BOOLEAN
    /\ rust = "call" /\ woken = FALSE /\ registered = FALSE
    /\ answer = "none"
    /\ task = "none" /\ outcome = "none" /\ once = "none"
    /\ inMap = FALSE /\ cancel = "none"
    /\ completions = 0 /\ value = "none" /\ waker = "none"

-----------------------------------------------------------------------------
(* The call: the first poll of the async fn calls into the vtable *)

\* GlobalScope.launch, run_coroutine_threadsafe, Task { }, Thread.new
Launch ==
    /\ rust = "call"
    /\ rust' = "register"
    /\ task' = "scheduled"
    /\ UNCHANGED <<kind, woken, registered, answer, outcome, once, inMap, cancel,
                   channelVars>>

\* Fault: the struct stays the default one, whose callback does nothing.
RegisterNothing ==
    /\ rust = "register"
    /\ rust' = "await"
    /\ inMap' = TRUE
    /\ UNCHANGED <<kind, woken, registered, answer, taskVars, cancel, channelVars>>

\* Fault: the struct is a temporary of the call, and its callback runs at once.
RegisterTemporary ==
    /\ rust = "register"
    /\ rust' = "await"
    /\ cancel' = IF task = "finished" THEN cancel ELSE "requested"
    /\ UNCHANGED <<kind, woken, registered, answer, taskVars, inMap, channelVars>>

\* The task goes into the handle map, the callback into Rust's struct; the call returns.
Register ==
    /\ rust = "register"
    /\ rust' = "await"
    /\ inMap' = TRUE
    /\ registered' = TRUE
    /\ UNCHANGED <<kind, woken, answer, taskVars, cancel, channelVars>>

-----------------------------------------------------------------------------
(* The async fn *)

\* Receiver::poll
Poll ==
    /\ rust = "await"
    /\ woken' = FALSE
    /\ IF value # "none"
       THEN rust' = "lift" /\ UNCHANGED waker
       ELSE rust' = "waiting" /\ waker' = "set"
    /\ UNCHANGED <<kind, registered, answer, taskVars, inMap, cancel,
                   completions, value>>

\* The executor polls again when the waker was called, and may do so anyway.
PollAgain ==
    /\ rust = "waiting"
    /\ rust' = "await"
    /\ UNCHANGED <<kind, woken, registered, answer, taskVars, inMap, cancel,
                   channelVars>>

\* lift_foreign_return, on the value that the receiver gave
Lift ==
    /\ rust = "lift"
    /\ answer' = value
    /\ rust' = "drop"
    /\ UNCHANGED <<kind, woken, registered, taskVars, inMap, cancel, channelVars>>

\* Somebody drops the async fn between two polls, the receiver with it.
DropFuture ==
    /\ rust = "waiting"
    /\ rust' = "drop"
    /\ UNCHANGED <<kind, woken, registered, answer, taskVars, inMap, cancel, channelVars>>

\* Fault: the Ruby callback raises in the thread whoever claimed the flag.
RequestCancelUnclaimed ==
    cancel' = IF task = "finished" THEN cancel
              ELSE IF driver = "python" THEN "queued" ELSE "requested"

\* What the foreign dropped callback asks of the task: Python queues the request on the
\* event loop, Ruby asks only if the task has not claimed the flag.
RequestCancel ==
    IF task = "finished"
    THEN UNCHANGED cancel
    ELSE IF driver = "python" THEN cancel' = "queued"
    ELSE IF driver = "ruby" /\ once # "none" THEN UNCHANGED cancel
    ELSE cancel' = "requested"

\* Drop for ForeignFutureDroppedCallbackStruct: after a result as well as without one.
DropCallback ==
    /\ rust = "drop"
    /\ rust' = "ended"
    /\ IF registered
       THEN /\ inMap' = FALSE
            /\ RequestCancel
            /\ once' = IF driver = "ruby" /\ once = "none" THEN "dropper" ELSE once
       ELSE UNCHANGED <<inMap, cancel, once>>
    /\ UNCHANGED <<kind, woken, registered, answer, task, outcome, channelVars>>

-----------------------------------------------------------------------------
(* The foreign task *)

\* A Kotlin coroutine or a Python task that is cancelled before it starts never runs.
Start ==
    /\ task = "scheduled"
    /\ task' = IF cancel = "requested" /\ driver \in {"kotlin", "python"}
               THEN "finished" ELSE "running"
    /\ UNCHANGED <<kind, rustVars, outcome, once, inMap, cancel, channelVars>>

\* _uniffi_cancel_task, when the event loop gets to it
CancelQueued ==
    /\ cancel = "queued"
    /\ cancel' = IF task = "finished" THEN "none" ELSE "requested"
    /\ UNCHANGED <<kind, rustVars, taskVars, inMap, channelVars>>

CanEnd(o) ==
    /\ o = "error" => throws
    /\ o = "bad" => driver # "swift"
    /\ o = "badError" => driver = "kotlin" \/ (driver \in {"python", "ruby"} /\ throws)
    /\ o = "fatal" => driver # "swift"
    /\ o = "cancelled" => cancel = "requested"

MethodEnds(o) ==
    /\ task = "running"
    /\ CanEnd(o)
    /\ outcome' = o
    /\ task' = "returned"
    /\ UNCHANGED <<kind, rustVars, once, inMap, cancel, channelVars>>

\* Fault: Ruby's outer rescue is missing, and what cannot be lowered is not reported.
EscapesWithoutRescue(o) ==
    \/ o = "fatal" /\ driver \in {"kotlin", "python"}
    \/ o = "cancelled" /\ driver \in {"python", "ruby"}
    \/ o = "bad" /\ ~(driver = "python" /\ throws)
    \/ o = "badError" /\ driver \in {"kotlin", "ruby"}

\* Fault: Kotlin's catch lets the CancellationException go on.
EscapesByCancellation(o) ==
    \/ o = "fatal" /\ driver \in {"kotlin", "python"}
    \/ o = "cancelled" /\ driver # "swift"
    \/ o = "bad" /\ (driver = "kotlin" \/ (driver = "python" /\ ~throws))
    \/ o = "badError" /\ driver = "kotlin"

\* What ends the task with no reply.  Kotlin catches Exception, which its
\* CancellationException is; Python too, which its CancelledError is not; Ruby catches
\* everything and stays silent on its own cancellation.  Kotlin lowers the result after the
\* try and an error in the catch, Python the result of a method without an error type in
\* the else, and nothing around these catches.
Escapes(o) ==
    \/ o = "fatal" /\ driver \in {"kotlin", "python"}
    \/ o = "cancelled" /\ driver \in {"python", "ruby"}
    \/ o = "bad" /\ (driver = "kotlin" \/ (driver = "python" /\ ~throws))
    \/ o = "badError" /\ driver = "kotlin"

\* The status code of handleSuccess or of one of the calls of handleError.
Code(o) == IF o = "value" THEN "Success" ELSE IF o = "error" THEN "Error" ELSE "UnexpectedError"

\* Ruby: once.claim!, before any reply.  UniffiInternalCancelled skips it.
Claim ==
    /\ task = "returned"
    /\ driver = "ruby"
    /\ IF once = "none" /\ outcome # "cancelled"
       THEN once' = "task" /\ task' = "claimed"
       ELSE task' = "finished" /\ UNCHANGED once
    /\ UNCHANGED <<kind, rustVars, outcome, inMap, cancel, channelVars>>

ReadyToReply == IF driver = "ruby" THEN task = "claimed" ELSE task = "returned"

\* Fault: no return after handleError, so that handleSuccess follows.
CompleteFallsThrough(code) ==
    /\ completions' = completions + 1
    /\ value' = code
    /\ IF waker = "set" THEN waker' = "taken" ELSE UNCHANGED waker
    /\ IF code = "Success" \/ waker = "set"
       THEN task' = "sent" /\ UNCHANGED outcome
       ELSE outcome' = "value" /\ UNCHANGED task

\* Fault: the sender leaves the waker in the channel.
CompleteLeavesWaker(code) ==
    /\ completions' = completions + 1
    /\ value' = code
    /\ task' = "sent"
    /\ UNCHANGED <<waker, outcome>>

\* foreign_future_complete up to the unlock: recreate the sender, put the value in and
\* take the waker out.
Complete(code) ==
    /\ completions' = completions + 1
    /\ value' = code
    /\ waker' = IF waker = "set" THEN "taken" ELSE waker
    /\ task' = "sent"
    /\ UNCHANGED outcome

HandleResult ==
    /\ ReadyToReply
    /\ ~Escapes(outcome)
    /\ Complete(Code(outcome))
    /\ UNCHANGED <<kind, rustVars, once, inMap, cancel>>

\* No reply: the exception ends the task.
HandleNothing ==
    /\ ReadyToReply
    /\ Escapes(outcome)
    /\ task' = "finished"
    /\ UNCHANGED <<kind, rustVars, outcome, once, inMap, cancel, channelVars>>

\* Fault: the waker is called but not consumed.
WakeReceiverByRef ==
    /\ task = "sent"
    /\ woken' = (woken \/ waker = "taken")
    /\ task' = "finished"
    /\ UNCHANGED <<kind, rust, registered, answer, outcome, once, inMap, cancel,
                   completions, value, waker>>

\* The rest of Sender::send: wake after the unlock.
WakeReceiver ==
    /\ task = "sent"
    /\ woken' = (woken \/ waker = "taken")
    /\ waker' = IF waker = "taken" THEN "none" ELSE waker
    /\ task' = "finished"
    /\ UNCHANGED <<kind, rust, registered, answer, outcome, once, inMap, cancel,
                   completions, value>>

\* Ruby's outer rescue, and Python's for a method with an error type, are around the reply.
CatchesAroundReply == driver = "ruby" \/ (driver = "python" /\ throws)

\* The wake, and then an exception in the task: who catches it there calls handle_error,
\* without a claim and without looking whether a reply was made, and so completes again.
RaiseAfterReply ==
    /\ driver \in LateRaises
    /\ task = "sent"
    /\ woken' = (woken \/ waker = "taken")
    /\ waker' = IF waker = "taken" THEN "none" ELSE waker
    /\ completions' = IF CatchesAroundReply THEN completions + 1 ELSE completions
    /\ task' = "finished"
    /\ UNCHANGED <<kind, rust, registered, answer, outcome, once, inMap, cancel, value>>

-----------------------------------------------------------------------------

\* What goes on by itself: the call, a poll that a wake asks for, the rest of a drop, and
\* the driver's code around the method.
RustRuns == Launch \/ Register \/ Poll \/ (woken /\ PollAgain) \/ Lift \/ DropCallback

TaskRuns ==
    Start \/ Claim \/ HandleResult \/ HandleNothing \/ WakeReceiver \/ RaiseAfterReply

Next ==
    \/ RustRuns
    \/ TaskRuns
    \/ PollAgain
    \/ DropFuture
    \/ CancelQueued
    \/ \E o \in Outcomes : MethodEnds(o)

Spec == Init /\ [][Next]_vars

\* The method may run for ever, nobody need drop the future, and an event loop to which
\* a request was added from another thread need not look at it.
FairSpec == Spec /\ WF_vars(RustRuns) /\ WF_vars(TaskRuns)

-----------------------------------------------------------------------------
(* Properties *)

\* Each completion consumes the reference that Sender::into_raw made: a second one would
\* use a freed channel.  It holds where no exception hits a task of Python or Ruby after its
\* reply (LateRaises).
CompletedAtMostOnce == completions <= 1

\* A completion is not lost between the poll and the wait: a waiting future that has its
\* value was woken, or the task is about to wake it.
NoLostCompletion ==
    rust = "waiting" /\ value # "none" => woken \/ (task = "sent" /\ waker = "taken")

\* Ruby: a thread that claimed the flag is not interrupted while it completes the call,
\* and one that was told to cancel does not complete it.
RaiseOrReply == driver = "ruby" /\ cancel = "requested" => once = "dropper" /\ completions = 0

\* Rust lifts what the method did, and never the error that its own cancellation of the
\* task provoked: the task is cancelled only when nobody awaits it any more.
NoSelfInflictedError ==
    /\ answer = "Success" => outcome = "value"
    /\ answer = "Error" => outcome = "error"
    /\ answer = "UnexpectedError" => outcome \in {"bad", "badError", "exception", "fatal"}

\* The ends of a method that its driver does not report.
Uncaught ==
    \/ outcome = "fatal" /\ driver \in {"kotlin", "python"}
    \/ outcome = "cancelled" /\ driver \in {"python", "ruby"}
    \/ outcome = "bad" /\ (driver = "kotlin" \/ (driver = "python" /\ ~throws))
    \/ outcome = "badError" /\ driver = "kotlin"

\* A task that ends has completed the call, and so the channel is freed, a waker left in it
\* included, but for three ways to end in silence: uncaught, cancelled before it began, and
\* in Ruby when the dropped callback claimed the flag first.  Swift has none of them.
SenderConsumed ==
    task = "finished" /\ completions = 0 =>
        \/ Uncaught
        \/ outcome = "none" /\ cancel = "requested" /\ driver \in {"kotlin", "python"}
        \/ driver = "ruby" /\ once = "dropper"

\* The foreign side's task handle is released exactly when the Rust future is gone.
HandleReleased == inMap <=> rust \in {"await", "waiting", "lift", "drop"}

\* The method ended in a way that its driver catches.
Caught == outcome \notin {"none", "cancelled"} /\ ~Uncaught

\* An await ends once the method ended in a way that the driver of its language catches.
Answered == Caught ~> rust = "ended"

\* A dropped future tells the task, unless the task has replied (Python's request may stay
\* on the event loop).
DropIsTold ==
    (rust = "drop" /\ answer = "none" /\ task \in {"scheduled", "running"})
       ~> (cancel # "none" \/ task \in {"returned", "claimed", "sent", "finished"})

\* The abstract call: its result is there when the method has ended in a way that the
\* driver reports, and gone with the async fn.  Nothing cancels the await itself.
computed ==
    IF rust \in {"drop", "ended"} THEN "gone"
    ELSE IF outcome # "none" /\ ~Escapes(outcome) THEN Code(outcome) ELSE "pending"

Abstract == INSTANCE AsyncCall WITH Results <- Codes, requested <- FALSE

\* Every behaviour is one of the abstract call: what Rust lifts is how the method ended,
\* it is lifted at most once, and a future dropped before that is never answered.
ImplementsAsyncCall == Abstract!AsyncSpec

\* What the manual says, and the drivers do otherwise (README, findings): complete_func is
\* called exactly once for a future that was dropped,
CompletedOnceIfDropped ==
    task = "finished" /\ rust = "ended" /\ answer = "none" /\ outcome \notin {"bad", "badError"}
        => completions = 1

\* and also if the function errors out.
CompletedOnError ==
    task = "finished" /\ outcome \in {"bad", "badError", "exception"} /\ cancel = "none"
        => completions = 1
=============================================================================
