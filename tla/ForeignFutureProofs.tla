------------------------- MODULE ForeignFutureProofs -------------------------
(***************************************************************************)
(* The foreign call, in every language.                                    *)
(***************************************************************************)
EXTENDS ForeignFuture, TLAPS

USE DriversAssumption DEF Languages, Codes, Outcomes

\* The completion belongs to the task's step from the method's end to "sent", and in Ruby
\* to a claim of the flag; a second one, to an exception that was caught around the first.
OneCompletion ==
    /\ completions \in 0..2
    /\ completions = 2 => task = "finished" /\ driver \in LateRaises /\ CatchesAroundReply
    /\ task \notin {"sent", "finished"} => completions = 0
    /\ value # "none" => task \in {"sent", "finished"}
    /\ driver = "ruby" /\ (task \in {"claimed", "sent"} \/ completions > 0) => once = "task"

\* The task is launched by the call and replies only after its method ended.
TaskOrder ==
    /\ rust = "call" => task = "none"
    /\ task \in {"returned", "claimed", "sent"} => outcome # "none"

\* A future that waits without a value has its waker in the channel.
WakerSet == rust = "waiting" /\ value = "none" => waker = "set"

\* Cancellation comes after the end of the Rust future, and a "cancelled" outcome after it.
CancelledLate ==
    /\ cancel # "none" => rust = "ended"
    /\ outcome = "cancelled" => cancel = "requested"
    /\ cancel = "queued" => driver = "python"

\* The value is the code of the outcome, and the answer is the value.
ValueIsCode ==
    /\ value # "none" => outcome # "none" /\ value = Code(outcome)
    /\ rust = "lift" => value # "none"
    /\ answer # "none" =>
          value # "none" /\ outcome \notin {"none", "cancelled"} /\ answer = Code(outcome)

\* The call ends with the dropped callback registered.
RegisteredByCall == registered <=> rust \notin {"call", "register"}

\* The method has no outcome before it ends; Ruby's task claims the flag after that, if the
\* dropper, who cancels the task, has not; and who has sent has completed, with a code.
EndsByReply ==
    /\ task \in {"none", "scheduled", "running"} => outcome = "none"
    /\ once = "task" => task \in {"claimed", "sent", "finished"}
    /\ once # "none" => driver = "ruby"
    /\ once = "dropper" => rust = "ended" /\ cancel = "requested"
    /\ task = "finished" /\ driver = "ruby" => once # "none" \/ outcome = "cancelled"
    /\ task = "sent" => completions = 1
    /\ completions > 0 => value # "none"

ForeignInv ==
    /\ TypeOK
    /\ TaskOrder
    /\ OneCompletion
    /\ WakerSet
    /\ CancelledLate
    /\ ValueIsCode
    /\ NoLostCompletion
    /\ RaiseOrReply
    /\ RegisteredByCall
    /\ HandleReleased
    /\ EndsByReply
    /\ SenderConsumed

\* Every step keeps the types.
LEMMA TypeStep ==
    ASSUME TypeOK, TaskOrder, [Next]_vars PROVE TypeOK'
<1> USE DEF TypeOK, TaskOrder, Code, kind, rustVars, taskVars, channelVars
<1>1. CASE Launch
  BY <1>1 DEF Launch
<1>2. CASE Register
  BY <1>2 DEF Register
<1>3. CASE Poll
  <2>1. woken' \in BOOLEAN
    BY <1>3 DEF Poll
  <2>2. rust' \in {"waiting", "lift"} /\ waker' \in {"set", waker}
    BY <1>3 DEF Poll
  <2>3. UNCHANGED <<kind, registered, answer, taskVars, inMap, cancel, completions, value>>
    BY <1>3 DEF Poll
  <2> QED
    BY <2>1, <2>2, <2>3
<1>4. CASE PollAgain
  BY <1>4 DEF PollAgain
<1>5. CASE Lift
  BY <1>5 DEF Lift
<1>6. CASE DropFuture
  BY <1>6 DEF DropFuture
<1>7. CASE DropCallback
  <2>1. inMap' \in BOOLEAN
    BY <1>7 DEF DropCallback
  <2>2. rust' = "ended" /\ once' \in {"dropper", once} /\ cancel' \in {"queued", "requested", cancel}
    BY <1>7 DEF DropCallback, RequestCancel
  <2>3. UNCHANGED <<kind, woken, registered, answer, task, outcome, channelVars>>
    BY <1>7 DEF DropCallback
  <2> QED
    BY <2>1, <2>2, <2>3
<1>8. CASE Start
  BY <1>8 DEF Start
<1>9. CASE CancelQueued
  BY <1>9 DEF CancelQueued
<1>10. ASSUME NEW o \in Outcomes, MethodEnds(o) PROVE TypeOK'
  BY <1>10 DEF MethodEnds, CanEnd
<1>11. CASE Claim
  BY <1>11 DEF Claim
<1>12. CASE HandleResult
  BY <1>12 DEF HandleResult, ReadyToReply, Complete
<1>13. CASE HandleNothing
  BY <1>13 DEF HandleNothing, ReadyToReply
<1>14. CASE WakeReceiver
  BY <1>14 DEF WakeReceiver
<1>15. CASE RaiseAfterReply
  BY <1>15 DEF RaiseAfterReply, CatchesAroundReply
<1>16. CASE UNCHANGED vars
  BY <1>16 DEF vars
<1> QED
  BY <1>1, <1>2, <1>3, <1>4, <1>5, <1>6, <1>7, <1>8, <1>9, <1>10,
     <1>11, <1>12, <1>13, <1>14, <1>15, <1>16 DEF Next, RustRuns, TaskRuns

\* The task's life is one way: launched by the call, then the method, then the reply.
LEMMA TaskOrderStep ==
    ASSUME TypeOK, TaskOrder, [Next]_vars PROVE TaskOrder'
<1> USE DEF TaskOrder, kind, rustVars, taskVars, channelVars
<1>1. CASE Launch
  BY <1>1 DEF Launch
<1>2. CASE Register
  BY <1>2 DEF Register
<1>3. CASE Poll
  BY <1>3 DEF Poll
<1>4. CASE PollAgain
  BY <1>4 DEF PollAgain
<1>5. CASE Lift
  BY <1>5 DEF Lift
<1>6. CASE DropFuture
  BY <1>6 DEF DropFuture
<1>7. CASE DropCallback
  BY <1>7 DEF DropCallback, RequestCancel
<1>8. CASE Start
  BY <1>8 DEF Start
<1>9. CASE CancelQueued
  BY <1>9 DEF CancelQueued
<1>10. ASSUME NEW o \in Outcomes, MethodEnds(o) PROVE TaskOrder'
  BY <1>10 DEF MethodEnds, CanEnd
<1>11. CASE Claim
  BY <1>11 DEF Claim
<1>12. CASE HandleResult
  BY <1>12 DEF HandleResult, ReadyToReply, Complete
<1>13. CASE HandleNothing
  BY <1>13 DEF HandleNothing, ReadyToReply
<1>14. CASE WakeReceiver
  BY <1>14 DEF WakeReceiver
<1>15. CASE RaiseAfterReply
  BY <1>15 DEF RaiseAfterReply, CatchesAroundReply
<1>16. CASE UNCHANGED vars
  BY <1>16 DEF vars
<1> QED
  BY <1>1, <1>2, <1>3, <1>4, <1>5, <1>6, <1>7, <1>8, <1>9, <1>10,
     <1>11, <1>12, <1>13, <1>14, <1>15, <1>16 DEF Next, RustRuns, TaskRuns

\* HandleResult completes the call and leaves the state it completes from; the exception
\* after the reply ends the task.
LEMMA OneCompletionStep ==
    ASSUME TypeOK, TaskOrder, OneCompletion, [Next]_vars PROVE OneCompletion'
<1> USE DEF TypeOK, TaskOrder, OneCompletion, CatchesAroundReply, kind, rustVars, taskVars, channelVars
<1>1. CASE Launch
  BY <1>1 DEF Launch
<1>2. CASE Register
  BY <1>2 DEF Register
<1>3. CASE Poll
  BY <1>3 DEF Poll
<1>4. CASE PollAgain
  BY <1>4 DEF PollAgain
<1>5. CASE Lift
  BY <1>5 DEF Lift
<1>6. CASE DropFuture
  BY <1>6 DEF DropFuture
<1>7. CASE DropCallback
  BY <1>7 DEF DropCallback, RequestCancel
<1>8. CASE Start
  BY <1>8 DEF Start
<1>9. CASE CancelQueued
  BY <1>9 DEF CancelQueued
<1>10. ASSUME NEW o \in Outcomes, MethodEnds(o) PROVE OneCompletion'
  BY <1>10 DEF MethodEnds, CanEnd
<1>11. CASE Claim
  BY <1>11 DEF Claim
<1>12. CASE HandleResult
  BY <1>12 DEF HandleResult, ReadyToReply, Complete
<1>13. CASE HandleNothing
  BY <1>13 DEF HandleNothing, ReadyToReply
<1>14. CASE WakeReceiver
  BY <1>14 DEF WakeReceiver
<1>15. CASE RaiseAfterReply
  BY <1>15 DEF RaiseAfterReply, CatchesAroundReply
<1>16. CASE UNCHANGED vars
  BY <1>16 DEF vars
<1> QED
  BY <1>1, <1>2, <1>3, <1>4, <1>5, <1>6, <1>7, <1>8, <1>9, <1>10,
     <1>11, <1>12, <1>13, <1>14, <1>15, <1>16 DEF Next, RustRuns, TaskRuns

\* Receiver::poll and Sender::send exclude each other by the channel's lock, so that one
\* of them sees what the other did.
LEMMA WakerStep ==
    ASSUME TypeOK, OneCompletion, WakerSet, NoLostCompletion, [Next]_vars PROVE (WakerSet /\ NoLostCompletion)'
<1> USE DEF OneCompletion, WakerSet, NoLostCompletion, Code, kind, rustVars, taskVars, channelVars
<1>1. CASE Launch
  BY <1>1 DEF Launch
<1>2. CASE Register
  BY <1>2 DEF Register
<1>3. CASE Poll
  BY <1>3 DEF Poll
<1>4. CASE PollAgain
  BY <1>4 DEF PollAgain
<1>5. CASE Lift
  BY <1>5 DEF Lift
<1>6. CASE DropFuture
  BY <1>6 DEF DropFuture
<1>7. CASE DropCallback
  BY <1>7 DEF DropCallback, RequestCancel
<1>8. CASE Start
  BY <1>8 DEF Start
<1>9. CASE CancelQueued
  BY <1>9 DEF CancelQueued
<1>10. ASSUME NEW o \in Outcomes, MethodEnds(o) PROVE (WakerSet /\ NoLostCompletion)'
  BY <1>10 DEF MethodEnds, CanEnd
<1>11. CASE Claim
  BY <1>11 DEF Claim
<1>12. CASE HandleResult
  BY <1>12 DEF HandleResult, ReadyToReply, Complete
<1>13. CASE HandleNothing
  BY <1>13 DEF HandleNothing, ReadyToReply
<1>14. CASE WakeReceiver
  BY <1>14 DEF WakeReceiver
<1>15. CASE RaiseAfterReply
  BY <1>15 DEF RaiseAfterReply, CatchesAroundReply
<1>16. CASE UNCHANGED vars
  BY <1>16 DEF vars
<1> QED
  BY <1>1, <1>2, <1>3, <1>4, <1>5, <1>6, <1>7, <1>8, <1>9, <1>10,
     <1>11, <1>12, <1>13, <1>14, <1>15, <1>16 DEF Next, RustRuns, TaskRuns

\* The dropped callback is the only source of a cancellation.
LEMMA CancelledLateStep ==
    ASSUME TypeOK, CancelledLate, [Next]_vars PROVE CancelledLate'
<1> USE DEF TypeOK, CancelledLate, kind, rustVars, taskVars, channelVars
<1>1. CASE Launch
  BY <1>1 DEF Launch
<1>2. CASE Register
  BY <1>2 DEF Register
<1>3. CASE Poll
  BY <1>3 DEF Poll
<1>4. CASE PollAgain
  BY <1>4 DEF PollAgain
<1>5. CASE Lift
  BY <1>5 DEF Lift
<1>6. CASE DropFuture
  BY <1>6 DEF DropFuture
<1>7. CASE DropCallback
  BY <1>7 DEF DropCallback, RequestCancel
<1>8. CASE Start
  BY <1>8 DEF Start
<1>9. CASE CancelQueued
  BY <1>9 DEF CancelQueued
<1>10. ASSUME NEW o \in Outcomes, MethodEnds(o) PROVE CancelledLate'
  BY <1>10 DEF MethodEnds, CanEnd
<1>11. CASE Claim
  BY <1>11 DEF Claim
<1>12. CASE HandleResult
  BY <1>12 DEF HandleResult, ReadyToReply, Complete
<1>13. CASE HandleNothing
  BY <1>13 DEF HandleNothing, ReadyToReply
<1>14. CASE WakeReceiver
  BY <1>14 DEF WakeReceiver
<1>15. CASE RaiseAfterReply
  BY <1>15 DEF RaiseAfterReply, CatchesAroundReply
<1>16. CASE UNCHANGED vars
  BY <1>16 DEF vars
<1> QED
  BY <1>1, <1>2, <1>3, <1>4, <1>5, <1>6, <1>7, <1>8, <1>9, <1>10,
     <1>11, <1>12, <1>13, <1>14, <1>15, <1>16 DEF Next, RustRuns, TaskRuns

\* What Rust lifts is what the task sent.
LEMMA ValueIsCodeStep ==
    ASSUME TypeOK, TaskOrder, OneCompletion, CancelledLate, ValueIsCode, [Next]_vars PROVE ValueIsCode'
<1> USE DEF TypeOK, TaskOrder, OneCompletion, CancelledLate, ValueIsCode, Code, kind, rustVars, taskVars, channelVars
<1>1. CASE Launch
  BY <1>1 DEF Launch
<1>2. CASE Register
  BY <1>2 DEF Register
<1>3. CASE Poll
  BY <1>3 DEF Poll
<1>4. CASE PollAgain
  BY <1>4 DEF PollAgain
<1>5. CASE Lift
  BY <1>5 DEF Lift
<1>6. CASE DropFuture
  BY <1>6 DEF DropFuture
<1>7. CASE DropCallback
  BY <1>7 DEF DropCallback, RequestCancel
<1>8. CASE Start
  BY <1>8 DEF Start
<1>9. CASE CancelQueued
  BY <1>9 DEF CancelQueued
<1>10. ASSUME NEW o \in Outcomes, MethodEnds(o) PROVE ValueIsCode'
  BY <1>10 DEF MethodEnds, CanEnd
<1>11. CASE Claim
  BY <1>11 DEF Claim
<1>12. CASE HandleResult
  BY <1>12 DEF HandleResult, ReadyToReply, Complete
<1>13. CASE HandleNothing
  BY <1>13 DEF HandleNothing, ReadyToReply
<1>14. CASE WakeReceiver
  BY <1>14 DEF WakeReceiver
<1>15. CASE RaiseAfterReply
  BY <1>15 DEF RaiseAfterReply, CatchesAroundReply
<1>16. CASE UNCHANGED vars
  BY <1>16 DEF vars
<1> QED
  BY <1>1, <1>2, <1>3, <1>4, <1>5, <1>6, <1>7, <1>8, <1>9, <1>10,
     <1>11, <1>12, <1>13, <1>14, <1>15, <1>16 DEF Next, RustRuns, TaskRuns

\* Ruby's flag is claimed once, by the worker or by the dropped callback.
LEMMA RaiseOrReplyStep ==
    ASSUME TypeOK, OneCompletion, CancelledLate, RaiseOrReply, [Next]_vars PROVE RaiseOrReply'
<1> USE DEF OneCompletion, CancelledLate, RaiseOrReply, kind, rustVars, taskVars, channelVars
<1>1. CASE Launch
  BY <1>1 DEF Launch
<1>2. CASE Register
  BY <1>2 DEF Register
<1>3. CASE Poll
  BY <1>3 DEF Poll
<1>4. CASE PollAgain
  BY <1>4 DEF PollAgain
<1>5. CASE Lift
  BY <1>5 DEF Lift
<1>6. CASE DropFuture
  BY <1>6 DEF DropFuture
<1>7. CASE DropCallback
  BY <1>7 DEF DropCallback, RequestCancel
<1>8. CASE Start
  BY <1>8 DEF Start
<1>9. CASE CancelQueued
  BY <1>9 DEF CancelQueued
<1>10. ASSUME NEW o \in Outcomes, MethodEnds(o) PROVE RaiseOrReply'
  BY <1>10 DEF MethodEnds, CanEnd
<1>11. CASE Claim
  BY <1>11 DEF Claim
<1>12. CASE HandleResult
  BY <1>12 DEF HandleResult, ReadyToReply, Complete
<1>13. CASE HandleNothing
  BY <1>13 DEF HandleNothing, ReadyToReply
<1>14. CASE WakeReceiver
  BY <1>14 DEF WakeReceiver
<1>15. CASE RaiseAfterReply
  BY <1>15 DEF RaiseAfterReply, CatchesAroundReply
<1>16. CASE UNCHANGED vars
  BY <1>16 DEF vars
<1> QED
  BY <1>1, <1>2, <1>3, <1>4, <1>5, <1>6, <1>7, <1>8, <1>9, <1>10,
     <1>11, <1>12, <1>13, <1>14, <1>15, <1>16 DEF Next, RustRuns, TaskRuns

\* The handle enters the map when the callback is registered, and the callback takes it out.
LEMMA ReleasedStep ==
    ASSUME TypeOK, RegisteredByCall, HandleReleased, [Next]_vars PROVE (RegisteredByCall /\ HandleReleased)'
<1> USE DEF TypeOK, RegisteredByCall, HandleReleased, kind, rustVars, taskVars, channelVars
<1>1. CASE Launch
  BY <1>1 DEF Launch
<1>2. CASE Register
  BY <1>2 DEF Register
<1>3. CASE Poll
  BY <1>3 DEF Poll
<1>4. CASE PollAgain
  BY <1>4 DEF PollAgain
<1>5. CASE Lift
  BY <1>5 DEF Lift
<1>6. CASE DropFuture
  BY <1>6 DEF DropFuture
<1>7. CASE DropCallback
  BY <1>7 DEF DropCallback, RequestCancel
<1>8. CASE Start
  BY <1>8 DEF Start
<1>9. CASE CancelQueued
  BY <1>9 DEF CancelQueued
<1>10. ASSUME NEW o \in Outcomes, MethodEnds(o) PROVE (RegisteredByCall /\ HandleReleased)'
  BY <1>10 DEF MethodEnds, CanEnd
<1>11. CASE Claim
  BY <1>11 DEF Claim
<1>12. CASE HandleResult
  BY <1>12 DEF HandleResult, ReadyToReply, Complete
<1>13. CASE HandleNothing
  BY <1>13 DEF HandleNothing, ReadyToReply
<1>14. CASE WakeReceiver
  BY <1>14 DEF WakeReceiver
<1>15. CASE RaiseAfterReply
  BY <1>15 DEF RaiseAfterReply, CatchesAroundReply
<1>16. CASE UNCHANGED vars
  BY <1>16 DEF vars
<1> QED
  BY <1>1, <1>2, <1>3, <1>4, <1>5, <1>6, <1>7, <1>8, <1>9, <1>10,
     <1>11, <1>12, <1>13, <1>14, <1>15, <1>16 DEF Next, RustRuns, TaskRuns

\* A task ends by a completion, or in one of the listed ways.
LEMMA ConsumedStep ==
    ASSUME TypeOK, TaskOrder, OneCompletion, CancelledLate, EndsByReply, SenderConsumed,
           [Next]_vars
    PROVE  (EndsByReply /\ SenderConsumed)'
<1> USE DEF TypeOK, TaskOrder, OneCompletion, CancelledLate, EndsByReply, SenderConsumed,
            Uncaught, kind, rustVars, taskVars, channelVars
<1>1. CASE Launch
  BY <1>1 DEF Launch
<1>2. CASE Register
  BY <1>2 DEF Register
<1>3. CASE Poll
  BY <1>3 DEF Poll
<1>4. CASE PollAgain
  BY <1>4 DEF PollAgain
<1>5. CASE Lift
  BY <1>5 DEF Lift
<1>6. CASE DropFuture
  BY <1>6 DEF DropFuture
<1>7. CASE DropCallback
  BY <1>7 DEF DropCallback, RequestCancel
<1>8. CASE Start
  BY <1>8 DEF Start
<1>9. CASE CancelQueued
  BY <1>9 DEF CancelQueued
<1>10. ASSUME NEW o \in Outcomes, MethodEnds(o) PROVE (EndsByReply /\ SenderConsumed)'
  BY <1>10 DEF MethodEnds, CanEnd
<1>11. CASE Claim
  BY <1>11 DEF Claim
<1>12. CASE HandleResult
  BY <1>12 DEF HandleResult, ReadyToReply, Complete, Code
<1>13. CASE HandleNothing
  BY <1>13 DEF HandleNothing, ReadyToReply, Escapes
<1>14. CASE WakeReceiver
  BY <1>14 DEF WakeReceiver
<1>15. CASE RaiseAfterReply
  BY <1>15 DEF RaiseAfterReply, CatchesAroundReply
<1>16. CASE UNCHANGED vars
  BY <1>16 DEF vars
<1> QED
  BY <1>1, <1>2, <1>3, <1>4, <1>5, <1>6, <1>7, <1>8, <1>9, <1>10,
     <1>11, <1>12, <1>13, <1>14, <1>15, <1>16 DEF Next, RustRuns, TaskRuns

\* The inductive invariant, for every language and kind of method.
THEOREM ForeignInvariant == Spec => []ForeignInv
<1>1. Init => ForeignInv
  <2> SUFFICES ASSUME Init PROVE ForeignInv
    OBVIOUS
  <2>1. TypeOK
    BY DEF Init, TypeOK
  <2>2. TaskOrder /\ OneCompletion /\ WakerSet /\ CancelledLate
    BY DEF Init, TaskOrder, OneCompletion, WakerSet, CancelledLate
  <2>3. ValueIsCode /\ NoLostCompletion /\ RaiseOrReply
    BY DEF Init, ValueIsCode, NoLostCompletion, RaiseOrReply
  <2>4. RegisteredByCall /\ HandleReleased /\ EndsByReply /\ SenderConsumed
    BY DEF Init, RegisteredByCall, HandleReleased, EndsByReply, SenderConsumed
  <2> QED
    BY <2>1, <2>2, <2>3, <2>4 DEF ForeignInv
<1>2. ForeignInv /\ [Next]_vars => ForeignInv'
  BY TypeStep, TaskOrderStep, OneCompletionStep, WakerStep, CancelledLateStep, ValueIsCodeStep,
     RaiseOrReplyStep, ReleasedStep, ConsumedStep DEF ForeignInv
<1> QED
  BY <1>1, <1>2, PTL DEF Spec

\* foreign_future_complete consumes the raw sender at most once, in all four drivers, where
\* no exception hits a task after its reply in a driver that has a rescue around it.
THEOREM SenderNotReused ==
    ASSUME "python" \notin LateRaises, "ruby" \notin LateRaises
    PROVE  Spec => []CompletedAtMostOnce
<1>1. ForeignInv => CompletedAtMostOnce
  BY DEF ForeignInv, OneCompletion, CatchesAroundReply, CompletedAtMostOnce
<1> QED
  BY <1>1, ForeignInvariant, PTL

\* A future that waits while its value is in the channel was woken or is about to be.
THEOREM CompletionNotLost == Spec => []NoLostCompletion
<1>1. ForeignInv => NoLostCompletion
  BY DEF ForeignInv
<1> QED
  BY <1>1, ForeignInvariant, PTL

\* Ruby's dropped callback and worker exclude each other by the flag.
THEOREM RubyFlagExcludes == Spec => []RaiseOrReply
<1>1. ForeignInv => RaiseOrReply
  BY DEF ForeignInv
<1> QED
  BY <1>1, ForeignInvariant, PTL

\* The async fn never lifts an error that its own cancellation of the task provoked.
THEOREM AnswersAreTheMethods == Spec => []NoSelfInflictedError
<1>1. ForeignInv => NoSelfInflictedError
  BY DEF ForeignInv, TypeOK, ValueIsCode, Code, NoSelfInflictedError
<1> QED
  BY <1>1, ForeignInvariant, PTL

\* The types, for any of the languages.
THEOREM ForeignTypes == Spec => []TypeOK
<1>1. ForeignInv => TypeOK
  BY DEF ForeignInv
<1> QED
  BY <1>1, ForeignInvariant, PTL

\* The ends of a task without a completion of the call are the listed ones, of which Swift
\* has none.
THEOREM ConsumedByReply == Spec => []SenderConsumed
<1>1. ForeignInv => SenderConsumed
  BY DEF ForeignInv
<1> QED
  BY <1>1, ForeignInvariant, PTL

\* The task's handle is in the foreign map from the call to the drop of the Rust future.
THEOREM ReleasedWithFuture == Spec => []HandleReleased
<1>1. ForeignInv => HandleReleased
  BY DEF ForeignInv
<1> QED
  BY <1>1, ForeignInvariant, PTL

-----------------------------------------------------------------------------
(* The abstract call. *)

\* What is in the channel is the code of an outcome that the driver reports.
ReportedOnly == value # "none" => ~Escapes(outcome)

\* Only HandleResult fills the channel, and nothing changes the outcome after it.
LEMMA ReportedStep ==
    ASSUME TypeOK, OneCompletion, ReportedOnly, [Next]_vars PROVE ReportedOnly'
<1> USE DEF TypeOK, OneCompletion, ReportedOnly, Escapes, kind, rustVars, taskVars, channelVars
<1>1. CASE RustRuns \/ PollAgain \/ DropFuture
  <2>1. UNCHANGED <<kind, outcome, value>>
    BY <1>1 DEF RustRuns, Launch, Register, Poll, PollAgain, Lift, DropFuture, DropCallback
  <2> QED
    BY <2>1
<1>2. CASE Start \/ Claim \/ HandleNothing \/ WakeReceiver \/ RaiseAfterReply \/ CancelQueued
  <2>1. UNCHANGED <<kind, outcome, value>>
    BY <1>2 DEF Start, Claim, HandleNothing, WakeReceiver, RaiseAfterReply, CancelQueued
  <2> QED
    BY <2>1
<1>3. CASE HandleResult
  BY <1>3 DEF HandleResult, Complete
<1>4. ASSUME NEW o \in Outcomes, MethodEnds(o) PROVE ReportedOnly'
  BY <1>4 DEF MethodEnds
<1>5. CASE UNCHANGED vars
  BY <1>5 DEF vars
<1> QED
  BY <1>1, <1>2, <1>3, <1>4, <1>5 DEF Next, TaskRuns

\* A foreign method that Rust awaits is an abstract call, in every language: the end of the
\* method computes the result, lift_foreign_return delivers that one, and a drop gives up.
THEOREM ForeignCallIsImplemented == Spec => ImplementsAsyncCall
<1> USE DEF computed
<1>1. Init => Abstract!AsyncInit /\ ReportedOnly
  BY DEF Init, Abstract!AsyncInit, ReportedOnly
<1>2. ForeignInv /\ ReportedOnly /\ [Next]_vars => ReportedOnly'
  BY ReportedStep DEF ForeignInv
<1>3. ForeignInv /\ ReportedOnly /\ [Next]_vars => [Abstract!AsyncNext]_(Abstract!asyncVars)
  <2> SUFFICES ASSUME ForeignInv, ReportedOnly, [Next]_vars
               PROVE  Abstract!AsyncNext \/ UNCHANGED <<computed, answer, FALSE>>
    BY DEF Abstract!asyncVars
  <2> USE DEF kind, rustVars, taskVars, channelVars
  <2>1. CASE Launch \/ Register \/ Poll \/ PollAgain
    <3>1. rust \notin {"drop", "ended"} /\ rust' \notin {"drop", "ended"}
      BY <2>1 DEF Launch, Register, Poll, PollAgain
    <3>2. UNCHANGED <<kind, outcome, answer>>
      BY <2>1 DEF Launch, Register, Poll, PollAgain
    <3> QED
      BY <3>1, <3>2 DEF Escapes, Code
  <2>2. CASE Lift
    <3>1. value \in Codes /\ value = Code(outcome) /\ outcome # "none" /\ ~Escapes(outcome)
      BY <2>2 DEF Lift, ForeignInv, TypeOK, ValueIsCode, ReportedOnly
    <3>2. computed = value /\ computed' = "gone" /\ answer' = value
      BY <2>2, <3>1 DEF Lift
    <3> QED
      BY <3>1, <3>2 DEF Abstract!AsyncNext, Abstract!Deliver
  <2>3. CASE DropFuture
    <3>1. computed # "gone" /\ computed' = "gone" /\ UNCHANGED answer
      BY <2>3 DEF DropFuture, Code
    <3> QED
      BY <3>1 DEF Abstract!AsyncNext, Abstract!GiveUp
  <2>4. CASE DropCallback
    BY <2>4 DEF DropCallback
  <2>5. CASE \/ Start \/ CancelQueued \/ Claim \/ HandleNothing
             \/ WakeReceiver \/ RaiseAfterReply \/ UNCHANGED vars
    <3>1. UNCHANGED <<kind, rust, outcome, answer>>
      BY <2>5 DEF Start, CancelQueued, Claim, HandleNothing, WakeReceiver, RaiseAfterReply, vars
    <3> QED
      BY <3>1 DEF Escapes, Code
  <2>6. CASE HandleResult
    <3>1. UNCHANGED <<kind, rust, outcome, answer>>
      BY <2>6 DEF HandleResult, Complete
    <3> QED
      BY <3>1 DEF Escapes, Code
  <2>7. ASSUME NEW o \in Outcomes, MethodEnds(o)
        PROVE  Abstract!Compute \/ UNCHANGED <<computed, answer>>
    <3>1. outcome = "none" /\ outcome' = o /\ UNCHANGED <<kind, rust, answer>>
      BY <2>7 DEF MethodEnds, ForeignInv, EndsByReply
    <3>2. CASE rust \in {"drop", "ended"} \/ Escapes(o)
      BY <3>1, <3>2 DEF Escapes
    <3>3. CASE rust \notin {"drop", "ended"} /\ ~Escapes(o)
      <4>1. computed = "pending" /\ computed' \in Codes
        BY <3>1, <3>3 DEF Escapes, Code
      <4> QED
        BY <3>1, <4>1 DEF Abstract!Compute
    <3> QED
      BY <3>2, <3>3
  <2> QED
    BY <2>1, <2>2, <2>3, <2>4, <2>5, <2>6, <2>7
       DEF Next, RustRuns, TaskRuns, Abstract!AsyncNext
<1> QED
  BY <1>1, <1>2, <1>3, ForeignInvariant, PTL DEF Spec, ImplementsAsyncCall, Abstract!AsyncSpec
-----------------------------------------------------------------------------
(* A dropped future and its task. *)

\* When the Rust future is gone, a task that has still work to do knows or will be told.
GoneIsTold == rust = "ended" /\ task \in {"scheduled", "running"} => cancel # "none"

\* The drop's last step runs the dropped callback, which spares only a task that is past its
\* method.
LEMMA ToldStep ==
    ASSUME ForeignInv, GoneIsTold, [Next]_vars PROVE GoneIsTold'
<1>a. TypeOK /\ TaskOrder /\ EndsByReply /\ RegisteredByCall
  BY DEF ForeignInv
<1> USE <1>a DEF TypeOK, TaskOrder, EndsByReply, RegisteredByCall, GoneIsTold,
                 kind, rustVars, taskVars, channelVars
<1>1. CASE Launch \/ Register \/ Poll \/ PollAgain \/ Lift \/ DropFuture
  <2>1. rust' # "ended"
    BY <1>1 DEF Launch, Register, Poll, PollAgain, Lift, DropFuture
  <2> QED
    BY <2>1
<1>2. CASE DropCallback
  BY <1>2 DEF DropCallback, RequestCancel
<1>3. CASE Start
  BY <1>3 DEF Start
<1>4. CASE CancelQueued
  BY <1>4 DEF CancelQueued
<1>5. ASSUME NEW o \in Outcomes, MethodEnds(o) PROVE GoneIsTold'
  BY <1>5 DEF MethodEnds
<1>6. CASE Claim \/ HandleResult \/ HandleNothing \/ WakeReceiver \/ RaiseAfterReply
  <2>1. task' \notin {"scheduled", "running"}
    BY <1>6 DEF Claim, HandleResult, Complete, HandleNothing, WakeReceiver, RaiseAfterReply
  <2> QED
    BY <2>1
<1>7. CASE UNCHANGED vars
  BY <1>7 DEF vars
<1> QED
  BY <1>1, <1>2, <1>3, <1>4, <1>5, <1>6, <1>7 DEF Next, RustRuns, TaskRuns

\* A foreign task never works on for a future that is gone without a request to stop: it is
\* cancelled, or Python's event loop has the request (the safety core of DropIsTold).
THEOREM DroppedTasksAreTold == Spec => []GoneIsTold
<1>1. Init => GoneIsTold
  BY DEF Init, GoneIsTold
<1>2. ForeignInv /\ GoneIsTold /\ [Next]_vars => GoneIsTold'
  BY ToldStep
<1> QED
  BY <1>1, <1>2, ForeignInvariant, PTL DEF Spec

-----------------------------------------------------------------------------
(* What remains of the documentation's demands on complete_func. *)

\* A Rust future that waits in vain: it was not woken, and the task is over.
AwaitInVain == rust = "waiting" /\ ~woken /\ task = "finished"

\* An await never hangs because of a race: when the task is over and no wake is due, the
\* method has ended in a way that no handler of its driver sees, which is not by a
\* cancellation (the safety core of Answered).
THEOREM HangsOnlyUncaught == Spec => [](AwaitInVain => Uncaught /\ outcome # "cancelled")
<1>1. ForeignInv => (AwaitInVain => Uncaught /\ outcome # "cancelled")
  <2> SUFFICES ASSUME ForeignInv, AwaitInVain PROVE Uncaught /\ outcome # "cancelled"
    OBVIOUS
  <2>1. value = "none" /\ task = "finished" /\ rust = "waiting"
    BY DEF AwaitInVain, ForeignInv, NoLostCompletion
  <2>2. completions = 0
    BY <2>1 DEF ForeignInv, OneCompletion, EndsByReply
  <2>3. cancel = "none" /\ once # "dropper" /\ outcome # "cancelled"
    BY <2>1 DEF ForeignInv, CancelledLate, EndsByReply
  <2> QED
    BY <2>1, <2>2, <2>3 DEF ForeignInv, SenderConsumed
<1> QED
  BY <1>1, ForeignInvariant, PTL

\* complete_func is "also called if the function errors out" in Swift and Ruby: what the
\* manual asks fails in Python and Kotlin only.
THEOREM ErrorsAreReported ==
    ASSUME Drivers \subseteq {"swift", "ruby"}, "ruby" \notin LateRaises
    PROVE  Spec => []CompletedOnError
<1>1. ForeignInv => CompletedOnError
  <2> SUFFICES ASSUME ForeignInv,
                      task = "finished", outcome \in {"bad", "badError", "exception"},
                      cancel = "none"
               PROVE  completions = 1
    BY DEF CompletedOnError
  <2>1. driver \in {"swift", "ruby"} /\ completions \in 0..1
    BY DEF ForeignInv, TypeOK, OneCompletion, CatchesAroundReply
  <2>2. ~Uncaught
    BY <2>1 DEF Uncaught
  <2>3. ~(driver = "ruby" /\ once = "dropper")
    BY DEF ForeignInv, EndsByReply
  <2> QED
    BY <2>1, <2>2, <2>3 DEF ForeignInv, SenderConsumed
<1> QED
  BY <1>1, ForeignInvariant, PTL

\* In Swift complete_func is "called exactly once" also for a future that was dropped.
THEOREM SwiftAlwaysCompletes ==
    ASSUME Drivers = {"swift"} PROVE Spec => []CompletedOnceIfDropped
<1>1. ForeignInv => CompletedOnceIfDropped
  BY DEF ForeignInv, TypeOK, OneCompletion, CatchesAroundReply, SenderConsumed, Uncaught,
         CompletedOnceIfDropped
<1> QED
  BY <1>1, ForeignInvariant, PTL
=============================================================================
