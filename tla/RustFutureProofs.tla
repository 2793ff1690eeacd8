-------------------------- MODULE RustFutureProofs --------------------------
(***************************************************************************)
(* The async call, for any number of awaited operations, of callbacks and  *)
(* of early wakes.                                                         *)
(***************************************************************************)
EXTENDS RustFuture, SchedulerProofs, FiniteSetTheorems

USE RustFutureAssumption DEF At, Goto

\* The wakers that a dropped async fn frees are finitely many.
LEMMA CountIsInt == ASSUME TypeOK PROVE Cardinality(Orphans) \in Int
<1>1. IsFiniteSet(Orphans)
  BY FS_Subset DEF Orphans, TypeOK
<1> QED
  BY <1>1, FS_CardinalityType

\* Dropping the async fn keeps the types, whatever number of references goes with it.
LEMMA DropFutureTypes ==
    ASSUME TypeOK, NEW refs \in Int, DropFuture(refs)
    PROVE  future' = FALSE /\ slot' \in SUBSET Events /\ strong' \in Int
<1>1. strong' = strong - refs - (IF future THEN Cardinality(Orphans) ELSE 0)
  BY DEF DropFuture
<1>2. strong' \in Int
  <2>1. strong \in Int /\ Cardinality(Orphans) \in Int
    BY CountIsInt DEF TypeOK
  <2> HIDE DEF Orphans
  <2> QED
    BY <1>1, <2>1
<1> QED
  BY <1>2 DEF DropFuture, TypeOK

-----------------------------------------------------------------------------
(* The call uses its scheduler as the scheduler's specification permits, so *)
(* that what is proved of the scheduler holds of the call.                  *)

\* A step of the call is an operation of the scheduler or leaves it alone.
LEMMA StepIsSchedStep == ASSUME [Next]_vars PROVE [SchedNext]_schedVars
<1>1. ASSUME PollAnswer PROVE SchedNext
  BY <1>1 DEF PollAnswer, Answer, Issue, SchedNext
<1>2. ASSUME PollStore PROVE SchedNext
  BY <1>2 DEF PollStore, Store, Issue, SchedNext
<1>3. ASSUME FreeCancel \/ CancelFuture PROVE SchedNext
  BY <1>3 DEF FreeCancel, CancelFuture, SchedNext
<1>4. ASSUME NEW e \in Events, WakeFuture(e) PROVE SchedNext
  BY <1>4 DEF WakeFuture, SchedNext
<1>5. ASSUME NEW t \in Threads, Callback(t) PROVE SchedNext
  <2>1. Invoke(t)
    BY <1>5 DEF Callback, Invoke
  <2> QED
    BY <2>1 DEF SchedNext
<1>6. ASSUME PollBegin \/ CheckCancelled \/ LockFuture \/ InnerPending \/ PollReturn
                \/ Resume \/ Interrupt \/ Complete \/ FreeDrop
                \/ CancelBegin \/ CancelReturn
      PROVE  UNCHANGED schedVars
  BY <1>6 DEF PollBegin, CheckCancelled, LockFuture, InnerPending, PollReturn,
              Resume, Interrupt, Complete, FreeDrop, CancelBegin, CancelReturn
<1>7. ASSUME NEW e \in Events,
             PollReceiver(e) \/ Fire(e) \/ WakeEarly(e) \/ Abandon(e) \/ WakeReturn(e)
      PROVE  UNCHANGED schedVars
  BY <1>7 DEF PollReceiver, Fire, WakeEarly, Abandon, WakeReturn
<1>8. ASSUME NEW r \in {"Ok", "Err"}, InnerReady(r) PROVE UNCHANGED schedVars
  BY <1>8 DEF InnerReady
<1>9. CASE UNCHANGED vars
  BY <1>9 DEF vars
<1> QED
  BY <1>1, <1>2, <1>3, <1>4, <1>5, <1>6, <1>7, <1>8, <1>9
     DEF Next, CallerNext, EventNext, CancellerNext

\* Every behaviour of the call is a behaviour of the scheduler.
THEOREM UsesScheduler == Spec => SchedSpec
<1>1. Init => SchedInit
  BY DEF Init
<1>2. [Next]_vars => [SchedNext]_schedVars
  BY StepIsSchedStep
<1> QED
  BY <1>1, <1>2, PTL DEF Spec, SchedSpec

THEOREM TypeCorrect == Spec => []TypeOK
<1>1. Init => TypeOK
  BY DEF Init, SchedInit, TypeOK, SchedTypeOK, States, PollCodes, CallerPcs, EventPcs,
         CancellerPcs
<1>2. TypeOK /\ SchedTypeOK' /\ [Next]_vars => TypeOK'
  <2> SUFFICES ASSUME TypeOK, SchedTypeOK', [Next]_vars PROVE TypeOK'
    OBVIOUS
  <2> USE DEF TypeOK, CallerPcs, EventPcs, CancellerPcs, callVars, futureVars, channelVars
  <2>1. ASSUME PollBegin PROVE TypeOK'
    <3>1. (CHOOSE c \in Callbacks : c \notin issued) \in Callbacks
      BY <2>1 DEF PollBegin
    <3> QED
      BY <2>1, <3>1 DEF PollBegin
  <2>2. ASSUME CheckCancelled \/ LockFuture \/ InnerPending \/ PollReturn PROVE TypeOK'
    BY <2>2 DEF CheckCancelled, LockFuture, InnerPending, PollReturn
  <2>3. ASSUME PollAnswer \/ PollStore \/ FreeCancel \/ Resume \/ Interrupt PROVE TypeOK'
    BY <2>3 DEF PollAnswer, PollStore, FreeCancel, Resume, Interrupt
  <2>4. ASSUME NEW e \in Events, PollReceiver(e) PROVE TypeOK'
    BY <2>4 DEF PollReceiver, RegisterWaker
  <2>5. ASSUME NEW r \in {"Ok", "Err"}, InnerReady(r) PROVE TypeOK'
    <3>1. future' \in BOOLEAN /\ slot' \in SUBSET Events /\ strong' \in Int
      BY <2>5, DropFutureTypes, 1 \in Int DEF InnerReady
    <3> QED
      BY <2>5, <3>1 DEF InnerReady
  <2>6. ASSUME Complete PROVE TypeOK'
    <3>1. future' \in BOOLEAN /\ slot' \in SUBSET Events /\ strong' \in Int
      BY <2>6, DropFutureTypes, 0 \in Int DEF Complete
    <3> QED
      BY <2>6, <3>1 DEF Complete
  <2>7. ASSUME FreeDrop PROVE TypeOK'
    <3>1. future' \in BOOLEAN /\ slot' \in SUBSET Events /\ strong' \in Int
      BY <2>7, DropFutureTypes, 1 \in Int DEF FreeDrop
    <3> QED
      BY <2>7, <3>1 DEF FreeDrop
  <2>8. ASSUME NEW e \in Events, Abandon(e) \/ WakeFuture(e) \/ WakeReturn(e) PROVE TypeOK'
    BY <2>8 DEF Abandon, WakeFuture, WakeReturn
  <2>9. ASSUME NEW e \in Events, Fire(e) PROVE TypeOK'
    BY <2>9 DEF Fire
  <2>10. ASSUME NEW e \in Events, WakeEarly(e) PROVE TypeOK'
    BY <2>10 DEF WakeEarly
  <2>11. ASSUME CancelBegin \/ CancelFuture \/ CancelReturn PROVE TypeOK'
    BY <2>11 DEF CancelBegin, CancelFuture, CancelReturn
  <2>12. ASSUME NEW t \in Threads, Callback(t) PROVE TypeOK'
    BY <2>12 DEF Callback
  <2>13. CASE UNCHANGED vars
    BY <2>13 DEF vars
  <2> QED
    BY <2>1, <2>2, <2>3, <2>4, <2>5, <2>6, <2>7, <2>8, <2>9, <2>10, <2>11,
       <2>12, <2>13 DEF Next, CallerNext, EventNext, CancellerNext
<1> QED
  BY <1>1, <1>2, UsesScheduler, SchedTypeCorrect, PTL DEF Spec

-----------------------------------------------------------------------------
(* The inductive invariant of the call. *)

PollPcs == {"is_cancelled", "lock", "inner", "answer", "store"}
WaitPcs == {"return", "suspended"}
EndPcs  == {"free", "drop", "done"}

\* While a poll runs its callback is in nobody's hands but its own; before the next poll
\* begins every callback has been invoked, and the continuation knows.
CurrentCallback ==
    /\ pc[Caller] \in PollPcs => cb \in Callbacks \ issued /\ resumed = "none"
    /\ pc[Caller] \in PollPcs \cup {"poll"} => \A c \in issued : calls[c] = 1
    /\ pc[Caller] \in WaitPcs =>
          /\ cb \in issued
          /\ \A c \in issued \ {cb} : calls[c] = 1
          /\ resumed # "none" <=> calls[cb] = 1

\* The async fn is there until its result is, and once it is not the caller is told so.
ResultKept ==
    /\ pc[Caller] \notin EndPcs => (future <=> result = "None")
    /\ pc[Caller] \in {"poll", "is_cancelled", "lock", "inner", "store"} => future
    /\ pc[Caller] \in WaitPcs /\ ~future =>
          IF calls[cb] = 1 THEN resumed = "Ready" ELSE <<cb, "Ready">> \in toInvoke[Caller]

\* The channel will wake the caller: it holds a waker, or its thread is about to wake.
Pending(e) == IF e \in fired THEN At(e, "waking") ELSE e \in slot

\* The next store() answers at once.
Signalled == state \in {"Waked", "Cancelled"}

\* Strengthens NoLostWakeup to the window between the poll of a receiver and store().
AwaitedCovered ==
    /\ pc[Caller] = "inner" =>
          /\ todo \subseteq Events \ seen
          /\ \A e \in Events \ (seen \cup todo) : Pending(e) \/ Signalled
    /\ pc[Caller] = "store" =>
          /\ seen # Events
          /\ \A e \in Events \ seen : Pending(e) \/ Signalled
    /\ pc[Caller] \in WaitPcs /\ cb \in stored =>
          /\ seen # Events
          /\ \A e \in Events \ seen : Pending(e)
    /\ \A e \in fired : ~At(e, "armed")

\* Ready means: there is a result, somebody asked to cancel, or the caller is leaving.
Justified == result # "None" \/ requested \/ pc[Caller] \in EndPcs

ReadyJustified ==
    /\ state = "Cancelled" => requested \/ pc[Caller] \in {"drop", "done"}
    /\ \A t \in Threads, c \in Callbacks : <<c, "Ready">> \in toInvoke[t] => Justified
    /\ resumed = "Ready" \/ pc[Caller] \in {"answer", "complete"} => Justified

CallInv ==
    /\ TypeOK
    /\ SchedInv
    /\ CurrentCallback
    /\ ResultKept
    /\ AwaitedCovered
    /\ ReadyJustified

\* The steps of the other threads, apart from their callbacks.
OthersNext ==
    \/ \E e \in Events : Fire(e) \/ WakeEarly(e) \/ Abandon(e) \/ WakeFuture(e) \/ WakeReturn(e)
    \/ CancelBegin \/ CancelFuture \/ CancelReturn

\* The steps of the call, grouped as the proofs below take them.
LEMMA NextCases ==
    ASSUME Next
    PROVE  \/ PollBegin \/ CheckCancelled \/ LockFuture \/ InnerPending
           \/ \E e \in Events : PollReceiver(e)
           \/ \E r \in {"Ok", "Err"} : InnerReady(r)
           \/ PollAnswer \/ PollStore \/ PollReturn
           \/ Resume \/ Interrupt \/ Complete \/ FreeCancel \/ FreeDrop
           \/ OthersNext
           \/ \E t \in Threads : Callback(t)
  BY DEF Next, CallerNext, EventNext, CancellerNext, OthersNext

\* Threads other than the caller change neither its place, nor its poll, nor the result.
LEMMA OthersKeep ==
    ASSUME TypeOK, OthersNext
    PROVE  /\ UNCHANGED <<cb, resumed, status, future, result, issued, calls, todo, seen>>
           /\ pc'[Caller] = pc[Caller]
           /\ toInvoke'[Caller] = toInvoke[Caller]
<1>a. pc \in [Threads -> CallerPcs \cup EventPcs \cup CancellerPcs]
  BY DEF TypeOK
<1>1. ASSUME NEW e \in Events,
             Fire(e) \/ WakeEarly(e) \/ Abandon(e) \/ WakeReturn(e)
      PROVE  /\ UNCHANGED <<cb, resumed, status, future, result, issued, calls, todo, seen>>
             /\ pc'[Caller] = pc[Caller]
             /\ toInvoke'[Caller] = toInvoke[Caller]
  <2>1. CASE Fire(e)
    BY <1>a, <2>1 DEF Fire, schedVars, callVars, futureVars
  <2>2. CASE WakeEarly(e)
    BY <1>a, <2>2 DEF WakeEarly, schedVars, callVars
  <2>3. CASE Abandon(e)
    BY <1>a, <2>3 DEF Abandon, schedVars, callVars
  <2>4. CASE WakeReturn(e)
    BY <1>a, <2>4 DEF WakeReturn, schedVars, callVars, channelVars
  <2> QED
    BY <1>1, <2>1, <2>2, <2>3, <2>4
<1>2. ASSUME NEW e \in Events, WakeFuture(e)
      PROVE  /\ UNCHANGED <<cb, resumed, status, future, result, issued, calls, todo, seen>>
             /\ pc'[Caller] = pc[Caller]
             /\ toInvoke'[Caller] = toInvoke[Caller]
  BY <1>2 DEF WakeFuture, Wake, WakeSet, WakeEmpty, WakeNoOp, Owe, TypeOK, SchedTypeOK,
              callVars, futureVars, channelVars
<1>3. ASSUME CancelBegin \/ CancelFuture \/ CancelReturn
      PROVE  /\ UNCHANGED <<cb, resumed, status, future, result, issued, calls, todo, seen>>
             /\ pc'[Caller] = pc[Caller]
             /\ toInvoke'[Caller] = toInvoke[Caller]
  BY <1>3 DEF CancelBegin, CancelFuture, CancelReturn, Cancel, Owe, TypeOK, SchedTypeOK,
              schedVars, callVars, futureVars, channelVars
<1> QED
  BY <1>1, <1>2, <1>3 DEF OthersNext

\* A callback that is invoked was not invoked before, and while the caller waits it is
\* the callback of the current poll.
LEMMA CallbackCases ==
    ASSUME CallInv, NEW t \in Threads, Callback(t)
    PROVE  \E c \in Callbacks, code \in PollCodes :
              /\ <<c, code>> \in toInvoke[t] /\ c \in issued /\ calls[c] = 0
              /\ pc[Caller] \notin PollPcs \cup {"poll"}
              /\ pc[Caller] \in WaitPcs => c = cb
              /\ calls' = [calls EXCEPT ![c] = 1]
              /\ toInvoke' = [toInvoke EXCEPT ![t] = {}]
              /\ resumed' = IF c = cb THEN code ELSE resumed
              /\ UNCHANGED <<state, stored, issued, pc, cb, status, futureVars, channelVars>>
<1>1. PICK c \in Callbacks, code \in PollCodes :
         /\ InvokeCallback(t, c, code)
         /\ resumed' = IF c = cb THEN code ELSE resumed
         /\ UNCHANGED <<pc, cb, status, futureVars, channelVars>>
  BY DEF Callback
<1>2. Holds(t, c)
  BY <1>1 DEF InvokeCallback, Holds
<1>3. calls[c] = 0 /\ c \in issued
  BY <1>2 DEF CallInv, SchedInv, HeldByOne, Unissued
<1>4. pc[Caller] \notin PollPcs \cup {"poll"} /\ (pc[Caller] \in WaitPcs => c = cb)
  BY <1>3 DEF CallInv, CurrentCallback
<1>5. calls' = [calls EXCEPT ![c] = 1]
  <2>1. calls' = [calls EXCEPT ![c] = calls[c] + 1]
    BY <1>1 DEF InvokeCallback
  <2> QED
    BY <1>3, <2>1
<1>6. /\ <<c, code>> \in toInvoke[t]
      /\ toInvoke' = [toInvoke EXCEPT ![t] = {}]
      /\ UNCHANGED <<state, stored, issued>>
  BY <1>1 DEF InvokeCallback
<1> QED
  BY <1>1, <1>3, <1>4, <1>5, <1>6

\* No callback is parked or owed before the next poll begins.
LEMMA CurrentCallbackStep ==
    ASSUME CallInv, [Next]_vars PROVE CurrentCallback'
<1> USE DEF CallInv, TypeOK, CurrentCallback, PollPcs, WaitPcs
<1>1. CASE PollBegin
  <2>1. cb' \in Callbacks \ issued
    BY <1>1 DEF PollBegin
  <2> QED
    BY <1>1, <2>1 DEF PollBegin, schedVars
<1>2. CASE \/ CheckCancelled \/ LockFuture \/ InnerPending
           \/ \E e \in Events : PollReceiver(e)
           \/ \E r \in {"Ok", "Err"} : InnerReady(r)
  BY <1>2 DEF CheckCancelled, LockFuture, InnerPending, PollReceiver, InnerReady,
              schedVars, callVars
<1>3. CASE PollAnswer \/ PollStore
  <2>1. issued' = issued \cup {cb} /\ calls' = calls /\ calls[cb] = 0
    BY <1>3 DEF PollAnswer, PollStore, Answer, Store, Issue, SchedInv, Unissued
  <2> QED
    BY <1>3, <2>1 DEF PollAnswer, PollStore, callVars
<1>4. CASE PollReturn \/ Resume \/ Interrupt
  BY <1>4 DEF PollReturn, Resume, Interrupt, schedVars, callVars
<1>5. CASE Complete \/ FreeCancel \/ FreeDrop
  BY <1>5 DEF Complete, FreeCancel, FreeDrop
<1>6. CASE OthersNext
  BY <1>6, OthersKeep
<1>7. ASSUME NEW t \in Threads, Callback(t) PROVE CurrentCallback'
  <2>1. PICK c \in Callbacks, code \in PollCodes :
           /\ c \in issued /\ calls[c] = 0
           /\ pc[Caller] \notin PollPcs \cup {"poll"}
           /\ pc[Caller] \in WaitPcs => c = cb
           /\ calls' = [calls EXCEPT ![c] = 1]
           /\ resumed' = IF c = cb THEN code ELSE resumed
           /\ UNCHANGED <<issued, pc, cb>>
    BY <1>7, CallbackCases
  <2>2. calls \in [Callbacks -> Nat] /\ issued \in SUBSET Callbacks /\ code # "none"
    BY DEF SchedTypeOK, PollCodes
  <2> QED
    BY <2>1, <2>2
<1>8. CASE UNCHANGED vars
  BY <1>8 DEF vars, schedVars, callVars
<1> QED
  BY <1>1, <1>2, <1>3, <1>4, <1>5, <1>6, <1>7, <1>8, NextCases

\* The result appears when the async fn goes, and the waiting caller is told.
LEMMA ResultKeptStep ==
    ASSUME CallInv, [Next]_vars PROVE ResultKept'
<1> USE DEF CallInv, TypeOK, ResultKept, WaitPcs, EndPcs
<1>1. CASE \/ PollBegin \/ CheckCancelled \/ LockFuture \/ InnerPending
           \/ \E e \in Events : PollReceiver(e)
  BY <1>1 DEF PollBegin, CheckCancelled, LockFuture, InnerPending, PollReceiver,
              schedVars, callVars, futureVars
<1>2. ASSUME NEW r \in {"Ok", "Err"}, InnerReady(r) PROVE ResultKept'
  BY <1>2 DEF InnerReady, DropFuture
<1>3. CASE PollAnswer
  <2>1. cb' = cb /\ calls' = calls /\ calls[cb] = 0 /\ <<cb, "Ready">> \in toInvoke'[Caller]
    BY <1>3 DEF PollAnswer, Answer, Issue, Owe, SchedInv, Unissued, SchedTypeOK, callVars
  <2> QED
    BY <1>3, <2>1 DEF PollAnswer, callVars, futureVars
<1>4. CASE PollStore
  BY <1>4 DEF PollStore, callVars, futureVars
<1>5. CASE PollReturn \/ Interrupt
  BY <1>5 DEF PollReturn, Interrupt, schedVars, callVars, futureVars
<1>6. CASE Resume
  BY <1>6 DEF Resume, CurrentCallback, schedVars, callVars, futureVars
<1>7. CASE Complete \/ FreeCancel \/ FreeDrop
  BY <1>7 DEF Complete, FreeCancel, FreeDrop
<1>8. CASE OthersNext
  BY <1>8, OthersKeep
<1>9. ASSUME NEW t \in Threads, Callback(t) PROVE ResultKept'
  <2>1. PICK c \in Callbacks, code \in PollCodes :
           /\ <<c, code>> \in toInvoke[t] /\ c \in issued /\ calls[c] = 0
           /\ pc[Caller] \in WaitPcs => c = cb
           /\ calls' = [calls EXCEPT ![c] = 1]
           /\ resumed' = IF c = cb THEN code ELSE resumed
           /\ UNCHANGED <<pc, cb, futureVars>>
    BY <1>9, CallbackCases
  <2>2. ASSUME pc[Caller] \in WaitPcs, ~future
        PROVE  calls'[cb] = 1 /\ resumed' = "Ready"
    <3>1. c = cb /\ <<cb, "Ready">> \in toInvoke[Caller]
      BY <2>1, <2>2
    <3>2. t = Caller
      BY <2>1, <3>1 DEF SchedInv, HeldByOne, Holds, PollCodes
    <3>3. code = "Ready"
      BY <2>1, <3>1, <3>2 DEF SchedTypeOK
    <3> QED
      BY <2>1, <3>1, <3>3 DEF SchedTypeOK
  <2> QED
    BY <2>1, <2>2 DEF futureVars
<1>10. CASE UNCHANGED vars
  BY <1>10 DEF vars, schedVars, callVars, futureVars
<1> QED
  BY <1>1, <1>2, <1>3, <1>4, <1>5, <1>6, <1>7, <1>8, <1>9, <1>10, NextCases

-----------------------------------------------------------------------------

\* While a poll runs, no callback is parked: all earlier ones have been invoked.
LEMMA NothingParked ==
    ASSUME CallInv, pc[Caller] \in PollPcs PROVE stored = {} /\ state # "Set"
  BY DEF CallInv, CurrentCallback, SchedInv, SchedTypeOK, StoredOnly, Unissued

\* A poll that ends with its callback parked found no value to take and no wake.
LEMMA ParkedHasFuture ==
    ASSUME CallInv, pc[Caller] \in WaitPcs, cb \in stored PROVE future
<1>1. calls[cb] = 0 /\ <<cb, "Ready">> \notin toInvoke[Caller]
  BY DEF CallInv, TypeOK, SchedTypeOK, SchedInv, StoredOnly, Holds, PollCodes
<1> QED
  BY <1>1 DEF CallInv, ResultKept

\* What the async fn waits for will wake, at every point between the poll and the sleep.
LEMMA AwaitedCoveredStep ==
    ASSUME CallInv, [Next]_vars PROVE AwaitedCovered'
<1>a. /\ pc \in [Threads -> CallerPcs \cup EventPcs \cup CancellerPcs]
      /\ AwaitedCovered
      /\ todo \subseteq Events /\ seen \subseteq Events
      /\ fired \subseteq Events /\ slot \subseteq Events
  BY DEF CallInv, TypeOK
<1> USE DEF AwaitedCovered, Pending, Signalled, WaitPcs
<1>1. CASE PollBegin \/ CheckCancelled
  BY <1>a, <1>1 DEF PollBegin, CheckCancelled, channelVars
<1>2. CASE LockFuture
  BY <1>a, <1>2 DEF LockFuture
<1>3. ASSUME NEW e \in Events, PollReceiver(e) PROVE AwaitedCovered'
  BY <1>a, <1>3 DEF PollReceiver, RegisterWaker, schedVars
<1>4. CASE InnerPending
  BY <1>a, <1>4 DEF InnerPending, schedVars, channelVars
<1>5. ASSUME NEW r \in {"Ok", "Err"}, InnerReady(r) PROVE AwaitedCovered'
  BY <1>a, <1>5 DEF InnerReady
<1>6. CASE PollAnswer
  <2>1. cb' = cb /\ cb \notin stored'
    BY <1>6 DEF PollAnswer, Answer, Issue, CallInv, SchedInv, Unissued, callVars
  <2> QED
    BY <1>a, <1>6, <2>1 DEF PollAnswer, channelVars
<1>7. CASE PollStore
  <2>1. cb' = cb /\ (cb \in stored' => state = "Empty")
    BY <1>7, NothingParked
       DEF PollStore, Store, StoreEmpty, StoreSet, StoreWaked, StoreCancelled, PollPcs,
           callVars
  <2> QED
    BY <1>a, <1>7, <2>1 DEF PollStore, channelVars
<1>8. CASE PollReturn \/ Resume \/ Interrupt \/ FreeCancel
  BY <1>a, <1>8 DEF PollReturn, Resume, Interrupt, FreeCancel, schedVars, callVars, channelVars
<1>9. CASE Complete \/ FreeDrop
  BY <1>a, <1>9 DEF Complete, FreeDrop
<1>10. ASSUME NEW e \in Events, Fire(e) PROVE AwaitedCovered'
  BY <1>a, <1>10 DEF Fire, schedVars, callVars
<1>11. ASSUME NEW e \in Events, WakeEarly(e) PROVE AwaitedCovered'
  BY <1>a, <1>11 DEF WakeEarly, schedVars, callVars
<1>12. ASSUME NEW e \in Events, Abandon(e) PROVE AwaitedCovered'
  <2>1. pc[Caller] \in {"inner", "store"} \/ (pc[Caller] \in WaitPcs /\ cb \in stored)
           => future
    BY ParkedHasFuture DEF CallInv, ResultKept
  <2> QED
    BY <1>a, <1>12, <2>1 DEF Abandon, schedVars, callVars
<1>13. ASSUME NEW e \in Events, WakeFuture(e) PROVE AwaitedCovered'
  <2>1. stored' = {}
    BY <1>13 DEF WakeFuture, Wake, WakeSet, WakeEmpty, WakeNoOp, CallInv, TypeOK, SchedTypeOK
  <2>2. pc[Caller] \in {"inner", "store"} => state' \in {"Waked", "Cancelled"}
    BY <1>13, NothingParked DEF WakeFuture, Wake, WakeSet, WakeEmpty, WakeNoOp, PollPcs
  <2> QED
    BY <1>a, <1>13, <2>1, <2>2 DEF WakeFuture, callVars, channelVars
<1>14. ASSUME NEW e \in Events, WakeReturn(e) PROVE AwaitedCovered'
  BY <1>a, <1>14 DEF WakeReturn, schedVars, callVars, channelVars
<1>15. CASE CancelBegin \/ CancelReturn
  BY <1>a, <1>15 DEF CancelBegin, CancelReturn, schedVars, callVars, channelVars
<1>16. CASE CancelFuture
  BY <1>a, <1>16 DEF CancelFuture, Cancel, callVars, channelVars
<1>17. ASSUME NEW t \in Threads, Callback(t) PROVE AwaitedCovered'
  BY <1>a, <1>17 DEF Callback, InvokeCallback, channelVars
<1>18. CASE UNCHANGED vars
  BY <1>a, <1>18 DEF vars, schedVars, callVars, channelVars
<1> QED
  BY <1>1, <1>2, <1>3, <1>4, <1>5, <1>6, <1>7, <1>8, <1>9, <1>10, <1>11, <1>12,
     <1>13, <1>14, <1>15, <1>16, <1>17, <1>18
     DEF Next, CallerNext, EventNext, CancellerNext

-----------------------------------------------------------------------------

\* Once there is a reason to answer Ready there is one for ever: a result goes away only
\* when the caller takes it or leaves.
LEMMA JustifiedStays ==
    ASSUME CallInv, [Next]_vars, Justified PROVE Justified'
<1>a. pc \in [Threads -> CallerPcs \cup EventPcs \cup CancellerPcs]
  BY DEF CallInv, TypeOK
<1> USE DEF Justified, requested, EndPcs
<1>1. CASE \/ PollBegin \/ CheckCancelled \/ LockFuture \/ InnerPending
           \/ \E e \in Events : PollReceiver(e)
  BY <1>a, <1>1 DEF PollBegin, CheckCancelled, LockFuture, InnerPending, PollReceiver,
                   futureVars
<1>2. ASSUME NEW r \in {"Ok", "Err"}, InnerReady(r) PROVE Justified'
  BY <1>2 DEF InnerReady
<1>3. CASE PollAnswer \/ PollStore \/ PollReturn \/ Resume \/ Interrupt
  BY <1>a, <1>3 DEF PollAnswer, PollStore, PollReturn, Resume, Interrupt, futureVars
<1>4. CASE Complete \/ FreeCancel \/ FreeDrop
  BY <1>a, <1>4 DEF Complete, FreeCancel, FreeDrop
<1>5. ASSUME NEW e \in Events,
             Fire(e) \/ WakeEarly(e) \/ Abandon(e) \/ WakeFuture(e) \/ WakeReturn(e)
      PROVE  Justified'
  BY <1>a, <1>5 DEF Fire, WakeEarly, Abandon, WakeFuture, WakeReturn, futureVars
<1>6. CASE CancelBegin \/ CancelFuture \/ CancelReturn
  BY <1>a, <1>6 DEF CancelBegin, CancelFuture, CancelReturn, futureVars
<1>7. ASSUME NEW t \in Threads, Callback(t) PROVE Justified'
  BY <1>7 DEF Callback, futureVars
<1>8. CASE UNCHANGED vars
  BY <1>8 DEF vars, futureVars
<1> QED
  BY <1>1, <1>2, <1>3, <1>4, <1>5, <1>6, <1>7, <1>8
     DEF Next, CallerNext, EventNext, CancellerNext

\* Ready is said only for a reason, and the reason lasts.
LEMMA ReadyJustifiedStep ==
    ASSUME CallInv, [Next]_vars PROVE ReadyJustified'
<1>a. /\ pc \in [Threads -> CallerPcs \cup EventPcs \cup CancellerPcs]
      /\ ReadyJustified
      /\ toInvoke \in [Threads -> SUBSET (Callbacks \X PollCodes)]
      /\ Justified => Justified'
  BY JustifiedStays DEF CallInv, TypeOK, SchedTypeOK
<1> USE DEF ReadyJustified
<1>1. CASE PollBegin \/ LockFuture \/ InnerPending \/ \E e \in Events : PollReceiver(e)
  <2>1. LockFuture /\ pc'[Caller] = "answer" => Justified
    BY <1>a DEF LockFuture, CallInv, ResultKept, Justified, EndPcs
  <2> QED
    BY <1>a, <1>1, <2>1 DEF PollBegin, LockFuture, InnerPending, PollReceiver,
                            schedVars, callVars, requested
<1>2. CASE CheckCancelled
  BY <1>a, <1>2 DEF CheckCancelled, IsCancelled, Justified, requested, schedVars, callVars
<1>3. ASSUME NEW r \in {"Ok", "Err"}, InnerReady(r) PROVE ReadyJustified'
  <2>1. Justified'
    BY <1>3 DEF InnerReady, Justified
  <2> QED
    BY <1>a, <1>3, <2>1 DEF InnerReady, schedVars, requested
<1>4. CASE PollAnswer
  BY <1>a, <1>4 DEF PollAnswer, Answer, Owe, callVars, requested
<1>5. CASE PollStore
  <2>1. IF IsCancelled THEN requested ELSE \A c \in Callbacks :
           <<c, "Ready">> \in toInvoke'[Caller] => <<c, "Ready">> \in toInvoke[Caller]
    BY <1>a, <1>5 DEF PollStore, Store, StoreEmpty, StoreSet, StoreWaked, StoreCancelled,
                      Owe, IsCancelled
  <2>2. requested => Justified
    BY DEF Justified
  <2>3. \A t \in Threads \ {Caller} : toInvoke'[t] = toInvoke[t]
    BY <1>a, <1>5 DEF PollStore, Store, StoreEmpty, StoreSet, StoreWaked, StoreCancelled, Owe
  <2>4. \A t \in Threads, c \in Callbacks : <<c, "Ready">> \in toInvoke'[t] => Justified'
    BY <1>a, <2>1, <2>2, <2>3
  <2>5. state' = "Cancelled" => state = "Cancelled"
    BY <1>5 DEF PollStore, Store, StoreEmpty, StoreSet, StoreWaked, StoreCancelled, IsCancelled
  <2> QED
    BY <1>a, <1>5, <2>4, <2>5 DEF PollStore, callVars, requested
<1>6. CASE PollReturn \/ Resume \/ Interrupt
  BY <1>a, <1>6 DEF PollReturn, Resume, Interrupt, schedVars, callVars, requested
<1>7. CASE Complete \/ FreeDrop
  <2>1. Justified'
    BY <1>a, <1>7 DEF Complete, FreeDrop, Justified, EndPcs
  <2> QED
    BY <1>a, <1>7, <2>1 DEF Complete, FreeDrop, schedVars, requested
<1>8. CASE FreeCancel
  <2>1. Justified' /\ pc'[Caller] = "drop"
    BY <1>a, <1>8 DEF FreeCancel, Justified, EndPcs
  <2> QED
    BY <2>1
<1>9. ASSUME NEW e \in Events, Fire(e) \/ WakeEarly(e) \/ Abandon(e) \/ WakeReturn(e)
      PROVE  ReadyJustified'
  BY <1>a, <1>9 DEF Fire, WakeEarly, Abandon, WakeReturn, schedVars, callVars, requested
<1>10. ASSUME NEW e \in Events, WakeFuture(e) PROVE ReadyJustified'
  <2>1. /\ state' = "Cancelled" => state = "Cancelled"
        /\ \A t \in Threads, c \in Callbacks :
              <<c, "Ready">> \in toInvoke'[t] => <<c, "Ready">> \in toInvoke[t]
    BY <1>a, <1>10 DEF WakeFuture, Wake, WakeSet, WakeEmpty, WakeNoOp, Owe
  <2> QED
    BY <1>a, <1>10, <2>1 DEF WakeFuture, callVars, requested
<1>11. CASE CancelBegin \/ CancelReturn
  BY <1>a, <1>11 DEF CancelBegin, CancelReturn, schedVars, callVars, requested
<1>12. CASE CancelFuture
  <2>1. requested' /\ Justified'
    BY <1>a, <1>12 DEF CancelFuture, requested, Justified
  <2> QED
    BY <2>1
<1>13. ASSUME NEW t \in Threads, Callback(t) PROVE ReadyJustified'
  <2>1. PICK c \in Callbacks, code \in PollCodes :
           /\ <<c, code>> \in toInvoke[t]
           /\ toInvoke' = [toInvoke EXCEPT ![t] = {}]
           /\ resumed' = IF c = cb THEN code ELSE resumed
           /\ UNCHANGED <<state, pc>>
    BY <1>13, CallbackCases
  <2> QED
    BY <1>a, <2>1 DEF requested
<1>14. CASE UNCHANGED vars
  BY <1>a, <1>14 DEF vars, schedVars, callVars, requested
<1> QED
  BY <1>1, <1>2, <1>3, <1>4, <1>5, <1>6, <1>7, <1>8, <1>9, <1>10, <1>11, <1>12,
     <1>13, <1>14 DEF Next, CallerNext, EventNext, CancellerNext

-----------------------------------------------------------------------------
(* The theorems. *)

\* The inductive invariant of the call holds, for every set of events and callbacks.
THEOREM CallInvariant == Spec => []CallInv
<1>1. Init => CallInv
  <2> SUFFICES ASSUME Init PROVE CallInv
    OBVIOUS
  <2> USE DEF Init, SchedInit
  <2>1. TypeOK
    BY DEF TypeOK, SchedTypeOK, States, PollCodes, CallerPcs, EventPcs, CancellerPcs
  <2>2. SchedInv
    BY <2>1 DEF SchedInv, Unissued, StoredOnly, HeldByOne, NoneLost, Holds, TypeOK
  <2>3. CurrentCallback /\ ResultKept /\ AwaitedCovered
    BY DEF CurrentCallback, ResultKept, AwaitedCovered, PollPcs, WaitPcs, EndPcs
  <2>4. ReadyJustified
    BY DEF ReadyJustified
  <2> QED
    BY <2>1, <2>2, <2>3, <2>4 DEF CallInv
<1>2. CallInv /\ TypeOK' /\ SchedInv' /\ [Next]_vars => CallInv'
  BY CurrentCallbackStep, ResultKeptStep, AwaitedCoveredStep, ReadyJustifiedStep DEF CallInv
<1> QED
  BY <1>1, <1>2, TypeCorrect, UsesScheduler, SchedInvariant, PTL DEF Spec

\* No wake is lost: a caller that sleeps on a parked continuation waits for channels that
\* each hold a waker or are about to wake, whatever the order of RustFuture::poll's two
\* critical sections and of the wakes.
THEOREM WakeupsNotLost == Spec => []NoLostWakeup
<1>1. CallInv => NoLostWakeup
  BY ParkedHasFuture DEF NoLostWakeup, Parked, CallInv, AwaitedCovered, Pending, WaitPcs
<1> QED
  BY <1>1, CallInvariant, PTL

\* With one foreign task per handle, Scheduler::store never finds a callback in the
\* scheduler: the State::Set arm and its trace message are dead code.
THEOREM NoPollReentry == Spec => []OnePollAtATime
<1>1. CallInv => OnePollAtATime
  BY NothingParked DEF OnePollAtATime, PollPcs
<1> QED
  BY <1>1, CallInvariant, PTL

\* A thread that owes an invocation is between its unlock and its return.
Owing == \A t \in Threads : ~Idle(t) => pc[t] \in {"return", "drop", "woken"}

\* A thread returns from the library only when it owes nothing.
LEMMA OwingStep ==
    ASSUME TypeOK, Owing, [Next]_vars PROVE Owing'
<1> USE DEF Owing, Idle, callVars, futureVars, channelVars, schedVars
<1>a. /\ pc \in [Threads -> CallerPcs \cup EventPcs \cup CancellerPcs]
      /\ toInvoke \in [Threads -> SUBSET (Callbacks \X PollCodes)]
  BY DEF TypeOK, SchedTypeOK
<1>b. ASSUME NEW t \in Threads, pc' = [pc EXCEPT ![t] = "return"]
                                \/ pc' = [pc EXCEPT ![t] = "drop"]
                                \/ pc' = [pc EXCEPT ![t] = "woken"],
             \A u \in Threads \ {t} : toInvoke'[u] = toInvoke[u]
      PROVE  Owing'
  BY <1>a, <1>b
<1>c. ASSUME NEW t \in Threads, Idle(t), toInvoke' = toInvoke,
             \A u \in Threads \ {t} : pc'[u] = pc[u]
      PROVE  Owing'
  BY <1>a, <1>c
<1>1. CASE PollBegin \/ CheckCancelled \/ LockFuture \/ InnerPending \/ PollReturn
  <2>1. Idle(Caller) /\ toInvoke' = toInvoke /\ \A u \in Threads \ {Caller} : pc'[u] = pc[u]
    BY <1>a, <1>1 DEF PollBegin, CheckCancelled, LockFuture, InnerPending, PollReturn
  <2> QED
    BY <1>c, <2>1
<1>2. ASSUME NEW e \in Events, PollReceiver(e) PROVE Owing'
  BY <1>2 DEF PollReceiver
<1>3. ASSUME NEW r \in {"Ok", "Err"}, InnerReady(r) PROVE Owing'
  <2>1. Idle(Caller) /\ toInvoke' = toInvoke /\ \A u \in Threads \ {Caller} : pc'[u] = pc[u]
    BY <1>a, <1>3 DEF InnerReady
  <2> QED
    BY <1>c, <2>1
<1>4. CASE PollAnswer \/ PollStore \/ FreeCancel
  <2>1. \/ pc' = [pc EXCEPT ![Caller] = "return"]
        \/ pc' = [pc EXCEPT ![Caller] = "drop"]
    BY <1>4 DEF PollAnswer, PollStore, FreeCancel
  <2>2. \A u \in Threads \ {Caller} : toInvoke'[u] = toInvoke[u]
    BY <1>a, <1>4 DEF PollAnswer, Answer, PollStore, Store, StoreEmpty, StoreSet, StoreWaked,
                      StoreCancelled, FreeCancel, Cancel, Owe
  <2> QED
    BY <1>b, <2>1, <2>2
<1>5. CASE Resume \/ Interrupt \/ Complete \/ FreeDrop
  <2>1. Idle(Caller) /\ toInvoke' = toInvoke /\ \A u \in Threads \ {Caller} : pc'[u] = pc[u]
    BY <1>a, <1>5 DEF Resume, Interrupt, Complete, FreeDrop
  <2> QED
    BY <1>c, <2>1
<1>6. ASSUME NEW e \in Events, Fire(e) \/ WakeEarly(e) \/ Abandon(e) \/ WakeReturn(e)
      PROVE  Owing'
  <2>1. Idle(e) /\ toInvoke' = toInvoke /\ \A u \in Threads \ {e} : pc'[u] = pc[u]
    BY <1>a, <1>6 DEF Fire, WakeEarly, Abandon, WakeReturn
  <2> QED
    BY <1>c, <2>1
<1>7. ASSUME NEW e \in Events, WakeFuture(e) PROVE Owing'
  <2>1. pc' = [pc EXCEPT ![e] = "woken"]
    BY <1>7 DEF WakeFuture
  <2>2. \A u \in Threads \ {e} : toInvoke'[u] = toInvoke[u]
    BY <1>a, <1>7 DEF WakeFuture, Wake, WakeSet, WakeEmpty, WakeNoOp, Owe
  <2> QED
    BY <1>b, <2>1, <2>2
<1>8. CASE CancelBegin \/ CancelReturn
  <2>1. /\ Idle(Canceller) /\ toInvoke' = toInvoke
        /\ \A u \in Threads \ {Canceller} : pc'[u] = pc[u]
    BY <1>a, <1>8 DEF CancelBegin, CancelReturn
  <2> QED
    BY <1>c, <2>1
<1>9. CASE CancelFuture
  <2>1. /\ pc' = [pc EXCEPT ![Canceller] = "return"]
        /\ \A u \in Threads \ {Canceller} : toInvoke'[u] = toInvoke[u]
    BY <1>a, <1>9 DEF CancelFuture, Cancel, Owe
  <2> QED
    BY <1>b, <2>1
<1>10. ASSUME NEW t \in Threads, Callback(t) PROVE Owing'
  BY <1>a, <1>10 DEF Callback, InvokeCallback
<1>11. CASE UNCHANGED vars
  BY <1>11 DEF vars
<1> QED
  BY <1>1, <1>2, <1>3, <1>4, <1>5, <1>6, <1>7, <1>8, <1>9, <1>10, <1>11, NextCases
     DEF OthersNext

\* Who owes an invocation is inside one of the library's functions.
THEOREM OwedFromInside == Spec => []Owing
<1>1. Init => Owing
  BY DEF Init, SchedInit, Owing, Idle
<1> QED
  BY <1>1, OwingStep, TypeCorrect, PTL DEF Spec

\* Outside of the library nobody owes anything.
LEMMA OutsideIdle ==
    ASSUME TypeOK, Owing, NEW t \in Threads, ~InCall(t) PROVE Idle(t)
  BY DEF TypeOK, Owing, InCall, EventPcs, CancellerPcs

\* No call is stuck: a caller that sleeps while nobody is inside the library has its
\* continuation parked and waits for values that have not been sent, in channels that
\* hold its waker.  What rust_future_cancel or a wake() owed it has been delivered.
THEOREM SleepersAwaitEvents == Spec => []SleepsForEvents
<1>1. CallInv /\ Owing => SleepsForEvents
  <2> SUFFICES ASSUME CallInv, Owing, pc[Caller] = "suspended", resumed = "none",
                      \A t \in Threads : ~InCall(t)
               PROVE  /\ cb \in stored /\ ~IsCancelled
                      /\ future /\ seen # Events
                      /\ \A e \in Events \ seen : e \notin fired /\ e \in slot
    BY DEF SleepsForEvents
  <2>1. cb \in issued /\ calls[cb] # 1
    BY DEF CallInv, CurrentCallback, WaitPcs
  <2>2. \A t \in Threads : ~Holds(t, cb)
    BY OutsideIdle DEF CallInv, Idle, Holds
  <2>3. cb \in stored
    BY <2>1, <2>2 DEF CallInv, SchedInv, NoneLost
  <2>4. ~IsCancelled
    BY <2>3 DEF CallInv, SchedInv, SchedTypeOK, IsCancelled
  <2>5. future /\ seen # Events /\ \A e \in Events \ seen : Pending(e)
    BY <2>3, ParkedHasFuture DEF CallInv, AwaitedCovered, WaitPcs
  <2>6. \A e \in Events : pc[e] # "waking"
    BY DEF InCall
  <2> QED
    BY <2>3, <2>4, <2>5, <2>6 DEF Pending
<1> QED
  BY <1>1, OwedFromInside, CallInvariant, PTL

\* The continuation of every poll is called at most once, and until then it is in exactly
\* one place from which it will be called: what the scheduler promises any client, the
\* polls, wakes and cancellations of a call get.
THEOREM ContinuationsExactlyOnce == Spec => []ExactlyOnce
  BY UsesScheduler, CallbacksExactlyOnce, PTL

\* The call implements its abstract specification: the result that rust_future_complete
\* hands over is the one the async fn computed, it is handed over once, and Cancelled is
\* the answer only after rust_future_cancel on a call without a result.
THEOREM CallIsImplemented == Spec => ImplementsAsyncCall
<1> USE DEF computed, requested
<1>1. Init => Abstract!AsyncInit
  BY DEF Init, Abstract!AsyncInit
<1>2. CallInv /\ [Next]_vars => [Abstract!AsyncNext]_(Abstract!asyncVars)
  <2> SUFFICES ASSUME CallInv, [Next]_vars
               PROVE  Abstract!AsyncNext \/ UNCHANGED <<computed, status, requested>>
    BY DEF Abstract!asyncVars
  <2>a. pc \in [Threads -> CallerPcs \cup EventPcs \cup CancellerPcs]
    BY DEF CallInv, TypeOK
  <2>1. CASE \/ PollBegin \/ CheckCancelled \/ LockFuture \/ InnerPending
             \/ \E e \in Events : PollReceiver(e)
    BY <2>a, <2>1 DEF PollBegin, CheckCancelled, LockFuture, InnerPending, PollReceiver,
                     callVars, futureVars
  <2>2. ASSUME NEW r \in {"Ok", "Err"}, InnerReady(r) PROVE Abstract!Compute
    <3>1. future /\ result = "None"
      BY <2>2 DEF InnerReady, CallInv, ResultKept, EndPcs
    <3> QED
      BY <2>a, <2>2, <3>1 DEF InnerReady, Abstract!Compute, callVars
  <2>3. CASE PollAnswer \/ PollStore \/ PollReturn \/ Resume \/ Interrupt \/ FreeCancel
    BY <2>a, <2>3 DEF PollAnswer, PollStore, PollReturn, Resume, Interrupt, FreeCancel,
                     callVars, futureVars
  <2>4. CASE Complete
    <3>1. computed' = "gone" /\ UNCHANGED requested
      BY <2>a, <2>4 DEF Complete, DropFuture
    <3>2. CASE result # "None"
      BY <2>4, <3>1, <3>2 DEF Complete, CallInv, TypeOK, Abstract!AsyncNext, Abstract!Deliver
    <3>3. CASE result = "None"
      <4>1. future /\ requested
        BY <2>4, <3>3 DEF Complete, CallInv, ResultKept, ReadyJustified, Justified, EndPcs
      <4> QED
        BY <2>4, <3>1, <3>3, <4>1 DEF Complete, Abstract!AsyncNext, Abstract!DeliverCancelled
    <3> QED
      BY <3>2, <3>3
  <2>5. CASE FreeDrop
    BY <2>a, <2>5 DEF FreeDrop, DropFuture, Abstract!AsyncNext, Abstract!GiveUp, callVars
  <2>6. CASE CancelFuture
    BY <2>a, <2>6 DEF CancelFuture, Abstract!AsyncNext, Abstract!RequestCancel,
                     callVars, futureVars
  <2>7. CASE CancelBegin \/ CancelReturn
    BY <2>a, <2>7 DEF CancelBegin, CancelReturn, callVars, futureVars
  <2>8. ASSUME NEW e \in Events,
               Fire(e) \/ WakeEarly(e) \/ Abandon(e) \/ WakeFuture(e) \/ WakeReturn(e)
        PROVE  UNCHANGED <<computed, status, requested>>
    BY <2>a, <2>8 DEF Fire, WakeEarly, Abandon, WakeFuture, WakeReturn, callVars, futureVars
  <2>9. ASSUME NEW t \in Threads, Callback(t) PROVE UNCHANGED <<computed, status, requested>>
    BY <2>9 DEF Callback, futureVars
  <2>10. CASE UNCHANGED vars
    BY <2>10 DEF vars, callVars, futureVars
  <2> QED
    BY <2>1, <2>2, <2>3, <2>4, <2>5, <2>6, <2>7, <2>8, <2>9, <2>10
       DEF Next, CallerNext, EventNext, CancellerNext, Abstract!AsyncNext
<1> QED
  BY <1>1, <1>2, CallInvariant, PTL DEF Spec, ImplementsAsyncCall, Abstract!AsyncSpec
=============================================================================
