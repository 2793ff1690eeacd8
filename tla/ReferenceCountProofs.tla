------------------------ MODULE ReferenceCountProofs ------------------------
(***************************************************************************)
(* The strong count of the Arc<RustFuture>, and the callbacks of the call  *)
(* when it is over, for any number of awaited operations, of callbacks and *)
(* of early wakes.                                                         *)
(***************************************************************************)
EXTENDS RustFutureProofs

USE RustFutureAssumption DEF At, Goto

\* What is known of the handle, the async fn and the scheduler as the caller leaves.
CallerLeaves ==
    /\ handle <=> pc[Caller] \notin {"drop", "done"}
    /\ pc[Caller] = "done" => ~future
    /\ pc[Caller] \in {"drop", "done"} => state = "Cancelled"

\* A waker sits in a channel whose value has not been sent.  Without a sender it needs a
\* receiver, which the async fn owns.
WakersHeld ==
    /\ \A e \in fired : e \notin slot
    /\ \A e \in slot : pc[e] = "done" => future

\* The threads that run waker_wake, or are about to, with a reference of their own.
Waking == {e \in Events : pc[e] \in {"waking", "woken"}}

\* The caller has the handle until free() is over, the running poll, and that poll's waker.
CallerRefs(label) ==
    IF label = "done" THEN 0
    ELSE IF label = "inner" THEN 3
    ELSE IF label \in PollPcs \cup {"return"} THEN 2
    ELSE 1

WakingRefs(label) == IF label \in {"waking", "woken"} THEN 1 ELSE 0

CancellerRefs(label) == IF label \in {"cancel", "return"} THEN 1 ELSE 0

\* Whatever the Arc counts has an owner.
ReferencesCounted ==
    strong = CallerRefs(pc[Caller]) + CancellerRefs(pc[Canceller])
             + Cardinality(Waking) + Cardinality(slot)

CountInv ==
    /\ CallInv
    /\ CallerLeaves
    /\ WakersHeld
    /\ ReferencesCounted

-----------------------------------------------------------------------------
(* Cardinalities *)

\* The owners that are counted are finitely many.
LEMMA OwnersFinite ==
    ASSUME TypeOK
    PROVE  /\ IsFiniteSet(Waking) /\ Cardinality(Waking) \in Nat
           /\ IsFiniteSet(slot) /\ Cardinality(slot) \in Nat
<1>1. IsFiniteSet(Waking) /\ IsFiniteSet(slot)
  BY FS_Subset DEF Waking, TypeOK
<1> QED
  BY <1>1, FS_CardinalityType

\* A set that gains an element has one more, whatever it is called afterwards.
LEMMA OneMore ==
    ASSUME NEW S, IsFiniteSet(S), NEW x, x \notin S, NEW T, T = S \cup {x}
    PROVE  Cardinality(T) = Cardinality(S) + 1
<1>1. Cardinality(S \cup {x}) = Cardinality(S) + 1
  BY FS_AddElement
<1> QED
  BY <1>1

\* A set that loses an element has one fewer.
LEMMA OneFewer ==
    ASSUME NEW S, IsFiniteSet(S), NEW x, x \in S, NEW T, T = S \ {x}
    PROVE  Cardinality(T) = Cardinality(S) - 1
<1>1. Cardinality(S \ {x}) = Cardinality(S) - 1
  BY FS_RemoveElement
<1> QED
  BY <1>1

\* Dropping the async fn gives up the references given, and one for each waker that goes.
LEMMA DropFutureCount ==
    ASSUME TypeOK, NEW refs \in Int, DropFuture(refs)
    PROVE  /\ ~future'
           /\ slot' \subseteq slot
           /\ future => \A e \in slot' : pc[e] # "done"
           /\ strong' - Cardinality(slot') = strong - refs - Cardinality(slot)
<1>1. IsFiniteSet(slot) /\ Cardinality(slot) \in Nat /\ Cardinality(slot') \in Int
  <2>1. IsFiniteSet(slot) /\ IsFiniteSet(slot')
    BY OwnersFinite, FS_Subset DEF DropFuture
  <2> QED
    BY <2>1, FS_CardinalityType
<1>2. strong \in Int
  BY DEF TypeOK
<1>3. CASE ~future
  <2>1. slot' = slot /\ strong' = strong - refs - 0
    BY <1>3 DEF DropFuture
  <2> QED
    BY <1>1, <1>2, <1>3, <2>1 DEF DropFuture
<1>4. CASE future
  <2> DEFINE n == Cardinality(Orphans)
  <2>1. slot' = slot \ Orphans /\ strong' = strong - refs - n
    BY <1>4 DEF DropFuture
  <2>2. Orphans = slot \cap Orphans
    BY DEF Orphans
  <2>3. Cardinality(slot \ Orphans) = Cardinality(slot) - Cardinality(slot \cap Orphans)
    BY <1>1, FS_Difference
  <2>4. n \in Int /\ Cardinality(slot') = Cardinality(slot) - n
    BY <2>1, <2>2, <2>3, CountIsInt
  <2>5. ~future' /\ slot' \subseteq slot /\ \A e \in slot' : pc[e] # "done"
    BY <2>1 DEF DropFuture, Orphans
  <2> HIDE DEF n
  <2> QED
    BY <1>1, <1>2, <2>1, <2>4, <2>5
<1> QED
  BY <1>3, <1>4

-----------------------------------------------------------------------------
(* The order of the caller's last steps, and the wakers *)

\* free() hands the handle over and cancels before it drops the async fn.
LEMMA CallerLeavesStep ==
    ASSUME CallInv, CallerLeaves, [Next]_vars
    PROVE  CallerLeaves'
<1> USE DEF CallerLeaves, futureVars, channelVars, callVars, schedVars
<1>a. pc \in [Threads -> CallerPcs \cup EventPcs \cup CancellerPcs] /\ SchedTypeOK
  BY DEF CallInv, TypeOK
<1>1. CASE PollBegin \/ CheckCancelled \/ LockFuture \/ InnerPending \/ PollReturn
  BY <1>a, <1>1 DEF PollBegin, CheckCancelled, LockFuture, InnerPending, PollReturn
<1>2. ASSUME NEW e \in Events, PollReceiver(e) PROVE CallerLeaves'
  BY <1>a, <1>2 DEF PollReceiver
<1>3. ASSUME NEW r \in {"Ok", "Err"}, InnerReady(r) PROVE CallerLeaves'
  BY <1>a, <1>3 DEF InnerReady
<1>4. CASE PollAnswer \/ PollStore
  BY <1>a, <1>4 DEF PollAnswer, PollStore
<1>5. CASE Resume \/ Interrupt \/ Complete
  BY <1>a, <1>5 DEF Resume, Interrupt, Complete
<1>6. CASE FreeCancel
  BY <1>a, <1>6 DEF FreeCancel, Cancel
<1>7. CASE FreeDrop
  BY <1>a, <1>7 DEF FreeDrop, DropFuture
<1>8. ASSUME NEW e \in Events, Fire(e) \/ WakeEarly(e) \/ Abandon(e) \/ WakeReturn(e)
      PROVE  CallerLeaves'
  BY <1>a, <1>8 DEF Fire, WakeEarly, Abandon, WakeReturn
<1>9. ASSUME NEW e \in Events, WakeFuture(e) PROVE CallerLeaves'
  BY <1>a, <1>9 DEF WakeFuture, Wake, WakeSet, WakeEmpty, WakeNoOp
<1>10. CASE CancelBegin \/ CancelFuture \/ CancelReturn
  BY <1>a, <1>10 DEF CancelBegin, CancelFuture, CancelReturn, Cancel
<1>11. ASSUME NEW t \in Threads, Callback(t) PROVE CallerLeaves'
  BY <1>11 DEF Callback, InvokeCallback
<1>12. CASE UNCHANGED vars
  BY <1>12 DEF vars
<1> QED
  BY <1>1, <1>2, <1>3, <1>4, <1>5, <1>6, <1>7, <1>8, <1>9, <1>10, <1>11, <1>12, NextCases
     DEF OthersNext

\* A waker leaves its channel with the value, or with the last of sender and receiver.
LEMMA WakersHeldStep ==
    ASSUME CallInv, WakersHeld, [Next]_vars
    PROVE  WakersHeld'
<1> USE DEF WakersHeld, futureVars, channelVars, callVars
<1>a. /\ pc \in [Threads -> CallerPcs \cup EventPcs \cup CancellerPcs]
      /\ fired \subseteq Events /\ slot \subseteq Events /\ TypeOK
  BY DEF CallInv, TypeOK
<1>b. ASSUME UNCHANGED <<fired, slot, future>>, \A e \in Events : pc'[e] = pc[e]
      PROVE  WakersHeld'
  BY <1>a, <1>b
<1>1. CASE \/ PollBegin \/ CheckCancelled \/ LockFuture \/ InnerPending \/ PollReturn
           \/ PollAnswer \/ PollStore \/ Resume \/ Interrupt \/ FreeCancel
  BY <1>a, <1>b, <1>1 DEF PollBegin, CheckCancelled, LockFuture, InnerPending, PollReturn,
     PollAnswer, PollStore, Resume, Interrupt, FreeCancel
<1>2. ASSUME NEW e \in Events, PollReceiver(e) PROVE WakersHeld'
  <2>1. future
    BY <1>2 DEF PollReceiver, CallInv, ResultKept
  <2> QED
    BY <1>a, <1>2, <2>1 DEF PollReceiver, RegisterWaker
<1>3. ASSUME NEW refs \in Int, DropFuture(refs), fired' = fired,
             \A e \in Events : pc'[e] = pc[e]
      PROVE  WakersHeld'
  BY <1>a, <1>3, DropFutureCount
<1>4. ASSUME NEW r \in {"Ok", "Err"}, InnerReady(r) PROVE WakersHeld'
  BY <1>a, <1>3, <1>4 DEF InnerReady
<1>5. CASE Complete \/ FreeDrop
  BY <1>a, <1>3, <1>5 DEF Complete, FreeDrop
<1>6. ASSUME NEW e \in Events, Fire(e) PROVE WakersHeld'
  BY <1>a, <1>6 DEF Fire
<1>7. ASSUME NEW e \in Events, WakeEarly(e) \/ Abandon(e) PROVE WakersHeld'
  BY <1>a, <1>7 DEF WakeEarly, Abandon
<1>8. ASSUME NEW e \in Events, WakeFuture(e) \/ WakeReturn(e) PROVE WakersHeld'
  BY <1>a, <1>8 DEF WakeFuture, WakeReturn
<1>9. CASE CancelBegin \/ CancelFuture \/ CancelReturn
  BY <1>a, <1>b, <1>9 DEF CancelBegin, CancelFuture, CancelReturn
<1>10. ASSUME NEW t \in Threads, Callback(t) PROVE WakersHeld'
  BY <1>b, <1>10 DEF Callback
<1>11. CASE UNCHANGED vars
  BY <1>b, <1>11 DEF vars
<1> QED
  BY <1>1, <1>2, <1>4, <1>5, <1>6, <1>7, <1>8, <1>9, <1>10, <1>11, NextCases DEF OthersNext

-----------------------------------------------------------------------------
(* The count *)

\* What is added on one side of the account is added on the other.
LEMMA Account ==
    ASSUME NEW owners \in Int, NEW r \in Int, NEW q \in Int, NEW k \in Int, NEW n \in Int,
           NEW after \in Int, NEW m \in Int, NEW d \in Int,
           owners = r + q + k + n, after - m = owners - n + d
    PROVE  after = (r + d) + q + k + m /\ after = r + q + (k + d) + m
  OBVIOUS

\* A step of the caller accounts for what it takes and gives up.
LEMMA CallerCount ==
    ASSUME CountInv, NEW to \in CallerPcs, pc' = [pc EXCEPT ![Caller] = to], NEW d \in Int,
           strong' \in Int, slot' \subseteq Events,
           strong' - Cardinality(slot') = strong - Cardinality(slot) + d,
           CallerRefs(to) = CallerRefs(pc[Caller]) + d
    PROVE  ReferencesCounted'
<1> DEFINE r == CallerRefs(pc[Caller])
           q == CancellerRefs(pc[Canceller])
           k == Cardinality(Waking)
           n == Cardinality(slot)
<1>1. strong = r + q + k + n /\ strong \in Int
  BY DEF CountInv, CallInv, TypeOK, ReferencesCounted
<1>2. r \in Int /\ q \in Int
  BY DEF CallerRefs, CancellerRefs
<1>3. k \in Int /\ n \in Int
  BY OwnersFinite DEF CountInv, CallInv
<1>4. Cardinality(slot') \in Int
  <2>1. IsFiniteSet(slot')
    BY FS_Subset
  <2> QED
    BY <2>1, FS_CardinalityType
<1>5. /\ pc'[Caller] = to /\ pc'[Canceller] = pc[Canceller]
      /\ Waking' = Waking
  BY DEF Waking, CountInv, CallInv, TypeOK
<1>6. /\ strong' - Cardinality(slot') = strong - n + d /\ CallerRefs(to) = r + d
      /\ strong' \in Int /\ d \in Int
  OBVIOUS
<1> HIDE DEF r, q, k, n
<1>7. strong' = (r + d) + q + k + Cardinality(slot')
  BY <1>1, <1>2, <1>3, <1>4, <1>6, Account
<1>8. strong' = CallerRefs(to) + q + k + Cardinality(slot')
  BY <1>6, <1>7
<1> QED
  BY <1>5, <1>8 DEF ReferencesCounted, q, k

\* A step of the thread behind an event does, with the waker it takes from the channel.
LEMMA EventCount ==
    ASSUME CountInv, NEW e \in Events, NEW to \in EventPcs, pc' = [pc EXCEPT ![e] = to],
           NEW d \in Int,
           strong' - Cardinality(slot') = strong - Cardinality(slot) + d,
           strong' \in Int, slot' \subseteq Events,
           WakingRefs(to) = WakingRefs(pc[e]) + d
    PROVE  ReferencesCounted'
<1> DEFINE r == CallerRefs(pc[Caller])
           q == CancellerRefs(pc[Canceller])
           k == Cardinality(Waking)
           l == Cardinality(Waking')
           n == Cardinality(slot)
<1>1. strong = r + q + k + n /\ strong \in Int
  BY DEF CountInv, CallInv, TypeOK, ReferencesCounted
<1>2. r \in Int /\ q \in Int
  BY DEF CallerRefs, CancellerRefs
<1>3. k \in Int /\ n \in Int /\ IsFiniteSet(Waking)
  BY OwnersFinite DEF CountInv, CallInv
<1>4. Cardinality(slot') \in Int
  <2>1. IsFiniteSet(slot')
    BY FS_Subset
  <2> QED
    BY <2>1, FS_CardinalityType
<1>5. /\ pc'[Caller] = pc[Caller] /\ pc'[Canceller] = pc[Canceller]
      /\ pc'[e] = to /\ \A f \in Events : f # e => pc'[f] = pc[f]
  BY DEF CountInv, CallInv, TypeOK
<1>6. l = k + d
  <2>1. CASE to \in {"waking", "woken"} /\ pc[e] \notin {"waking", "woken"}
    <3>1. e \notin Waking /\ Waking' = Waking \cup {e}
      BY <1>5, <2>1 DEF Waking
    <3> QED
      BY <1>3, <2>1, <3>1, OneMore DEF WakingRefs
  <2>2. CASE to \notin {"waking", "woken"} /\ pc[e] \in {"waking", "woken"}
    <3>1. e \in Waking /\ Waking' = Waking \ {e}
      BY <1>5, <2>2 DEF Waking
    <3>2. l = k - 1 /\ d = -1
      BY <1>3, <2>2, <3>1, OneFewer DEF WakingRefs
    <3> HIDE DEF l, k
    <3> QED
      BY <1>3, <3>2
  <2>3. CASE to \in {"waking", "woken"} <=> pc[e] \in {"waking", "woken"}
    <3>1. Waking' = Waking
      BY <1>5, <2>3 DEF Waking
    <3>2. l = k /\ d = 0
      BY <2>3, <3>1 DEF WakingRefs
    <3> HIDE DEF l, k
    <3> QED
      BY <1>3, <3>2
  <2> QED
    BY <2>1, <2>2, <2>3
<1>7. strong' - Cardinality(slot') = strong - n + d /\ strong' \in Int /\ d \in Int
  OBVIOUS
<1> HIDE DEF r, q, k, l, n
<1>8. strong' = r + q + l + Cardinality(slot')
  BY <1>1, <1>2, <1>3, <1>4, <1>6, <1>7, Account
<1> QED
  BY <1>5, <1>8 DEF ReferencesCounted, r, q, l

\* Steps that touch no channel.
LEMMA CallerKeepsWakers ==
    ASSUME CountInv, NEW to \in CallerPcs, pc' = [pc EXCEPT ![Caller] = to], NEW d \in Int,
           strong' = strong + d, slot' = slot, CallerRefs(to) = CallerRefs(pc[Caller]) + d
    PROVE  ReferencesCounted'
<1>1. strong \in Int /\ Cardinality(slot) \in Int /\ slot' \subseteq Events
  BY OwnersFinite DEF CountInv, CallInv, TypeOK
<1>2. /\ strong' - Cardinality(slot') = strong - Cardinality(slot) + d
      /\ strong' \in Int
  BY <1>1
<1> QED
  BY <1>1, <1>2, CallerCount

\* The same of the thread behind an event.
LEMMA EventKeepsWakers ==
    ASSUME CountInv, NEW e \in Events, NEW to \in EventPcs, pc' = [pc EXCEPT ![e] = to],
           NEW d \in Int, strong' = strong + d, slot' = slot,
           WakingRefs(to) = WakingRefs(pc[e]) + d
    PROVE  ReferencesCounted'
<1>1. strong \in Int /\ Cardinality(slot) \in Int /\ slot' \subseteq Events
  BY OwnersFinite DEF CountInv, CallInv, TypeOK
<1>2. /\ strong' - Cardinality(slot') = strong - Cardinality(slot) + d
      /\ strong' \in Int
  BY <1>1
<1> QED
  BY <1>1, <1>2, EventCount

\* The count is that of its owners after every step.
LEMMA CountStep ==
    ASSUME CountInv, [Next]_vars
    PROVE  ReferencesCounted'
<1> USE DEF futureVars, channelVars, callVars
<1>a. /\ pc \in [Threads -> CallerPcs \cup EventPcs \cup CancellerPcs]
      /\ strong \in Int /\ slot \subseteq Events /\ TypeOK
      /\ IsFiniteSet(slot) /\ Cardinality(slot) \in Int
  BY OwnersFinite DEF CountInv, CallInv, TypeOK
<1>b. ASSUME UNCHANGED <<pc, strong, slot>> PROVE ReferencesCounted'
  <2>1. Waking' = Waking
    BY <1>b DEF Waking
  <2> QED
    BY <1>b, <2>1 DEF ReferencesCounted, CountInv
<1>1. CASE PollBegin
  <2>1. /\ pc[Caller] = "poll" /\ pc' = [pc EXCEPT ![Caller] = "is_cancelled"]
        /\ strong' = strong + 1 /\ slot' = slot
    BY <1>1 DEF PollBegin
  <2>2. CallerRefs("is_cancelled") = CallerRefs(pc[Caller]) + 1
    BY <2>1 DEF CallerRefs, PollPcs
  <2> QED
    BY <1>a, <2>1, <2>2, CallerKeepsWakers, 1 \in Int DEF CallerPcs
<1>2. CASE CheckCancelled
  <2>1. pc[Caller] = "is_cancelled" /\ strong' = strong + 0 /\ slot' = slot
    BY <1>a, <1>2 DEF CheckCancelled
  <2>2. PICK to \in {"answer", "lock"} : pc' = [pc EXCEPT ![Caller] = to]
    BY <1>2 DEF CheckCancelled
  <2>3. CallerRefs(to) = CallerRefs(pc[Caller]) + 0
    BY <2>1 DEF CallerRefs, PollPcs
  <2> QED
    BY <2>1, <2>2, <2>3, CallerKeepsWakers, 0 \in Int DEF CallerPcs
<1>3. CASE LockFuture
  <2>1. pc[Caller] = "lock" /\ slot' = slot
    BY <1>3 DEF LockFuture
  <2>2. \/ pc' = [pc EXCEPT ![Caller] = "inner"] /\ strong' = strong + 1
        \/ pc' = [pc EXCEPT ![Caller] = "answer"] /\ strong' = strong + 0
    BY <1>a, <1>3 DEF LockFuture
  <2>3. /\ CallerRefs("inner") = CallerRefs(pc[Caller]) + 1
        /\ CallerRefs("answer") = CallerRefs(pc[Caller]) + 0
    BY <2>1 DEF CallerRefs, PollPcs
  <2> QED
    BY <1>a, <2>1, <2>2, <2>3, CallerKeepsWakers, 0 \in Int, 1 \in Int DEF CallerPcs
<1>4. ASSUME NEW e \in Events, PollReceiver(e) PROVE ReferencesCounted'
  <2>1. /\ pc' = pc
        /\ \/ slot' = slot /\ strong' = strong
           \/ slot' = slot \cup {e} /\ strong' = strong + (IF e \in slot THEN 0 ELSE 1)
    BY <1>4 DEF PollReceiver, RegisterWaker
  <2>2. CASE slot' = slot /\ strong' = strong
    BY <1>b, <2>1, <2>2
  <2>3. CASE slot' = slot \cup {e} /\ strong' = strong + 0 /\ e \in slot
    <3>1. slot' = slot /\ strong' = strong
      BY <1>a, <2>3
    <3> QED
      BY <1>b, <2>1, <3>1
  <2>4. CASE slot' = slot \cup {e} /\ strong' = strong + 1 /\ e \notin slot
    <3>1. Cardinality(slot') = Cardinality(slot) + 1
      BY <1>a, <2>4, OneMore
    <3>2. /\ strong' - Cardinality(slot') = strong - Cardinality(slot) + 0
          /\ strong' \in Int /\ slot' \subseteq Events
      BY <1>a, <2>4, <3>1
    <3>3. pc' = [pc EXCEPT ![Caller] = "inner"] /\ pc[Caller] = "inner"
      BY <1>a, <1>4, <2>1 DEF PollReceiver
    <3>4. CallerRefs("inner") = CallerRefs(pc[Caller]) + 0
      BY <3>3 DEF CallerRefs
    <3> QED
      BY <3>2, <3>3, <3>4, CallerCount, 0 \in Int DEF CallerPcs
  <2> QED
    BY <2>1, <2>2, <2>3, <2>4
<1>5. CASE InnerPending
  <2>1. /\ pc[Caller] = "inner" /\ pc' = [pc EXCEPT ![Caller] = "store"]
        /\ strong' = strong + (-1) /\ slot' = slot
    BY <1>a, <1>5 DEF InnerPending
  <2>2. CallerRefs("store") = CallerRefs(pc[Caller]) + (-1)
    BY <2>1 DEF CallerRefs, PollPcs
  <2> QED
    BY <1>a, <2>1, <2>2, CallerKeepsWakers, -1 \in Int DEF CallerPcs
<1>6. ASSUME NEW r \in {"Ok", "Err"}, InnerReady(r) PROVE ReferencesCounted'
  <2>1. pc[Caller] = "inner" /\ pc' = [pc EXCEPT ![Caller] = "answer"] /\ DropFuture(1)
    BY <1>6 DEF InnerReady
  <2>2. CallerRefs("answer") = CallerRefs(pc[Caller]) + (-1)
    BY <2>1 DEF CallerRefs, PollPcs
  <2>3. /\ slot' \subseteq Events /\ strong' \in Int
        /\ strong' - Cardinality(slot') = strong - 1 - Cardinality(slot)
    BY <1>a, <2>1, DropFutureCount, DropFutureTypes, 1 \in Int
  <2>4. strong' - Cardinality(slot') = strong - Cardinality(slot) + (-1)
    BY <1>a, <2>3
  <2> QED
    BY <2>1, <2>2, <2>3, <2>4, CallerCount, -1 \in Int DEF CallerPcs
<1>7. CASE PollAnswer
  <2>1. /\ pc[Caller] = "answer" /\ pc' = [pc EXCEPT ![Caller] = "return"]
        /\ strong' = strong + 0 /\ slot' = slot
    BY <1>a, <1>7 DEF PollAnswer
  <2>2. CallerRefs("return") = CallerRefs(pc[Caller]) + 0
    BY <2>1 DEF CallerRefs, PollPcs
  <2> QED
    BY <1>a, <2>1, <2>2, CallerKeepsWakers, 0 \in Int DEF CallerPcs
<1>8. CASE PollStore
  <2>1. /\ pc[Caller] = "store" /\ pc' = [pc EXCEPT ![Caller] = "return"]
        /\ strong' = strong + 0 /\ slot' = slot
    BY <1>a, <1>8 DEF PollStore
  <2>2. CallerRefs("return") = CallerRefs(pc[Caller]) + 0
    BY <2>1 DEF CallerRefs, PollPcs
  <2> QED
    BY <1>a, <2>1, <2>2, CallerKeepsWakers, 0 \in Int DEF CallerPcs
<1>9. CASE PollReturn
  <2>1. /\ pc[Caller] = "return" /\ pc' = [pc EXCEPT ![Caller] = "suspended"]
        /\ strong' = strong + (-1) /\ slot' = slot
    BY <1>a, <1>9 DEF PollReturn
  <2>2. CallerRefs("suspended") = CallerRefs(pc[Caller]) + (-1)
    BY <2>1 DEF CallerRefs, PollPcs
  <2> QED
    BY <1>a, <2>1, <2>2, CallerKeepsWakers, -1 \in Int DEF CallerPcs
<1>10. CASE Resume \/ Interrupt
  <2>1. pc[Caller] = "suspended" /\ strong' = strong + 0 /\ slot' = slot
    BY <1>a, <1>10 DEF Resume, Interrupt
  <2>2. PICK to \in {"complete", "poll", "free"} : pc' = [pc EXCEPT ![Caller] = to]
    BY <1>10 DEF Resume, Interrupt
  <2>3. CallerRefs(to) = CallerRefs(pc[Caller]) + 0
    BY <2>1 DEF CallerRefs, PollPcs
  <2> QED
    BY <2>1, <2>2, <2>3, CallerKeepsWakers, 0 \in Int DEF CallerPcs
<1>11. CASE Complete
  <2>1. pc[Caller] = "complete" /\ pc' = [pc EXCEPT ![Caller] = "free"] /\ DropFuture(0)
    BY <1>11 DEF Complete
  <2>2. CallerRefs("free") = CallerRefs(pc[Caller]) + 0
    BY <2>1 DEF CallerRefs, PollPcs
  <2>3. /\ slot' \subseteq Events /\ strong' \in Int
        /\ strong' - Cardinality(slot') = strong - 0 - Cardinality(slot)
    BY <1>a, <2>1, DropFutureCount, DropFutureTypes, 0 \in Int
  <2>4. strong' - Cardinality(slot') = strong - Cardinality(slot) + 0
    BY <1>a, <2>3
  <2> QED
    BY <2>1, <2>2, <2>3, <2>4, CallerCount, 0 \in Int DEF CallerPcs
<1>12. CASE FreeCancel
  <2>1. /\ pc[Caller] = "free" /\ pc' = [pc EXCEPT ![Caller] = "drop"]
        /\ strong' = strong + 0 /\ slot' = slot
    BY <1>a, <1>12 DEF FreeCancel
  <2>2. CallerRefs("drop") = CallerRefs(pc[Caller]) + 0
    BY <2>1 DEF CallerRefs, PollPcs
  <2> QED
    BY <1>a, <2>1, <2>2, CallerKeepsWakers, 0 \in Int DEF CallerPcs
<1>13. CASE FreeDrop
  <2>1. pc[Caller] = "drop" /\ pc' = [pc EXCEPT ![Caller] = "done"] /\ DropFuture(1)
    BY <1>13 DEF FreeDrop
  <2>2. CallerRefs("done") = CallerRefs(pc[Caller]) + (-1)
    BY <2>1 DEF CallerRefs, PollPcs
  <2>3. /\ slot' \subseteq Events /\ strong' \in Int
        /\ strong' - Cardinality(slot') = strong - 1 - Cardinality(slot)
    BY <1>a, <2>1, DropFutureCount, DropFutureTypes, 1 \in Int
  <2>4. strong' - Cardinality(slot') = strong - Cardinality(slot) + (-1)
    BY <1>a, <2>3
  <2> QED
    BY <2>1, <2>2, <2>3, <2>4, CallerCount, -1 \in Int DEF CallerPcs
<1>14. ASSUME NEW e \in Events, Fire(e) PROVE ReferencesCounted'
  <2>1. pc[e] = "armed" /\ slot' = slot \ {e} /\ strong' = strong
    BY <1>14 DEF Fire
  <2>2. CASE e \in slot
    <3>1. pc' = [pc EXCEPT ![e] = "waking"] /\ Cardinality(slot') = Cardinality(slot) - 1
      BY <1>a, <1>14, <2>1, <2>2, OneFewer DEF Fire
    <3>2. strong' - Cardinality(slot') = strong - Cardinality(slot) + 1
      BY <1>a, <2>1, <3>1
    <3>3. strong' \in Int /\ slot' \subseteq Events
      BY <1>a, <2>1
    <3>4. WakingRefs("waking") = WakingRefs(pc[e]) + 1
      BY <2>1 DEF WakingRefs
    <3> QED
      BY <3>1, <3>2, <3>3, <3>4, EventCount, 1 \in Int DEF EventPcs
  <2>3. CASE e \notin slot
    <3>1. pc' = [pc EXCEPT ![e] = "done"] /\ slot' = slot /\ strong' = strong + 0
      BY <1>a, <1>14, <2>1, <2>3 DEF Fire
    <3>2. WakingRefs("done") = WakingRefs(pc[e]) + 0
      BY <2>1 DEF WakingRefs
    <3> QED
      BY <1>a, <2>1, <3>1, <3>2, EventKeepsWakers, 0 \in Int DEF EventPcs
  <2> QED
    BY <2>2, <2>3
<1>15. ASSUME NEW e \in Events, WakeEarly(e) PROVE ReferencesCounted'
  <2>1. /\ pc[e] = "armed" /\ pc' = [pc EXCEPT ![e] = "waking"]
        /\ slot' = slot /\ strong' = strong + 1
    BY <1>15 DEF WakeEarly
  <2>2. WakingRefs("waking") = WakingRefs(pc[e]) + 1
    BY <2>1 DEF WakingRefs
  <2> QED
    BY <1>a, <2>1, <2>2, EventKeepsWakers, 1 \in Int DEF EventPcs
<1>16. ASSUME NEW e \in Events, Abandon(e) PROVE ReferencesCounted'
  <2>1. pc[e] = "armed" /\ pc' = [pc EXCEPT ![e] = "done"]
    BY <1>16 DEF Abandon
  <2>2. CASE e \in slot /\ ~future
    <3>1. slot' = slot \ {e} /\ strong' = strong - 1
      BY <1>16, <2>2 DEF Abandon
    <3>2. Cardinality(slot') = Cardinality(slot) - 1
      BY <1>a, <2>2, <3>1, OneFewer
    <3>3. /\ strong' - Cardinality(slot') = strong - Cardinality(slot) + 0
          /\ strong' \in Int /\ slot' \subseteq Events
      BY <1>a, <3>1, <3>2
    <3>4. WakingRefs("done") = WakingRefs(pc[e]) + 0
      BY <2>1 DEF WakingRefs
    <3> QED
      BY <2>1, <3>3, <3>4, EventCount, 0 \in Int DEF EventPcs
  <2>3. CASE ~(e \in slot /\ ~future)
    <3>1. slot' = slot /\ strong' = strong + 0
      BY <1>a, <1>16, <2>3 DEF Abandon
    <3>2. WakingRefs("done") = WakingRefs(pc[e]) + 0
      BY <2>1 DEF WakingRefs
    <3> QED
      BY <1>a, <2>1, <3>1, <3>2, EventKeepsWakers, 0 \in Int DEF EventPcs
  <2> QED
    BY <2>2, <2>3
<1>17. ASSUME NEW e \in Events, WakeFuture(e) PROVE ReferencesCounted'
  <2>1. /\ pc[e] = "waking" /\ pc' = [pc EXCEPT ![e] = "woken"]
        /\ slot' = slot /\ strong' = strong + 0
    BY <1>a, <1>17 DEF WakeFuture
  <2>2. WakingRefs("woken") = WakingRefs(pc[e]) + 0
    BY <2>1 DEF WakingRefs
  <2> QED
    BY <1>a, <2>1, <2>2, EventKeepsWakers, 0 \in Int DEF EventPcs
<1>18. ASSUME NEW e \in Events, WakeReturn(e) PROVE ReferencesCounted'
  <2>1. pc[e] = "woken" /\ slot' = slot /\ strong' = strong - 1
    BY <1>18 DEF WakeReturn
  <2>2. PICK to \in {"done", "armed"} : pc' = [pc EXCEPT ![e] = to]
    BY <1>18 DEF WakeReturn
  <2>3. WakingRefs(to) = WakingRefs(pc[e]) + (-1)
    BY <2>1 DEF WakingRefs
  <2>4. strong' = strong + (-1)
    BY <1>a, <2>1
  <2> QED
    BY <2>1, <2>2, <2>3, <2>4, EventKeepsWakers, -1 \in Int DEF EventPcs
<1>19. CASE CancelBegin \/ CancelFuture \/ CancelReturn
  <2>1. /\ pc'[Caller] = pc[Caller] /\ \A e \in Events : pc'[e] = pc[e]
        /\ slot' = slot
    BY <1>a, <1>19 DEF CancelBegin, CancelFuture, CancelReturn
  <2>2. Waking' = Waking
    BY <2>1 DEF Waking
  <2>3. /\ strong' = strong - CancellerRefs(pc[Canceller]) + CancellerRefs(pc'[Canceller])
        /\ CancellerRefs(pc[Canceller]) \in Int /\ CancellerRefs(pc'[Canceller]) \in Int
        /\ CallerRefs(pc[Caller]) \in Int
    BY <1>a, <1>19 DEF CancelBegin, CancelFuture, CancelReturn, CancellerRefs, CallerRefs
  <2>4. Cardinality(Waking) \in Int
    BY <1>a, OwnersFinite
  <2>5. strong = CallerRefs(pc[Caller]) + CancellerRefs(pc[Canceller])
                 + Cardinality(Waking) + Cardinality(slot)
    BY DEF CountInv, ReferencesCounted
  <2>6. strong' = CallerRefs(pc[Caller]) + CancellerRefs(pc'[Canceller])
                  + Cardinality(Waking) + Cardinality(slot)
    BY ONLY <1>a, <2>3, <2>4, <2>5
  <2> QED
    BY <2>1, <2>2, <2>6 DEF ReferencesCounted
<1>20. ASSUME NEW t \in Threads, Callback(t) PROVE ReferencesCounted'
  BY <1>b, <1>20 DEF Callback
<1>21. CASE UNCHANGED vars
  BY <1>b, <1>21 DEF vars
<1> QED
  BY <1>1, <1>2, <1>3, <1>4, <1>5, <1>6, <1>7, <1>8, <1>9, <1>10, <1>11, <1>12, <1>13, <1>14,
     <1>15, <1>16, <1>17, <1>18, <1>19, <1>20, <1>21, NextCases DEF OthersNext

-----------------------------------------------------------------------------
(* Theorems *)

\* One reference, the handle's.
LEMMA InitCount == ASSUME Init PROVE CallerLeaves /\ WakersHeld /\ ReferencesCounted
<1>1. Waking = {} /\ slot = {} /\ pc[Caller] = "poll" /\ pc[Canceller] = "idle" /\ strong = 1
  BY DEF Init, Waking
<1>2. Cardinality(Waking) = 0 /\ Cardinality(slot) = 0
  BY <1>1, FS_EmptySet
<1>3. CallerRefs(pc[Caller]) = 1 /\ CancellerRefs(pc[Canceller]) = 0
  BY <1>1 DEF CallerRefs, CancellerRefs, PollPcs
<1>4. ReferencesCounted
  BY <1>1, <1>2, <1>3 DEF ReferencesCounted
<1> QED
  BY <1>1, <1>4 DEF Init, CallerLeaves, WakersHeld

\* The strong count of the Arc is always the number of its owners: the handle, the calls
\* under way, the wakers in the channels and those that are being invoked.
THEOREM CountInvariant == Spec => []CountInv
<1>1. Init => CallerLeaves /\ WakersHeld /\ ReferencesCounted
  BY InitCount
<1>2. CallInv /\ (CallerLeaves /\ WakersHeld /\ ReferencesCounted) /\ [Next]_vars
         => (CallerLeaves /\ WakersHeld /\ ReferencesCounted)'
  BY CallerLeavesStep, WakersHeldStep, CountStep DEF CountInv
<1> QED
  BY <1>1, <1>2, CallInvariant, PTL DEF Spec, CountInv

\* As long as the handle, a call or a waker can reach the RustFuture, it is alive.
THEOREM NeverUsedAfterFree == Spec => []NoUseAfterFree
<1>1. CountInv => NoUseAfterFree
  <2> SUFFICES ASSUME CountInv, handle \/ slot # {} \/ \E t \in Threads : InCall(t)
               PROVE  strong > 0
    BY DEF NoUseAfterFree
  <2> DEFINE r == CallerRefs(pc[Caller])
             q == CancellerRefs(pc[Canceller])
             k == Cardinality(Waking)
             n == Cardinality(slot)
  <2>1. strong = r + q + k + n
    BY DEF CountInv, ReferencesCounted
  <2>2. r \in Nat /\ q \in Nat
    BY DEF CallerRefs, CancellerRefs
  <2>3. k \in Nat /\ n \in Nat /\ IsFiniteSet(Waking) /\ IsFiniteSet(slot)
    BY OwnersFinite DEF CountInv, CallInv
  <2>4. CASE handle
    <3>1. r > 0
      BY <2>4 DEF CountInv, CallerLeaves, CallerRefs
    <3> HIDE DEF r, q, k, n
    <3> QED
      BY <2>1, <2>2, <2>3, <3>1
  <2>5. CASE slot # {}
    <3>1. n # 0
      BY <2>3, <2>5, FS_EmptySet
    <3> HIDE DEF r, q, k, n
    <3> QED
      BY <2>1, <2>2, <2>3, <3>1
  <2>6. CASE InCall(Caller)
    <3>1. r > 0
      BY <2>6 DEF InCall, CallerRefs
    <3> HIDE DEF r, q, k, n
    <3> QED
      BY <2>1, <2>2, <2>3, <3>1
  <2>7. CASE InCall(Canceller)
    <3>1. q > 0
      BY <2>7 DEF InCall, CancellerRefs
    <3> HIDE DEF r, q, k, n
    <3> QED
      BY <2>1, <2>2, <2>3, <3>1
  <2>8. ASSUME NEW e \in Events, InCall(e) PROVE strong > 0
    <3>1. e \in Waking
      BY <2>8 DEF InCall, Waking
    <3>2. k # 0
      BY <2>3, <3>1, FS_EmptySet
    <3> HIDE DEF r, q, k, n
    <3> QED
      BY <2>1, <2>2, <2>3, <3>2
  <2> QED
    BY <2>4, <2>5, <2>6, <2>7, <2>8
<1> QED
  BY <1>1, CountInvariant, PTL

\* When the caller, the canceller and the senders are through, the RustFuture is deallocated:
\* no waker keeps it, because free() and complete() have dropped the async fn.
THEOREM NeverLeaked == Spec => []NoLeak
<1>1. CountInv => NoLeak
  <2> SUFFICES ASSUME CountInv, pc[Caller] = "done", pc[Canceller] \in {"idle", "done"},
                      \A e \in Events : pc[e] = "done"
               PROVE  strong = 0
    BY DEF NoLeak
  <2>1. Waking = {}
    BY DEF Waking
  <2>2. slot = {}
    BY DEF CountInv, CallInv, TypeOK, CallerLeaves, WakersHeld
  <2>3. Cardinality(Waking) = 0 /\ Cardinality(slot) = 0
    BY <2>1, <2>2, FS_EmptySet
  <2>4. CallerRefs(pc[Caller]) = 0 /\ CancellerRefs(pc[Canceller]) = 0
    BY DEF CallerRefs, CancellerRefs
  <2>5. strong = 0 + 0 + 0 + 0
    BY <2>3, <2>4 DEF CountInv, ReferencesCounted
  <2> QED
    BY <2>5
<1> QED
  BY <1>1, CountInvariant, PTL

\* The continuation of every poll is called once, also if the caller was interrupted:
\* free() cancels, and a cancelled scheduler keeps no callback.
THEOREM PollsAnswered == Spec => []EveryPollAnswered
<1>1. CountInv => EveryPollAnswered
  <2> SUFFICES ASSUME CountInv, pc[Caller] = "done", \A t \in Threads : Idle(t),
                      NEW c \in issued
               PROVE  calls[c] = 1
    BY DEF EveryPollAnswered
  <2>1. stored = {}
    BY DEF CountInv, CallInv, CallerLeaves, SchedInv, SchedTypeOK
  <2>2. \A t \in Threads : ~Holds(t, c)
    BY DEF Idle, Holds
  <2> QED
    BY <2>1, <2>2 DEF CountInv, CallInv, SchedInv, NoneLost
<1> QED
  BY <1>1, CountInvariant, PTL

\* rust_future_free returns with every continuation called, but for those that another
\* thread has taken out under the scheduler's lock and is inside the library to call.
OutstandingElsewhere ==
    At(Caller, "done") =>
        \A c \in issued :
            \/ calls[c] = 1
            \/ calls[c] = 0 /\ \E t \in Threads \ {Caller} : InCall(t) /\ Holds(t, c)

\* What is true of "after rust_future_free no continuation is outstanding", which
\* FreeCallsOutstanding refutes: the exception is a callback that a thread in wake() or
\* cancel() already holds.
THEOREM FreeLeavesToOthers == Spec => []OutstandingElsewhere
<1>1. CountInv /\ Owing => OutstandingElsewhere
  <2> SUFFICES ASSUME CountInv, Owing, pc[Caller] = "done", NEW c \in issued, calls[c] # 1
               PROVE  calls[c] = 0 /\ \E t \in Threads \ {Caller} : InCall(t) /\ Holds(t, c)
    BY DEF OutstandingElsewhere
  <2>1. stored = {} /\ c \in Callbacks
    BY DEF CountInv, CallInv, CallerLeaves, SchedInv, SchedTypeOK
  <2>2. PICK t \in Threads : Holds(t, c)
    BY <2>1 DEF CountInv, CallInv, SchedInv, NoneLost
  <2>3. ~Idle(t)
    BY <2>2 DEF Idle, Holds
  <2>4. InCall(t)
    BY <2>3, OutsideIdle DEF CountInv, CallInv
  <2>5. t # Caller
    BY <2>3 DEF Owing
  <2>6. calls[c] = 0
    BY <2>1, <2>2 DEF CountInv, CallInv, SchedInv, HeldByOne
  <2> QED
    BY <2>2, <2>4, <2>5, <2>6
<1> QED
  BY <1>1, OwedFromInside, CountInvariant, PTL

\* Nothing of the call is left when rust_future_free has returned: neither the async fn,
\* nor a result, nor a waker in a channel that only the call kept.
FreedOfEverything ==
    At(Caller, "done") =>
        /\ ~future /\ result = "None"
        /\ \A e \in slot : ~At(e, "done") /\ e \notin fired
        /\ IsCancelled /\ stored = {}

\* What is true of "rust_future_cancel drops the Rust future", which CancelDropsFuture
\* refutes: free() drops it, whoever else still refers to the RustFuture.
THEOREM FreeDropsEverything == Spec => []FreedOfEverything
<1> DEFINE Taken == pc[Caller] = "done" => result = "None"
<1>1. Init => Taken
  BY DEF Init
<1>2. TypeOK /\ Taken /\ [Next]_vars => Taken'
  <2> SUFFICES ASSUME TypeOK, Taken, [Next]_vars PROVE Taken'
    OBVIOUS
  <2>a. pc \in [Threads -> CallerPcs \cup EventPcs \cup CancellerPcs]
    BY DEF TypeOK
  <2>1. CASE OthersNext
    BY <2>1, OthersKeep
  <2>2. ASSUME NEW e \in Events, PollReceiver(e) PROVE Taken'
    BY <2>2 DEF PollReceiver
  <2>3. ASSUME NEW r \in {"Ok", "Err"}, InnerReady(r) PROVE Taken'
    BY <2>a, <2>3 DEF InnerReady
  <2>4. CASE \/ PollBegin \/ CheckCancelled \/ LockFuture \/ InnerPending
             \/ PollAnswer \/ PollStore \/ PollReturn \/ Resume \/ Interrupt
             \/ Complete \/ FreeCancel
    BY <2>a, <2>4 DEF PollBegin, CheckCancelled, LockFuture, InnerPending, PollAnswer,
       PollStore, PollReturn, Resume, Interrupt, Complete, FreeCancel
  <2>5. CASE FreeDrop
    BY <2>5 DEF FreeDrop
  <2>6. ASSUME NEW t \in Threads, Callback(t) PROVE Taken'
    BY <2>6 DEF Callback, futureVars
  <2>7. CASE UNCHANGED vars
    BY <2>7 DEF vars, futureVars
  <2> QED
    BY <2>1, <2>2, <2>3, <2>4, <2>5, <2>6, <2>7, NextCases
<1>3. CountInv /\ Taken => FreedOfEverything
  BY DEF FreedOfEverything, CountInv, CallInv, CallerLeaves, WakersHeld, SchedInv,
         SchedTypeOK, IsCancelled
<1> QED
  BY <1>1, <1>2, <1>3, TypeCorrect, CountInvariant, PTL DEF Spec
=============================================================================
