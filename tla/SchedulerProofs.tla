-------------------------- MODULE SchedulerProofs --------------------------
(***************************************************************************)
(* What the scheduler guarantees for every set of threads and callbacks.   *)
(***************************************************************************)
EXTENDS Scheduler, TLAPS

\* ExactlyOnce as an inductive invariant: the places a callback can be in, in pairs.
Unissued ==
    \A c \in Callbacks \ issued :
        calls[c] = 0 /\ c \notin stored /\ \A t \in Threads : ~Holds(t, c)

StoredOnly ==
    \A c \in stored : calls[c] = 0 /\ \A t \in Threads : ~Holds(t, c)

HeldByOne ==
    \A t \in Threads, c \in Callbacks :
        Holds(t, c) => calls[c] = 0 /\ \A u \in Threads : Holds(u, c) => u = t

NoneLost ==
    \A c \in issued : c \in stored \/ calls[c] = 1 \/ \E t \in Threads : Holds(t, c)

SchedInv == SchedTypeOK /\ Unissued /\ StoredOnly /\ HeldByOne /\ NoneLost

\* The Mutex's enum and the Option that leaves each critical section stay well formed:
\* Set carries one callback and no other variant does, and a thread owes at most one
\* invocation.
THEOREM SchedTypeCorrect == SchedSpec => []SchedTypeOK
<1>1. SchedInit => SchedTypeOK
  BY DEF SchedInit, SchedTypeOK, States
<1>2. SchedTypeOK /\ [SchedNext]_schedVars => SchedTypeOK'
  <2> SUFFICES ASSUME SchedTypeOK, [SchedNext]_schedVars PROVE SchedTypeOK'
    OBVIOUS
  <2> USE DEF SchedTypeOK, States, PollCodes
  <2>1. ASSUME NEW t \in Threads, NEW cb \in Callbacks, Store(t, cb) PROVE SchedTypeOK'
    BY <2>1 DEF Store, Idle, Issue, StoreEmpty, StoreSet, StoreWaked, StoreCancelled,
                IsCancelled, Owe
  <2>2. ASSUME NEW t \in Threads, NEW cb \in Callbacks, Answer(t, cb) PROVE SchedTypeOK'
    BY <2>2 DEF Answer, Idle, Issue, Owe
  <2>3. ASSUME NEW t \in Threads, Wake(t) PROVE SchedTypeOK'
    BY <2>3 DEF Wake, Idle, WakeSet, WakeEmpty, WakeNoOp, Owe
  <2>4. ASSUME NEW t \in Threads, Cancel(t) PROVE SchedTypeOK'
    BY <2>4 DEF Cancel, Idle, Owe
  <2>5. ASSUME NEW t \in Threads, Invoke(t) PROVE SchedTypeOK'
    BY <2>5 DEF Invoke, InvokeCallback
  <2>6. CASE UNCHANGED schedVars
    BY <2>6 DEF schedVars
  <2> QED
    BY <2>1, <2>2, <2>3, <2>4, <2>5, <2>6 DEF SchedNext
<1> QED
  BY <1>1, <1>2, PTL DEF SchedSpec

-----------------------------------------------------------------------------

\* What a critical section leaves a thread to invoke, and the other threads keep.
LEMMA OweHolds ==
    ASSUME SchedTypeOK, NEW t \in Threads, NEW S \in SUBSET Callbacks,
           NEW code \in PollCodes, Owe(t, S, code)
    PROVE  \A u \in Threads, c \in Callbacks :
              Holds(u, c)' <=> IF u = t THEN c \in S ELSE Holds(u, c)
  BY DEF SchedTypeOK, Owe, Holds

\* store(): a new callback is parked or goes to the polling thread; what was parked before
\* a second poll goes to that thread too.
LEMMA StoreStep ==
    ASSUME SchedInv, NEW t \in Threads, NEW cb \in Callbacks, Store(t, cb)
    PROVE  Unissued' /\ StoredOnly' /\ HeldByOne' /\ NoneLost'
<1> USE DEF SchedInv
<1>1. /\ cb \notin issued /\ issued' = issued \cup {cb} /\ calls' = calls
      /\ \A c \in Callbacks : ~Holds(t, c)
  BY DEF Store, Issue, Idle, Holds
<1>2. calls[cb] = 0 /\ cb \notin stored /\ \A u \in Threads : ~Holds(u, cb)
  BY <1>1 DEF Unissued
<1>3. stored \in SUBSET Callbacks /\ issued \in SUBSET Callbacks
  BY DEF SchedTypeOK
<1>4. CASE StoreEmpty(t, cb)
  <2>1. stored = {} /\ stored' = {cb}
    BY <1>4 DEF StoreEmpty, SchedTypeOK
  <2>2. \A u \in Threads, c \in Callbacks : Holds(u, c)' <=> Holds(u, c)
    BY <1>4 DEF StoreEmpty, Holds
  <2> QED
    BY <1>1, <1>2, <1>3, <2>1, <2>2 DEF Unissued, StoredOnly, HeldByOne, NoneLost
<1>5. CASE StoreSet(t, cb)
  <2>1. stored' = {cb}
    BY <1>5 DEF StoreSet
  <2>2. \A u \in Threads, c \in Callbacks :
           Holds(u, c)' <=> IF u = t THEN c \in stored ELSE Holds(u, c)
    BY <1>3, <1>5, OweHolds DEF StoreSet, PollCodes
  <2> QED
    BY <1>1, <1>2, <1>3, <2>1, <2>2 DEF Unissued, StoredOnly, HeldByOne, NoneLost
<1>6. CASE StoreWaked(t, cb) \/ StoreCancelled(t, cb)
  <2>1. stored' = stored
    BY <1>6 DEF StoreWaked, StoreCancelled
  <2>2. \A u \in Threads, c \in Callbacks :
           Holds(u, c)' <=> IF u = t THEN c \in {cb} ELSE Holds(u, c)
    BY <1>6, OweHolds DEF StoreWaked, StoreCancelled, PollCodes
  <2> QED
    BY <1>1, <1>2, <1>3, <2>1, <2>2 DEF Unissued, StoredOnly, HeldByOne, NoneLost
<1> QED
  BY <1>4, <1>5, <1>6 DEF Store

\* The poll that finds the result: its callback goes to the polling thread.
LEMMA AnswerStep ==
    ASSUME SchedInv, NEW t \in Threads, NEW cb \in Callbacks, Answer(t, cb)
    PROVE  Unissued' /\ StoredOnly' /\ HeldByOne' /\ NoneLost'
<1> USE DEF SchedInv
<1>1. /\ cb \notin issued /\ issued' = issued \cup {cb}
      /\ calls' = calls /\ stored' = stored
      /\ \A c \in Callbacks : ~Holds(t, c)
  BY DEF Answer, Issue, Idle, Holds
<1>2. calls[cb] = 0 /\ cb \notin stored /\ \A u \in Threads : ~Holds(u, cb)
  BY <1>1 DEF Unissued
<1>3. \A u \in Threads, c \in Callbacks :
         Holds(u, c)' <=> IF u = t THEN c \in {cb} ELSE Holds(u, c)
  BY OweHolds DEF Answer, PollCodes
<1> QED
  BY <1>1, <1>2, <1>3 DEF Unissued, StoredOnly, HeldByOne, NoneLost, SchedTypeOK

\* wake() and cancel(): the stored callback, if it goes, goes to the calling thread.
LEMMA TakeStep ==
    ASSUME SchedInv, NEW t \in Threads, Wake(t) \/ Cancel(t)
    PROVE  Unissued' /\ StoredOnly' /\ HeldByOne' /\ NoneLost'
<1> USE DEF SchedInv
<1>1. /\ issued' = issued /\ calls' = calls
      /\ \A c \in Callbacks : ~Holds(t, c)
  BY DEF Wake, Cancel, Idle, Holds
<1>2. stored \in SUBSET Callbacks /\ issued \in SUBSET Callbacks
  BY DEF SchedTypeOK
<1>3. CASE WakeSet(t) \/ Cancel(t)
  <2>1. stored' = {}
    BY <1>3 DEF WakeSet, Cancel
  <2>2. \A u \in Threads, c \in Callbacks :
           Holds(u, c)' <=> IF u = t THEN c \in stored ELSE Holds(u, c)
    BY <1>2, <1>3, OweHolds DEF WakeSet, Cancel, PollCodes
  <2> QED
    BY <1>1, <1>2, <2>1, <2>2 DEF Unissued, StoredOnly, HeldByOne, NoneLost
<1>4. CASE WakeEmpty(t) \/ WakeNoOp(t)
  <2>1. stored' = stored /\ toInvoke' = toInvoke
    BY <1>4 DEF WakeEmpty, WakeNoOp
  <2> QED
    BY <1>1, <2>1 DEF Unissued, StoredOnly, HeldByOne, NoneLost, Holds
<1> QED
  BY <1>3, <1>4 DEF Wake

\* The invocation after the unlock: the only step that counts a call.
LEMMA InvokeStep ==
    ASSUME SchedInv, NEW t \in Threads, Invoke(t)
    PROVE  Unissued' /\ StoredOnly' /\ HeldByOne' /\ NoneLost'
<1> USE DEF SchedInv
<1>1. PICK cb \in Callbacks, code \in PollCodes : InvokeCallback(t, cb, code)
  BY DEF Invoke
<1>2. /\ Holds(t, cb) /\ calls[cb] = 0 /\ cb \notin stored /\ cb \in issued
      /\ stored' = stored /\ issued' = issued
  BY <1>1 DEF InvokeCallback, Holds, HeldByOne, StoredOnly, Unissued
<1>3. \A c \in Callbacks : Holds(t, c) => c = cb
  BY <1>1 DEF InvokeCallback, Holds, SchedTypeOK
<1>4. \A u \in Threads, c \in Callbacks : Holds(u, c)' <=> u # t /\ Holds(u, c)
  BY <1>1 DEF InvokeCallback, Holds, SchedTypeOK
<1>5. /\ calls'[cb] = 1
      /\ \A c \in Callbacks : c # cb => calls'[c] = calls[c]
  BY <1>1, <1>2 DEF InvokeCallback, SchedTypeOK
<1> QED
  BY <1>2, <1>3, <1>4, <1>5 DEF Unissued, StoredOnly, HeldByOne, NoneLost, SchedTypeOK

THEOREM SchedInvariant == SchedSpec => []SchedInv
<1>1. SchedInit => Unissued /\ StoredOnly /\ HeldByOne /\ NoneLost
  BY DEF SchedInit, Unissued, StoredOnly, HeldByOne, NoneLost, Holds
<1>2. SchedInv /\ [SchedNext]_schedVars => Unissued' /\ StoredOnly' /\ HeldByOne' /\ NoneLost'
  <2> SUFFICES ASSUME SchedInv, [SchedNext]_schedVars
               PROVE  Unissued' /\ StoredOnly' /\ HeldByOne' /\ NoneLost'
    OBVIOUS
  <2>1. CASE SchedNext
    BY <2>1, StoreStep, AnswerStep, TakeStep, InvokeStep DEF SchedNext
  <2>2. CASE UNCHANGED schedVars
    BY <2>2 DEF schedVars, SchedInv, Unissued, StoredOnly, HeldByOne, NoneLost, Holds
  <2> QED
    BY <2>1, <2>2
<1> QED
  BY <1>1, <1>2, SchedTypeCorrect, PTL DEF SchedSpec, SchedInv

\* "Each callback will be invoked exactly once": whatever the threads do, two concurrent
\* polls included, a callback is never lost, never in two hands and never called twice.
THEOREM CallbacksExactlyOnce == SchedSpec => []ExactlyOnce
<1>1. SchedInv => ExactlyOnce
  <2> SUFFICES ASSUME SchedInv PROVE ExactlyOnce
    OBVIOUS
  <2> USE DEF ExactlyOnce
  <2> TAKE c \in Callbacks
  <2> DEFINE holders == {t \in Threads : Holds(t, c)}
  <2>1. CASE c \notin issued
    BY <2>1 DEF SchedInv, Unissued
  <2>2. CASE c \in stored
    <3>1. calls[c] = 0 /\ holders = {}
      BY <2>2 DEF SchedInv, StoredOnly
    <3> QED
      BY <2>1, <2>2, <3>1
  <2>3. CASE c \in issued \ stored
    <3>1. \/ calls[c] = 1 /\ holders = {}
          \/ calls[c] = 0 /\ \E t \in Threads : holders = {t}
      BY <2>3 DEF SchedInv, HeldByOne, NoneLost
    <3> QED
      BY <2>3, <3>1
  <2> QED
    BY <2>1, <2>2, <2>3
<1> QED
  BY <1>1, SchedInvariant, PTL

\* A wake() that met no callback is remembered until a callback or cancel() comes.
THEOREM WakesRemembered == SchedSpec => WakeRemembered
<1>1. SchedInv /\ [SchedNext]_schedVars =>
        (state = "Waked" /\ state' # "Waked" =>
          \/ state' = "Cancelled"
          \/ \E t \in Threads, c \in issued' \ issued : <<c, "Wake">> \in toInvoke'[t])
  <2> SUFFICES ASSUME SchedInv, [SchedNext]_schedVars, state = "Waked", state' # "Waked"
               PROVE  \/ state' = "Cancelled"
                      \/ \E t \in Threads, c \in issued' \ issued :
                            <<c, "Wake">> \in toInvoke'[t]
    OBVIOUS
  <2>1. ASSUME NEW t \in Threads, NEW cb \in Callbacks, Store(t, cb)
        PROVE  cb \in issued' \ issued /\ <<cb, "Wake">> \in toInvoke'[t]
    BY <2>1 DEF Store, Issue, StoreEmpty, StoreSet, StoreWaked, StoreCancelled,
                IsCancelled, Owe, SchedInv, SchedTypeOK
  <2>2. ASSUME NEW t \in Threads, Cancel(t) PROVE state' = "Cancelled"
    BY <2>2 DEF Cancel
  <2>3. ASSUME NEW t \in Threads, NEW cb \in Callbacks, Answer(t, cb) PROVE state' = state
    BY <2>3 DEF Answer
  <2>4. ASSUME NEW t \in Threads, Wake(t) \/ Invoke(t) PROVE state' = state
    BY <2>4 DEF Wake, WakeSet, WakeEmpty, WakeNoOp, Invoke, InvokeCallback
  <2> QED
    BY <2>1, <2>2, <2>3, <2>4 DEF SchedNext, schedVars
<1> QED
  BY <1>1, SchedInvariant, PTL DEF SchedSpec, WakeRemembered

\* cancel() is final and leaves nothing parked, now or later.
THEOREM CancellationFinal == SchedSpec => CancelIsFinal
<1>1. SchedInv /\ [SchedNext]_schedVars =>
        (state = "Cancelled" => state' = "Cancelled" /\ stored' = {})
  BY DEF SchedInv, SchedTypeOK, SchedNext, schedVars, Store, StoreEmpty, StoreSet,
         StoreWaked, StoreCancelled, Answer, Wake, WakeSet, WakeEmpty, WakeNoOp,
         Cancel, Invoke, InvokeCallback
<1> QED
  BY <1>1, SchedInvariant, PTL DEF SchedSpec, CancelIsFinal

\* Once cancel() has been called and every thread has made the invocation it owes, no
\* callback is outstanding: the safety part of CancelFlushes.
CancelledIsSettled ==
    IsCancelled /\ (\A t \in Threads : Idle(t)) => \A c \in issued : calls[c] = 1

\* A cancelled scheduler leaves nobody waiting: what is issued and not yet called is about
\* to be invoked by a thread, whoever goes on to poll.
THEOREM CancellationSettles == SchedSpec => []CancelledIsSettled
<1>1. SchedInv => CancelledIsSettled
  <2> SUFFICES ASSUME SchedInv, IsCancelled, \A t \in Threads : Idle(t), NEW c \in issued
               PROVE  calls[c] = 1
    BY DEF CancelledIsSettled
  <2>1. stored = {}
    BY DEF SchedInv, SchedTypeOK, IsCancelled
  <2>2. \A t \in Threads : ~Holds(t, c)
    BY DEF Idle, Holds
  <2> QED
    BY <2>1, <2>2 DEF SchedInv, NoneLost
<1> QED
  BY <1>1, SchedInvariant, PTL
=============================================================================
