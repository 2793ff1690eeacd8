------------------------ MODULE KotlinObjectProofs ------------------------
(***************************************************************************)
(* The life of a Rust object behind Kotlin wrappers, for any finite sets   *)
(* of wrappers and threads.                                                *)
(***************************************************************************)
EXTENDS KotlinObject, FiniteSetTheorems, TLAPS

USE WrapperAssumption DEF RefTypes, WrapperTypes, ThreadTypes

InBlock == {"clone", "lower", "pass", "rust", "finally"}

\* What a thread at a location knows of its wrappers.
ThreadOrder ==
    \A t \in Threads :
       /\ pc[t] \in {"load", "cas", "clone", "finally", "clean"} => self[t] \in created
       /\ pc[t] \in {"lower", "pass", "rust"} =>
             /\ self[t] \in created \cup {NoWrapper}
             /\ self[t] # NoWrapper \/ arg[t] # NoWrapper
       /\ pc[t] \in {"load", "cas", "clone", "lower"} => arg[t] \in created \cup {NoWrapper}
       /\ pc[t] = "cas" => c[t] > 0 /\ c[t] < MaxCount

\* Which handles a thread carries.
CarriedWhere ==
    \A t \in Threads :
       /\ <<t, "self">> \in carried <=> pc[t] \in {"lower", "pass", "rust"} /\ self[t] # NoWrapper
       /\ <<t, "arg">> \in carried <=> pc[t] \in {"pass", "rust"} /\ arg[t] # NoWrapper
       /\ <<t, "return">> \in carried <=> fresh[t] # NoWrapper

\* A returned handle is lifted once, into a wrapper of its own.
FreshNew ==
    \A t \in Threads :
       /\ fresh[t] # NoWrapper => pc[t] \in {"finally", "clean", "lift"} /\ fresh[t] \notin created
       /\ pc[t] = "lift" => fresh[t] # NoWrapper
       /\ \A u \in Threads : fresh[t] = fresh[u] /\ fresh[t] # NoWrapper => t = u

\* The counter is the initial 1, until destroy has taken it over, and one for each thread
\* in the block.
CounterCounts ==
    \A w \in Wrappers :
       callCounter[w] = Cardinality(Counted(w)) + (IF w \in wasDestroyed THEN 0 ELSE 1)

\* One thread cleans a destroyed wrapper, and nobody is in a call of it.
OneCleaner ==
    \A t \in Threads : pc[t] = "clean" =>
       /\ self[t] \in wasDestroyed \ cleaned
       /\ Counted(self[t]) = {}
       /\ \A u \in Threads : pc[u] = "clean" /\ self[u] = self[t] => u = t

\* A wrapper that the collector has cleaned is not in anybody's hands.
CollectedUnused ==
    \A w \in cleaned \ wasDestroyed : w \notin reachable /\ ~InUse(w)

KotlinInv ==
    /\ KotlinTypeOK
    /\ ThreadOrder
    /\ CarriedWhere
    /\ FreshNew
    /\ CounterCounts
    /\ OneCleaner
    /\ FreedAfterCalls
    /\ CollectedUnused
    /\ OwnersCounted

\* A destroyed wrapper that is not cleaned yet has somebody who will find the counter at zero.
CleanerExpected ==
    \A w \in wasDestroyed \ cleaned :
       \E t \in Threads : self[t] = w /\ pc[t] \in InBlock \cup {"clean"}

\* An argument is alive until its handle has been cloned.
ArgumentsAlive ==
    \A t \in Threads :
       pc[t] \in {"load", "cas", "clone", "lower"} => arg[t] \notin wasDestroyed \cup cleaned

-----------------------------------------------------------------------------
(* Cardinalities *)

\* The sets that are counted are finite.
LEMMA TokensFinite == IsFiniteSet(Tokens)
<1>1. IsFiniteSet({} \cup {"self"})
  BY FS_EmptySet, FS_AddElement
<1>2. IsFiniteSet({} \cup {"self"} \cup {"arg"})
  BY <1>1, FS_AddElement
<1>3. IsFiniteSet({} \cup {"self"} \cup {"arg"} \cup {"return"})
  BY <1>2, FS_AddElement
<1>4. {} \cup {"self"} \cup {"arg"} \cup {"return"} = {"self", "arg", "return"}
  OBVIOUS
<1> QED
  BY <1>3, <1>4, FS_Product DEF Tokens

\* So they have cardinalities to calculate with.
LEMMA CountedFinite ==
    ASSUME KotlinTypeOK
    PROVE  /\ IsFiniteSet(created \ cleaned) /\ Cardinality(created \ cleaned) \in Nat
           /\ IsFiniteSet(carried) /\ Cardinality(carried) \in Nat
           /\ \A w \in Wrappers : IsFiniteSet(Counted(w)) /\ Cardinality(Counted(w)) \in Nat
<1>1. IsFiniteSet(carried) /\ IsFiniteSet(created \ cleaned)
  BY TokensFinite, FS_Subset DEF KotlinTypeOK
<1>2. \A w \in Wrappers : IsFiniteSet(Counted(w))
  <2> TAKE w \in Wrappers
  <2>1. Counted(w) \in SUBSET Threads
    BY DEF Counted
  <2> QED
    BY <2>1, FS_Subset
<1> QED
  BY <1>1, <1>2, FS_CardinalityType

\* A set that gains an element has one more, whatever the set is called afterwards.
LEMMA OneMore ==
    ASSUME NEW S, IsFiniteSet(S), NEW x, x \notin S, NEW T, T = S \cup {x}
    PROVE  Cardinality(T) = Cardinality(S) + 1
<1>1. Cardinality(S \cup {x}) = Cardinality(S) + 1
  BY FS_AddElement
<1> QED
  BY <1>1

\* A set that loses an element has one fewer.
LEMMA OneFewer ==
    ASSUME NEW S, IsFiniteSet(S), NEW x, x \in S, NEW T, T = S \ {x}
    PROVE  Cardinality(T) = Cardinality(S) - 1
<1>1. Cardinality(S \ {x}) = Cardinality(S) - 1
  BY FS_RemoveElement
<1> QED
  BY <1>1

\* Every change of the Arc count is a change of its owners.
LEMMA OwnersStep == ASSUME KotlinInv, [Next]_vars PROVE OwnersCounted'
<1> USE DEF KotlinInv, OwnersCounted, refVars, wrapperVars, threadVars
<1> DEFINE held == created \ cleaned
<1>0. /\ IsFiniteSet(held) /\ Cardinality(held) \in Nat
      /\ IsFiniteSet(carried) /\ Cardinality(carried) \in Nat
      /\ strong \in Nat /\ rustRefs \in Nat /\ lost \in Nat
  BY CountedFinite DEF KotlinTypeOK
<1>1. ASSUME UNCHANGED <<strong, rustRefs, lost, carried, created, cleaned>>
      PROVE  OwnersCounted'
  BY <1>1
<1>2. ASSUME NEW w \in Wrappers, w \in held, RunClean(w),
             UNCHANGED <<rustRefs, lost, carried, created>>
      PROVE  OwnersCounted'
  <2>1. created' \ cleaned' = held \ {w}
    BY <1>2 DEF RunClean
  <2>2. Cardinality(created' \ cleaned') = Cardinality(held) - 1
    BY <1>0, <1>2, <2>1, OneFewer
  <2> QED
    BY <1>0, <1>2, <2>2 DEF RunClean
<1>3. ASSUME NEW t \in Threads, Clean(t) PROVE OwnersCounted'
  <2>1. self[t] \in held
    BY <1>3 DEF Clean, ThreadOrder, OneCleaner
  <2> QED
    BY <1>2, <1>3, <2>1 DEF Clean, KotlinTypeOK
<1>4. ASSUME NEW w \in Wrappers, Collect(w) PROVE OwnersCounted'
  BY <1>2, <1>4 DEF Collect
<1>5. ASSUME NEW token, token \notin carried, carried' = carried \cup {token},
             strong' = strong + 1, UNCHANGED <<rustRefs, lost, created, cleaned>>
      PROVE  OwnersCounted'
  <2>1. Cardinality(carried \cup {token}) = Cardinality(carried) + 1
    BY <1>0, <1>5, FS_AddElement
  <2> QED
    BY <1>0, <1>5, <2>1
<1>6. ASSUME NEW t \in Threads, CloneHandle(t) PROVE OwnersCounted'
  <2>1. <<t, "self">> \notin carried
    BY <1>6 DEF CloneHandle, CarriedWhere
  <2> QED
    BY <1>5, <1>6, <2>1 DEF CloneHandle
<1>7. ASSUME NEW t \in Threads, LowerArgument(t) PROVE OwnersCounted'
  <2>1. <<t, "arg">> \notin carried
    BY <1>7 DEF LowerArgument, CarriedWhere
  <2>2. UNCHANGED <<rustRefs, lost, created, cleaned>>
    BY <1>7 DEF LowerArgument
  <2> QED
    BY <1>5, <1>7, <2>1, <2>2 DEF LowerArgument
<1>8. ASSUME NEW t \in Threads, LoweringFails(t) PROVE OwnersCounted'
  <2> DEFINE n == Cardinality(carried \cap Passed(t))
  <2>1. /\ n \in Nat /\ IsFiniteSet(carried \ Passed(t))
        /\ Cardinality(carried \ Passed(t)) = Cardinality(carried) - n
    BY <1>0, FS_Difference, FS_Intersection, FS_CardinalityType
  <2>2. /\ lost' = lost + n /\ carried' = carried \ Passed(t)
        /\ UNCHANGED <<strong, rustRefs, created, cleaned>>
    BY <1>8 DEF LoweringFails
  <2> HIDE DEF n
  <2> QED
    BY <1>0, <2>1, <2>2
<1>9. ASSUME NEW t \in Threads, LiftFails(t) PROVE OwnersCounted'
  <2> DEFINE rest == carried \ {<<t, "arg">>}
  <2>1. /\ IsFiniteSet(rest)
      /\ Cardinality(rest) = Cardinality(carried) - Cardinality(carried \cap {<<t, "arg">>})
    BY <1>0, FS_Difference
  <2>2. Cardinality(rest \ {<<t, "self">>}) =
         Cardinality(rest) - Cardinality(rest \cap {<<t, "self">>})
    BY <2>1, FS_Difference
  <2>3. /\ rest \ {<<t, "self">>} = carried \ Passed(t)
        /\ rest \cap {<<t, "self">>} = carried \cap {<<t, "self">>}
    BY DEF Passed
  <2>4. /\ Cardinality(carried \cap {<<t, "arg">>}) \in Nat
        /\ Cardinality(carried \cap {<<t, "self">>}) \in Nat
    BY <1>0, FS_Intersection, FS_CardinalityType
  <2>5. Cardinality(carried') = Cardinality(carried) - Cardinality(carried \cap {<<t, "arg">>})
                                 - Cardinality(carried \cap {<<t, "self">>})
    BY <1>9, <2>1, <2>2, <2>3 DEF LiftFails
  <2>6. UNCHANGED <<rustRefs, created, cleaned>>
    BY <1>9 DEF LiftFails
  <2> QED
    BY <1>0, <1>9, <2>4, <2>5, <2>6 DEF LiftFails
<1>10. ASSUME NEW t \in Threads
       PROVE  /\ IsFiniteSet(carried \ Passed(t))
              /\ Cardinality(carried \cap Passed(t)) \in Nat
              /\ Cardinality(carried \ Passed(t))
                    = Cardinality(carried) - Cardinality(carried \cap Passed(t))
  BY <1>0, FS_Difference, FS_Intersection, FS_CardinalityType
<1>11. ASSUME NEW t \in Threads, Return(t) \/ ReturnFuture(t) PROVE OwnersCounted'
  <2> DEFINE n == Cardinality(carried \cap Passed(t))
  <2>1. carried' = carried \ Passed(t) /\ UNCHANGED <<lost, created, cleaned>>
    BY <1>11 DEF Return, ReturnFuture
  <2>2. \/ strong' = strong - n /\ rustRefs' = rustRefs
        \/ strong' = strong /\ rustRefs' = rustRefs + n
    BY <1>11 DEF Return, ReturnFuture
  <2>3. n \in Nat /\ Cardinality(carried') = Cardinality(carried) - n
    BY <1>10, <2>1
  <2>4. Cardinality(created' \ cleaned') = Cardinality(held) /\ lost' = lost
    BY <2>1
  <2> HIDE DEF n
  <2> QED
    BY <1>0, <2>2, <2>3, <2>4
<1>12. ASSUME NEW t \in Threads, NEW w \in Wrappers, ReturnObject(t, w) PROVE OwnersCounted'
  <2> DEFINE n == Cardinality(carried \cap Passed(t))
  <2>1. <<t, "return">> \notin carried \ Passed(t)
    BY <1>12 DEF ReturnObject, CarriedWhere, FreshNew
  <2>2. Cardinality(carried') = Cardinality(carried \ Passed(t)) + 1
    BY <1>10, <1>12, <2>1, FS_AddElement DEF ReturnObject
  <2>3. /\ strong' = strong - n + 1
        /\ UNCHANGED <<rustRefs, lost, created, cleaned>>
    BY <1>12 DEF ReturnObject
  <2>4. /\ Cardinality(created' \ cleaned') = Cardinality(held)
        /\ n \in Nat /\ Cardinality(carried \ Passed(t)) = Cardinality(carried) - n
    BY <1>10, <2>3
  <2> HIDE DEF n
  <2> QED
    BY <1>0, <2>2, <2>3, <2>4
<1>13. ASSUME NEW t \in Threads, Keep(t) PROVE OwnersCounted'
  BY <1>0, <1>13 DEF Keep
<1>14. ASSUME NEW t \in Threads, Lift(t) PROVE OwnersCounted'
  <2>1. fresh[t] \notin created /\ <<t, "return">> \in carried
    BY <1>14 DEF Lift, FreshNew, CarriedWhere
  <2>2. created' \ cleaned' = held \cup {fresh[t]}
    BY <1>14, <2>1 DEF Lift, KotlinTypeOK
  <2>3. Cardinality(created' \ cleaned') = Cardinality(held) + 1
    BY <1>0, <2>1, <2>2, FS_AddElement
  <2>4. Cardinality(carried') = Cardinality(carried) - 1
    BY <1>0, <1>14, <2>1, FS_RemoveElement DEF Lift
  <2>5. UNCHANGED <<strong, rustRefs, lost>>
    BY <1>14 DEF Lift
  <2> QED
    BY <1>0, <2>3, <2>4, <2>5
<1>15. CASE UNCHANGED vars
  BY <1>15 DEF vars
<1>16. ASSUME RustDrops PROVE OwnersCounted'
  BY <1>0, <1>16 DEF RustDrops
<1>17. ASSUME NEW t \in Threads, ThreadRuns(t) PROVE OwnersCounted'
  <2>1. CASE Decrement(t) \/ LoadCounter(t) \/ CompareAndSet(t) \/ LiftArguments(t)
    BY <1>1, <2>1 DEF Decrement, LoadCounter, CompareAndSet, LiftArguments
  <2> QED
    BY <1>3, <1>6, <1>7, <1>8, <1>9, <1>11, <1>12, <1>14, <1>17, <2>1 DEF ThreadRuns
<1>18. ASSUME NEW t \in Threads, NEW w \in Wrappers, NEW a \in Wrappers \cup {NoWrapper},
              Destroy(t, w) \/ CallFunction(t, w) \/ CallMethod(t, w, a)
       PROVE  OwnersCounted'
  BY <1>1, <1>18 DEF Destroy, CallMethod, CallFunction
<1>19. ASSUME NEW w \in Wrappers, Forget(w) PROVE OwnersCounted'
  BY <1>1, <1>19 DEF Forget
<1> QED
  BY <1>4, <1>13, <1>15, <1>16, <1>17, <1>18, <1>19 DEF Next

-----------------------------------------------------------------------------
(* The call counter *)

\* Entering and leaving the block changes the count of one wrapper by one thread.
LEMMA CounterStep == ASSUME KotlinInv, [Next]_vars PROVE CounterCounts'
<1> USE DEF KotlinInv, CounterCounts, refVars, wrapperVars, threadVars
<1>0. \A w \in Wrappers : /\ IsFiniteSet(Counted(w)) /\ Cardinality(Counted(w)) \in Nat
                          /\ callCounter[w] \in Nat
  BY CountedFinite DEF KotlinTypeOK
<1>1. ASSUME \A v \in Wrappers : Counted(v)' = Counted(v),
             UNCHANGED <<callCounter, wasDestroyed>>
      PROVE  CounterCounts'
  BY <1>1
<1>2. ASSUME \A v \in Wrappers, u \in Threads :
                (self[u] = v /\ pc[u] \in InBlock)' <=> (self[u] = v /\ pc[u] \in InBlock),
             UNCHANGED <<callCounter, wasDestroyed>>
      PROVE  CounterCounts'
  <2>1. \A v \in Wrappers : Counted(v)' = Counted(v)
    BY <1>2, Zenon DEF Counted, InBlock
  <2> QED
    BY <1>1, <1>2, <2>1
<1>3. ASSUME NEW t \in Threads, NEW w \in Wrappers, NEW a \in Wrappers \cup {NoWrapper},
             CallMethod(t, w, a) \/ CallFunction(t, w)
      PROVE  CounterCounts'
  BY <1>2, <1>3 DEF CallMethod, CallFunction, KotlinTypeOK, Goto, InBlock
<1>9. ASSUME NEW t \in Threads, LoadCounter(t) \/ Clean(t) \/ Lift(t) \/ Keep(t)
      PROVE  CounterCounts'
  BY <1>2, <1>9 DEF LoadCounter, Clean, Lift, Keep, KotlinTypeOK, Goto, End, InBlock
<1>10. CASE \/ \E w \in Wrappers : Forget(w) \/ Collect(w)
            \/ RustDrops \/ UNCHANGED vars
  BY <1>2, <1>10 DEF Forget, Collect, RustDrops, vars
<1>4. ASSUME NEW t \in Threads,
             \/ CloneHandle(t) \/ LowerArgument(t) \/ LoweringFails(t) \/ LiftArguments(t)
             \/ LiftFails(t) \/ Return(t) \/ ReturnFuture(t)
             \/ \E w \in Wrappers : ReturnObject(t, w)
      PROVE  CounterCounts'
  BY <1>2, <1>4 DEF CloneHandle, LowerArgument, LoweringFails, LiftArguments, LiftFails, Return,
     ReturnFuture, ReturnObject, KotlinTypeOK, Goto, Leave, End, InBlock
<1>5. ASSUME NEW t \in Threads, NEW w \in Wrappers, Destroy(t, w) PROVE CounterCounts'
  <2>1. t \notin Counted(w)
    BY <1>5 DEF Destroy, Counted
  <2>2. Counted(w)' = Counted(w) \cup {t}
    BY <1>5 DEF Destroy, Counted, KotlinTypeOK, Goto
  <2>3. Cardinality(Counted(w)') = Cardinality(Counted(w)) + 1
    BY <1>0, <2>1, <2>2, OneMore
  <2>4. \A v \in Wrappers : v # w => Counted(v)' = Counted(v)
    BY <1>5 DEF Destroy, Counted, KotlinTypeOK, Goto
  <2>5. /\ callCounter' = callCounter
        /\ w \notin wasDestroyed /\ w \in wasDestroyed'
        /\ \A v \in Wrappers : v # w => (v \in wasDestroyed' <=> v \in wasDestroyed)
    BY <1>5 DEF Destroy
  <2>6. callCounter'[w] = Cardinality(Counted(w)')
    BY <1>0, <2>3, <2>5
  <2> QED
    BY <1>0, <2>4, <2>5, <2>6
<1>6. ASSUME NEW t \in Threads, CompareAndSet(t) PROVE CounterCounts'
  <2>1. CASE callCounter[self[t]] # c[t]
    BY <1>2, <1>6, <2>1 DEF CompareAndSet, KotlinTypeOK, Goto, InBlock
  <2>2. CASE callCounter[self[t]] = c[t]
    <3>1. self[t] \in Wrappers /\ t \notin Counted(self[t])
      BY <1>6 DEF CompareAndSet, ThreadOrder, KotlinTypeOK, Counted
    <3>2. Counted(self[t])' = Counted(self[t]) \cup {t}
      BY <1>6, <2>2 DEF CompareAndSet, Counted, KotlinTypeOK, Goto
    <3>3. Cardinality(Counted(self[t])') = Cardinality(Counted(self[t])) + 1
      BY <1>0, <3>1, <3>2, OneMore
    <3>4. \A v \in Wrappers : v # self[t] => Counted(v)' = Counted(v)
      BY <1>6, <2>2 DEF CompareAndSet, Counted, KotlinTypeOK, Goto
    <3>5. /\ callCounter'[self[t]] = callCounter[self[t]] + 1
          /\ \A v \in Wrappers : v # self[t] => callCounter'[v] = callCounter[v]
          /\ self' = self /\ wasDestroyed' = wasDestroyed
      BY <1>6, <2>2, <3>1 DEF CompareAndSet, KotlinTypeOK
    <3>6. callCounter'[self[t]] = Cardinality(Counted(self[t])')
            + (IF self[t] \in wasDestroyed' THEN 0 ELSE 1)
      BY <1>0, <3>1, <3>3, <3>5
    <3> QED
      BY <1>0, <3>4, <3>5, <3>6
  <2> QED
    BY <2>1, <2>2
<1>7. ASSUME NEW t \in Threads, Decrement(t) PROVE CounterCounts'
  <2>1. self[t] \in Wrappers /\ t \in Counted(self[t])
    BY <1>7 DEF Decrement, ThreadOrder, KotlinTypeOK, Counted
  <2>2. Counted(self[t])' = Counted(self[t]) \ {t}
    BY <1>7 DEF Decrement, Counted, KotlinTypeOK, Goto, End
  <2>3. Cardinality(Counted(self[t])') = Cardinality(Counted(self[t])) - 1
    BY <1>0, <2>1, <2>2, OneFewer
  <2>4. \A v \in Wrappers : v # self[t] => Counted(v)' = Counted(v)
    BY <1>7 DEF Decrement, Counted, KotlinTypeOK, Goto, End
  <2>5. /\ callCounter'[self[t]] = callCounter[self[t]] - 1
        /\ \A v \in Wrappers : v # self[t] => callCounter'[v] = callCounter[v]
        /\ self' = self /\ wasDestroyed' = wasDestroyed
    BY <1>7, <2>1 DEF Decrement, KotlinTypeOK
  <2>6. callCounter'[self[t]] = Cardinality(Counted(self[t])')
          + (IF self[t] \in wasDestroyed' THEN 0 ELSE 1)
    BY <1>0, <2>1, <2>3, <2>5
  <2> QED
    BY <1>0, <2>4, <2>5, <2>6
<1>8. ASSUME NEW t \in Threads, ThreadRuns(t) PROVE CounterCounts'
  BY <1>4, <1>6, <1>7, <1>8, <1>9 DEF ThreadRuns
<1> QED
  BY <1>3, <1>5, <1>8, <1>9, <1>10 DEF Next

-----------------------------------------------------------------------------
(* Types and places *)

\* A thread's location says what it has looked at.
LEMMA OrderStep == ASSUME KotlinTypeOK, ThreadOrder, [Next]_vars PROVE ThreadOrder'
<1> USE DEF KotlinTypeOK, ThreadOrder, refVars, wrapperVars, threadVars
<1>1. ASSUME NEW t \in Threads, NEW w \in Wrappers, Destroy(t, w) PROVE ThreadOrder'
  BY <1>1 DEF Destroy, Goto
<1>2. ASSUME NEW t \in Threads, Decrement(t) PROVE ThreadOrder'
  BY <1>2 DEF Decrement, Goto, End
<1>3. ASSUME NEW t \in Threads, Clean(t) PROVE ThreadOrder'
  BY <1>3 DEF Clean, RunClean, Goto, End
<1>4. ASSUME NEW t \in Threads, NEW w \in Wrappers, NEW a \in Wrappers \cup {NoWrapper},
              CallMethod(t, w, a)
       PROVE  ThreadOrder'
  BY <1>4 DEF CallMethod, CanPass, Goto
<1>5. ASSUME NEW t \in Threads, NEW w \in Wrappers, CallFunction(t, w) PROVE ThreadOrder'
  BY <1>5 DEF CallFunction, CanPass, Goto
<1>6. ASSUME NEW t \in Threads, LoadCounter(t) PROVE ThreadOrder'
  BY <1>6 DEF LoadCounter, Goto
<1>7. ASSUME NEW t \in Threads, CompareAndSet(t) PROVE ThreadOrder'
  BY <1>7 DEF CompareAndSet, Goto
<1>8. ASSUME NEW t \in Threads, CloneHandle(t) PROVE ThreadOrder'
  BY <1>8 DEF CloneHandle, Goto
<1>9. ASSUME NEW t \in Threads, LowerArgument(t) PROVE ThreadOrder'
  BY <1>9 DEF LowerArgument, Goto
<1>10. ASSUME NEW t \in Threads, LoweringFails(t) PROVE ThreadOrder'
  BY <1>10 DEF LoweringFails, Leave, Goto, End
<1>11. ASSUME NEW t \in Threads, LiftArguments(t) PROVE ThreadOrder'
  BY <1>11 DEF LiftArguments, Goto
<1>12. ASSUME NEW t \in Threads, LiftFails(t) PROVE ThreadOrder'
  BY <1>12 DEF LiftFails, Leave, Goto, End, Passed
<1>13. ASSUME NEW t \in Threads, Keep(t) PROVE ThreadOrder'
  BY <1>13 DEF Keep
<1>14. ASSUME NEW t \in Threads, Return(t) PROVE ThreadOrder'
  BY <1>14 DEF Return, Leave, Goto, End, Passed
<1>15. ASSUME NEW t \in Threads, NEW w \in Wrappers, ReturnObject(t, w) PROVE ThreadOrder'
  BY <1>15 DEF ReturnObject, Leave, Goto, End, Passed
<1>16. ASSUME NEW t \in Threads, ReturnFuture(t) PROVE ThreadOrder'
  BY <1>16 DEF ReturnFuture, Leave, Goto, End, Passed
<1>17. ASSUME NEW t \in Threads, Lift(t) PROVE ThreadOrder'
  BY <1>17 DEF Lift, Goto
<1>18. ASSUME NEW w \in Wrappers, Forget(w) PROVE ThreadOrder'
  BY <1>18 DEF Forget
<1>19. ASSUME NEW w \in Wrappers, Collect(w) PROVE ThreadOrder'
  BY <1>19 DEF Collect, RunClean
<1>20. CASE RustDrops \/ UNCHANGED vars
  BY <1>20 DEF RustDrops, vars
<1>21. ASSUME NEW t \in Threads, ThreadRuns(t) PROVE ThreadOrder'
  BY <1>21, <1>2, <1>3, <1>6, <1>7, <1>8, <1>9, <1>10, <1>11, <1>12, <1>14, <1>16, <1>15, <1>17
     DEF ThreadRuns
<1> QED
  BY <1>1, <1>4, <1>5, <1>13, <1>18, <1>19, <1>20, <1>21 DEF Next

\* Handles come and go with the location.
LEMMA CarriedStep ==
    ASSUME KotlinTypeOK, ThreadOrder, CarriedWhere, FreshNew, [Next]_vars
    PROVE  CarriedWhere'
<1> USE DEF KotlinTypeOK, ThreadOrder, CarriedWhere, FreshNew, refVars, wrapperVars, threadVars
<1>1. ASSUME NEW t \in Threads, NEW w \in Wrappers, Destroy(t, w) PROVE CarriedWhere'
  BY <1>1 DEF Destroy, Goto
<1>2. ASSUME NEW t \in Threads, Decrement(t) PROVE CarriedWhere'
  BY <1>2 DEF Decrement, Goto, End
<1>3. ASSUME NEW t \in Threads, Clean(t) PROVE CarriedWhere'
  BY <1>3 DEF Clean, RunClean, Goto, End
<1>4. ASSUME NEW t \in Threads, NEW w \in Wrappers, NEW a \in Wrappers \cup {NoWrapper},
              CallMethod(t, w, a)
       PROVE  CarriedWhere'
  BY <1>4 DEF CallMethod, CanPass, Goto
<1>5. ASSUME NEW t \in Threads, NEW w \in Wrappers, CallFunction(t, w) PROVE CarriedWhere'
  BY <1>5 DEF CallFunction, CanPass, Goto
<1>6. ASSUME NEW t \in Threads, LoadCounter(t) PROVE CarriedWhere'
  BY <1>6 DEF LoadCounter, Goto
<1>7. ASSUME NEW t \in Threads, CompareAndSet(t) PROVE CarriedWhere'
  <2>1. UNCHANGED <<carried, self, arg, fresh>>
    BY <1>7 DEF CompareAndSet
  <2>2. \A u \in Threads : pc'[u] # pc[u] => pc[u] = "cas" /\ pc'[u] \in {"clone", "load"}
    BY <1>7 DEF CompareAndSet, Goto
  <2> QED
    BY <2>1, <2>2
<1>8. ASSUME NEW t \in Threads, CloneHandle(t) PROVE CarriedWhere'
  BY <1>8 DEF CloneHandle, Goto
<1>9. ASSUME NEW t \in Threads, LowerArgument(t) PROVE CarriedWhere'
  <2>1. CASE arg[t] = NoWrapper
    BY <1>9, <2>1 DEF LowerArgument, Goto
  <2>2. CASE arg[t] # NoWrapper
    <3>1. /\ pc[t] = "lower" /\ pc' = [pc EXCEPT ![t] = "pass"]
          /\ carried' = carried \cup {<<t, "arg">>} /\ UNCHANGED <<self, arg, fresh>>
      BY <1>9, <2>2 DEF LowerArgument, Goto
    <3>2. \A u \in Threads, role \in {"self", "arg", "return"} :
             <<u, role>> \in carried' <=> <<u, role>> \in carried \/ (u = t /\ role = "arg")
      BY <3>1
    <3>3. \A u \in Threads : pc'[u] = IF u = t THEN "pass" ELSE pc[u]
      BY <3>1
    <3> QED
      BY <2>2, <3>1, <3>2, <3>3
  <2> QED
    BY <2>1, <2>2
<1>10. ASSUME NEW t \in Threads, LoweringFails(t) PROVE CarriedWhere'
  BY <1>10 DEF LoweringFails, Leave, Goto, End, Passed
<1>11. ASSUME NEW t \in Threads, LiftArguments(t) PROVE CarriedWhere'
  BY <1>11 DEF LiftArguments, Goto
<1>12. ASSUME NEW t \in Threads, LiftFails(t) PROVE CarriedWhere'
  BY <1>12 DEF LiftFails, Leave, Goto, End, Passed
<1>13. ASSUME NEW t \in Threads, Keep(t) PROVE CarriedWhere'
  BY <1>13 DEF Keep
<1>14. ASSUME NEW t \in Threads, Return(t) PROVE CarriedWhere'
  BY <1>14 DEF Return, Leave, Goto, End, Passed
<1>15. ASSUME NEW t \in Threads, NEW w \in Wrappers, ReturnObject(t, w) PROVE CarriedWhere'
  BY <1>15 DEF ReturnObject, Leave, Goto, End, Passed
<1>16. ASSUME NEW t \in Threads, ReturnFuture(t) PROVE CarriedWhere'
  BY <1>16 DEF ReturnFuture, Leave, Goto, End, Passed
<1>17. ASSUME NEW t \in Threads, Lift(t) PROVE CarriedWhere'
  BY <1>17 DEF Lift, Goto
<1>18. ASSUME NEW w \in Wrappers, Forget(w) PROVE CarriedWhere'
  BY <1>18 DEF Forget
<1>19. ASSUME NEW w \in Wrappers, Collect(w) PROVE CarriedWhere'
  BY <1>19 DEF Collect, RunClean
<1>20. CASE RustDrops \/ UNCHANGED vars
  BY <1>20 DEF RustDrops, vars
<1>21. ASSUME NEW t \in Threads, ThreadRuns(t) PROVE CarriedWhere'
  BY <1>21, <1>2, <1>3, <1>6, <1>7, <1>8, <1>9, <1>10, <1>11, <1>12, <1>14, <1>16, <1>15, <1>17
     DEF ThreadRuns
<1> QED
  BY <1>1, <1>4, <1>5, <1>13, <1>18, <1>19, <1>20, <1>21 DEF Next

\* A returned handle's wrapper is not taken by another.
LEMMA FreshStep == ASSUME KotlinTypeOK, FreshNew, [Next]_vars PROVE FreshNew'
<1> USE DEF KotlinTypeOK, FreshNew, refVars, wrapperVars, threadVars
<1>1. ASSUME NEW t \in Threads, NEW w \in Wrappers, Destroy(t, w) PROVE FreshNew'
  BY <1>1 DEF Destroy, Goto
<1>2. ASSUME NEW t \in Threads, Decrement(t) PROVE FreshNew'
  BY <1>2 DEF Decrement, Goto, End
<1>3. ASSUME NEW t \in Threads, Clean(t) PROVE FreshNew'
  BY <1>3 DEF Clean, RunClean, Goto, End
<1>4. ASSUME NEW t \in Threads, NEW w \in Wrappers, NEW a \in Wrappers \cup {NoWrapper},
              CallMethod(t, w, a)
       PROVE  FreshNew'
  BY <1>4 DEF CallMethod, CanPass, Goto
<1>5. ASSUME NEW t \in Threads, NEW w \in Wrappers, CallFunction(t, w) PROVE FreshNew'
  BY <1>5 DEF CallFunction, CanPass, Goto
<1>6. ASSUME NEW t \in Threads, LoadCounter(t) PROVE FreshNew'
  BY <1>6 DEF LoadCounter, Goto
<1>7. ASSUME NEW t \in Threads, CompareAndSet(t) PROVE FreshNew'
  BY <1>7 DEF CompareAndSet, Goto
<1>8. ASSUME NEW t \in Threads, CloneHandle(t) PROVE FreshNew'
  BY <1>8 DEF CloneHandle, Goto
<1>9. ASSUME NEW t \in Threads, LowerArgument(t) PROVE FreshNew'
  BY <1>9 DEF LowerArgument, Goto
<1>10. ASSUME NEW t \in Threads, LoweringFails(t) PROVE FreshNew'
  BY <1>10 DEF LoweringFails, Leave, Goto, End
<1>11. ASSUME NEW t \in Threads, LiftArguments(t) PROVE FreshNew'
  BY <1>11 DEF LiftArguments, Goto
<1>12. ASSUME NEW t \in Threads, LiftFails(t) PROVE FreshNew'
  BY <1>12 DEF LiftFails, Leave, Goto, End, Passed
<1>13. ASSUME NEW t \in Threads, Keep(t) PROVE FreshNew'
  BY <1>13 DEF Keep
<1>14. ASSUME NEW t \in Threads, Return(t) PROVE FreshNew'
  BY <1>14 DEF Return, Leave, Goto, End, Passed
<1>15. ASSUME NEW t \in Threads, NEW w \in Wrappers, ReturnObject(t, w) PROVE FreshNew'
  BY <1>15 DEF ReturnObject, Leave, Goto, End, Passed
<1>16. ASSUME NEW t \in Threads, ReturnFuture(t) PROVE FreshNew'
  BY <1>16 DEF ReturnFuture, Leave, Goto, End, Passed
<1>17. ASSUME NEW t \in Threads, Lift(t) PROVE FreshNew'
  BY <1>17 DEF Lift, Goto
<1>18. ASSUME NEW w \in Wrappers, Forget(w) PROVE FreshNew'
  BY <1>18 DEF Forget
<1>19. ASSUME NEW w \in Wrappers, Collect(w) PROVE FreshNew'
  BY <1>19 DEF Collect, RunClean
<1>20. CASE RustDrops \/ UNCHANGED vars
  BY <1>20 DEF RustDrops, vars
<1>21. ASSUME NEW t \in Threads, ThreadRuns(t) PROVE FreshNew'
  BY <1>21, <1>2, <1>3, <1>6, <1>7, <1>8, <1>9, <1>10, <1>11, <1>12, <1>14, <1>16, <1>15, <1>17
     DEF ThreadRuns
<1> QED
  BY <1>1, <1>4, <1>5, <1>13, <1>18, <1>19, <1>20, <1>21 DEF Next

\* The wrappers and the threads keep their types: the counter stays between its limits.
LEMMA PlacesStep ==
    ASSUME KotlinInv, [Next]_vars
    PROVE  (WrapperTypes /\ ThreadTypes)'
<1> USE DEF KotlinInv, KotlinTypeOK, ThreadOrder, refVars, wrapperVars, threadVars
<1>1. ASSUME NEW t \in Threads, NEW w \in Wrappers,
              Destroy(t, w)
       PROVE  (WrapperTypes /\ ThreadTypes)'
  BY <1>1 DEF Destroy, Goto
<1>2. ASSUME NEW t \in Threads, Decrement(t) PROVE (WrapperTypes /\ ThreadTypes)'
  <2>1. self[t] \in Wrappers /\ t \in Counted(self[t])
    BY <1>2 DEF Decrement, ThreadOrder, Counted
  <2>2. Cardinality(Counted(self[t])) # 0 /\ Cardinality(Counted(self[t])) \in Nat
    BY <2>1, CountedFinite, FS_EmptySet
  <2>3. callCounter[self[t]] > 0
    BY <2>1, <2>2 DEF CounterCounts
  <2>4. callCounter' \in [Wrappers -> 0..MaxCount]
    BY <1>2, <2>1, <2>3 DEF Decrement
  <2> QED
    BY <1>2, <2>4 DEF Decrement, Goto, End
<1>3. ASSUME NEW t \in Threads, Clean(t) PROVE (WrapperTypes /\ ThreadTypes)'
  BY <1>3 DEF Clean, RunClean, Goto, End
<1>4. ASSUME NEW t \in Threads, NEW w \in Wrappers, NEW a \in Wrappers \cup {NoWrapper},
              CallMethod(t, w, a)
       PROVE  (WrapperTypes /\ ThreadTypes)'
  BY <1>4 DEF CallMethod, CanPass, Goto
<1>5. ASSUME NEW t \in Threads, NEW w \in Wrappers,
              CallFunction(t, w)
       PROVE  (WrapperTypes /\ ThreadTypes)'
  BY <1>5 DEF CallFunction, CanPass, Goto
<1>6. ASSUME NEW t \in Threads, LoadCounter(t) PROVE (WrapperTypes /\ ThreadTypes)'
  BY <1>6 DEF LoadCounter, Goto
<1>7. ASSUME NEW t \in Threads, CompareAndSet(t) PROVE (WrapperTypes /\ ThreadTypes)'
  <2>1. callCounter' \in [Wrappers -> 0..MaxCount]
    BY <1>7 DEF CompareAndSet, ThreadOrder
  <2> QED
    BY <1>7, <2>1 DEF CompareAndSet, Goto
<1>8. ASSUME NEW t \in Threads, CloneHandle(t) PROVE (WrapperTypes /\ ThreadTypes)'
  BY <1>8 DEF CloneHandle, Goto
<1>9. ASSUME NEW t \in Threads, LowerArgument(t) PROVE (WrapperTypes /\ ThreadTypes)'
  BY <1>9 DEF LowerArgument, Goto
<1>10. ASSUME NEW t \in Threads, LoweringFails(t) PROVE (WrapperTypes /\ ThreadTypes)'
  BY <1>10 DEF LoweringFails, Leave, Goto, End
<1>11. ASSUME NEW t \in Threads, LiftArguments(t) PROVE (WrapperTypes /\ ThreadTypes)'
  BY <1>11 DEF LiftArguments, Goto
<1>12. ASSUME NEW t \in Threads, LiftFails(t) PROVE (WrapperTypes /\ ThreadTypes)'
  BY <1>12 DEF LiftFails, Leave, Goto, End, Passed
<1>13. ASSUME NEW t \in Threads, Keep(t) PROVE (WrapperTypes /\ ThreadTypes)'
  BY <1>13 DEF Keep
<1>14. ASSUME NEW t \in Threads, Return(t) PROVE (WrapperTypes /\ ThreadTypes)'
  BY <1>14 DEF Return, Leave, Goto, End, Passed
<1>15. ASSUME NEW t \in Threads, NEW w \in Wrappers,
              ReturnObject(t, w)
       PROVE  (WrapperTypes /\ ThreadTypes)'
  BY <1>15 DEF ReturnObject, Leave, Goto, End, Passed
<1>16. ASSUME NEW t \in Threads, ReturnFuture(t) PROVE (WrapperTypes /\ ThreadTypes)'
  BY <1>16 DEF ReturnFuture, Leave, Goto, End, Passed
<1>17. ASSUME NEW t \in Threads, Lift(t) PROVE (WrapperTypes /\ ThreadTypes)'
  <2>1. fresh[t] \in Wrappers
    BY <1>17 DEF Lift, FreshNew
  <2> QED
    BY <1>17, <2>1 DEF Lift, Goto
<1>18. ASSUME NEW w \in Wrappers, Forget(w) PROVE (WrapperTypes /\ ThreadTypes)'
  BY <1>18 DEF Forget
<1>19. ASSUME NEW w \in Wrappers, Collect(w) PROVE (WrapperTypes /\ ThreadTypes)'
  BY <1>19 DEF Collect, RunClean
<1>20. CASE RustDrops \/ UNCHANGED vars
  BY <1>20 DEF RustDrops, vars
<1>21. ASSUME NEW t \in Threads, ThreadRuns(t) PROVE (WrapperTypes /\ ThreadTypes)'
  BY <1>21, <1>2, <1>3, <1>6, <1>7, <1>8, <1>9, <1>10, <1>11, <1>12, <1>14, <1>15, <1>16, <1>17
     DEF ThreadRuns
<1> QED
  BY <1>1, <1>4, <1>5, <1>13, <1>18, <1>19, <1>20, <1>21 DEF Next

\* What Rust keeps and what calls lose stays within the bound.
LEMMA KeptStep ==
    ASSUME KotlinInv, [Next]_vars
    PROVE  (rustRefs \in 0..MaxRefs /\ lost \in 0..MaxLost /\ carried \in SUBSET Tokens)'
<1> USE DEF KotlinInv, KotlinTypeOK, refVars, wrapperVars, threadVars
<1>1. ASSUME NEW t \in Threads, NEW w \in Wrappers,
              Destroy(t, w)
       PROVE  (rustRefs \in 0..MaxRefs /\ lost \in 0..MaxLost /\ carried \in SUBSET Tokens)'
  BY <1>1 DEF Destroy, Goto
<1>2. ASSUME NEW t \in Threads,
              Decrement(t)
       PROVE  (rustRefs \in 0..MaxRefs /\ lost \in 0..MaxLost /\ carried \in SUBSET Tokens)'
  BY <1>2 DEF Decrement, Goto, End
<1>3. ASSUME NEW t \in Threads,
              Clean(t)
       PROVE  (rustRefs \in 0..MaxRefs /\ lost \in 0..MaxLost /\ carried \in SUBSET Tokens)'
  BY <1>3 DEF Clean, RunClean, Goto, End
<1>4. ASSUME NEW t \in Threads, NEW w \in Wrappers, NEW a \in Wrappers \cup {NoWrapper},
              CallMethod(t, w, a)
       PROVE  (rustRefs \in 0..MaxRefs /\ lost \in 0..MaxLost /\ carried \in SUBSET Tokens)'
  BY <1>4 DEF CallMethod, CanPass, Goto
<1>5. ASSUME NEW t \in Threads, NEW w \in Wrappers,
              CallFunction(t, w)
       PROVE  (rustRefs \in 0..MaxRefs /\ lost \in 0..MaxLost /\ carried \in SUBSET Tokens)'
  BY <1>5 DEF CallFunction, CanPass, Goto
<1>6. ASSUME NEW t \in Threads,
              LoadCounter(t)
       PROVE  (rustRefs \in 0..MaxRefs /\ lost \in 0..MaxLost /\ carried \in SUBSET Tokens)'
  BY <1>6 DEF LoadCounter, Goto
<1>7. ASSUME NEW t \in Threads,
              CompareAndSet(t)
       PROVE  (rustRefs \in 0..MaxRefs /\ lost \in 0..MaxLost /\ carried \in SUBSET Tokens)'
  BY <1>7 DEF CompareAndSet, Goto
<1>8. ASSUME NEW t \in Threads,
              CloneHandle(t)
       PROVE  (rustRefs \in 0..MaxRefs /\ lost \in 0..MaxLost /\ carried \in SUBSET Tokens)'
  BY <1>8 DEF CloneHandle, Tokens
<1>9. ASSUME NEW t \in Threads,
              LowerArgument(t)
       PROVE  (rustRefs \in 0..MaxRefs /\ lost \in 0..MaxLost /\ carried \in SUBSET Tokens)'
  BY <1>9 DEF LowerArgument, Tokens
<1>10. ASSUME NEW t \in Threads,
              LoweringFails(t)
       PROVE  (rustRefs \in 0..MaxRefs /\ lost \in 0..MaxLost /\ carried \in SUBSET Tokens)'
  <2>1. Cardinality(carried \cap Passed(t)) \in Nat
    BY CountedFinite, FS_Intersection, FS_CardinalityType
  <2>2. lost' \in 0..MaxLost
    BY <1>10, <2>1 DEF LoweringFails
  <2> QED
    BY <1>10, <2>2 DEF LoweringFails
<1>11. ASSUME NEW t \in Threads,
              LiftArguments(t)
       PROVE  (rustRefs \in 0..MaxRefs /\ lost \in 0..MaxLost /\ carried \in SUBSET Tokens)'
  BY <1>11 DEF LiftArguments, Goto
<1>12. ASSUME NEW t \in Threads,
              LiftFails(t)
       PROVE  (rustRefs \in 0..MaxRefs /\ lost \in 0..MaxLost /\ carried \in SUBSET Tokens)'
  <2>1. carried \cap {<<t, "arg">>} \in {{}, {<<t, "arg">>}}
    OBVIOUS
  <2>2. Cardinality(carried \cap {<<t, "arg">>}) \in {0, 1}
    BY <2>1, FS_EmptySet, FS_Singleton
  <2>3. lost' \in 0..MaxLost
    BY <1>12, <2>2 DEF LiftFails
  <2> QED
    BY <1>12, <2>3 DEF LiftFails
<1>13. ASSUME NEW t \in Threads,
              Keep(t)
       PROVE  (rustRefs \in 0..MaxRefs /\ lost \in 0..MaxLost /\ carried \in SUBSET Tokens)'
  BY <1>13 DEF Keep
<1>14. ASSUME NEW t \in Threads,
              Return(t)
       PROVE  (rustRefs \in 0..MaxRefs /\ lost \in 0..MaxLost /\ carried \in SUBSET Tokens)'
  BY <1>14 DEF Return
<1>15. ASSUME NEW t \in Threads, NEW w \in Wrappers,
              ReturnObject(t, w)
       PROVE  (rustRefs \in 0..MaxRefs /\ lost \in 0..MaxLost /\ carried \in SUBSET Tokens)'
  BY <1>15 DEF ReturnObject, Tokens
<1>16. ASSUME NEW t \in Threads,
              ReturnFuture(t)
       PROVE  (rustRefs \in 0..MaxRefs /\ lost \in 0..MaxLost /\ carried \in SUBSET Tokens)'
  <2>1. Cardinality(carried \cap Passed(t)) \in Nat
    BY CountedFinite, FS_Intersection, FS_CardinalityType
  <2> QED
    BY <1>16, <2>1 DEF ReturnFuture
<1>17. ASSUME NEW t \in Threads,
              Lift(t)
       PROVE  (rustRefs \in 0..MaxRefs /\ lost \in 0..MaxLost /\ carried \in SUBSET Tokens)'
  BY <1>17 DEF Lift, Goto
<1>18. ASSUME NEW w \in Wrappers,
              Forget(w)
       PROVE  (rustRefs \in 0..MaxRefs /\ lost \in 0..MaxLost /\ carried \in SUBSET Tokens)'
  BY <1>18 DEF Forget
<1>19. ASSUME NEW w \in Wrappers,
              Collect(w)
       PROVE  (rustRefs \in 0..MaxRefs /\ lost \in 0..MaxLost /\ carried \in SUBSET Tokens)'
  BY <1>19 DEF Collect, RunClean
<1>20. CASE RustDrops \/ UNCHANGED vars
  BY <1>20 DEF RustDrops, vars
<1>21. ASSUME NEW t \in Threads, ThreadRuns(t)
       PROVE  (rustRefs \in 0..MaxRefs /\ lost \in 0..MaxLost /\ carried \in SUBSET Tokens)'
  BY <1>21, <1>2, <1>3, <1>6, <1>7, <1>8, <1>9, <1>10, <1>11, <1>12, <1>14, <1>15, <1>16, <1>17
     DEF ThreadRuns
<1> QED
  BY <1>1, <1>4, <1>5, <1>13, <1>18, <1>19, <1>20, <1>21 DEF Next

\* The count of the owners is never negative.
LEMMA StrongStep ==
    ASSUME KotlinInv, OwnersCounted', WrapperTypes', rustRefs' \in Nat, lost' \in Nat,
           carried' \in SUBSET Tokens
    PROVE  strong' \in Nat
<1>1. IsFiniteSet(carried') /\ IsFiniteSet(created' \ cleaned')
  BY TokensFinite, FS_Subset
<1>2. Cardinality(carried') \in Nat /\ Cardinality(created' \ cleaned') \in Nat
  BY <1>1, FS_CardinalityType
<1> QED
  BY <1>2 DEF OwnersCounted

-----------------------------------------------------------------------------
(* Who frees a handle, and when *)

\* The counter of a destroyed wrapper that nobody calls is zero, so that no thread enters
\* a call of it any more.
LEMMA NoEntry ==
    ASSUME KotlinInv, NEW t \in Threads, CompareAndSet(t), callCounter[self[t]] = c[t]
    PROVE  /\ self[t] \notin cleaned
           /\ self[t] \in wasDestroyed => Counted(self[t]) # {}
<1>1. self[t] \in Wrappers /\ callCounter[self[t]] > 0
  BY DEF KotlinInv, ThreadOrder, CompareAndSet, KotlinTypeOK
<1>2. self[t] \in wasDestroyed => Counted(self[t]) # {}
  BY <1>1, FS_EmptySet DEF KotlinInv, CounterCounts
<1>3. InUse(self[t])
  BY DEF InUse, CompareAndSet
<1> QED
  BY <1>2, <1>3 DEF KotlinInv, FreedAfterCalls, CollectedUnused

\* The thread that finds the counter at zero was the last in the block.
LEMMA LastLeaves ==
    ASSUME KotlinInv, NEW t \in Threads, Decrement(t), callCounter[self[t]] = 1
    PROVE  self[t] \in wasDestroyed \ cleaned /\ Counted(self[t]) = {t}
<1> DEFINE n == Cardinality(Counted(self[t]))
<1>1. self[t] \in Wrappers /\ t \in Counted(self[t])
  BY DEF KotlinInv, ThreadOrder, Decrement, KotlinTypeOK, Counted
<1>2. IsFiniteSet(Counted(self[t])) /\ n \in Nat /\ n # 0
  BY <1>1, CountedFinite, FS_EmptySet DEF KotlinInv
<1>3. self[t] \in wasDestroyed /\ n = 1
  BY <1>1, <1>2 DEF KotlinInv, CounterCounts
<1>4. Counted(self[t]) = {t}
  BY <1>1, <1>2, <1>3, FS_Singleton
<1> QED
  BY <1>1, <1>3, <1>4 DEF KotlinInv, FreedAfterCalls

\* Who cleans a wrapper does so alone, and after the last call.
LEMMA CleanerStep ==
    ASSUME KotlinInv, [Next]_vars
    PROVE  OneCleaner'
<1> USE DEF KotlinInv, KotlinTypeOK, ThreadOrder, OneCleaner, FreedAfterCalls,
            refVars, wrapperVars, threadVars
<1>1. ASSUME NEW t \in Threads, NEW w \in Wrappers, Destroy(t, w) PROVE OneCleaner'
  BY <1>1 DEF Destroy, Goto, Counted
<1>2. ASSUME NEW t \in Threads, Decrement(t) PROVE OneCleaner'
  <2>1. CASE callCounter[self[t]] = 1
    <3>1. pc' = [pc EXCEPT ![t] = "clean"] /\ UNCHANGED <<self, wasDestroyed, cleaned>>
      BY <1>2, <2>1 DEF Decrement, Goto
    <3>2. self[t] \in wasDestroyed \ cleaned /\ Counted(self[t]) = {t}
      BY <1>2, <2>1, LastLeaves
    <3>3. t \in Counted(self[t]) /\ \A u \in Threads : self[u] = self[t] => pc[u] # "clean"
      BY <3>2
    <3>4. \A u \in Threads : Counted(self[u])' = Counted(self[u]) \ {t}
      BY <3>1 DEF Counted
    <3>5. ASSUME NEW v \in Threads, pc'[v] = "clean"
          PROVE  /\ self'[v] \in wasDestroyed' \ cleaned'
                 /\ Counted(self[v])' = {}
                 /\ \A u \in Threads : pc'[u] = "clean" /\ self'[u] = self'[v] => u = v
      <4>1. CASE v = t
        BY <3>1, <3>2, <3>3, <3>4, <4>1
      <4>2. CASE v # t
        <5>1. pc[v] = "clean" /\ self[v] # self[t]
          BY <3>1, <3>3, <3>5, <4>2
        <5> QED
          BY <3>1, <3>4, <3>5, <5>1
      <4> QED
        BY <4>1, <4>2
    <3> QED
      BY <3>5
  <2>2. CASE callCounter[self[t]] # 1
    BY <1>2, <2>2 DEF Decrement, Goto, End, Counted
  <2> QED
    BY <2>1, <2>2
<1>3. ASSUME NEW t \in Threads, Clean(t) PROVE OneCleaner'
  BY <1>3 DEF Clean, RunClean, Goto, End, Counted
<1>4. ASSUME NEW t \in Threads, NEW w \in Wrappers, NEW a \in Wrappers \cup {NoWrapper},
              CallMethod(t, w, a)
       PROVE  OneCleaner'
  BY <1>4 DEF CallMethod, Goto, Counted
<1>5. ASSUME NEW t \in Threads, NEW w \in Wrappers, CallFunction(t, w) PROVE OneCleaner'
  BY <1>5 DEF CallFunction, Goto, Counted
<1>6. ASSUME NEW t \in Threads, LoadCounter(t) PROVE OneCleaner'
  BY <1>6 DEF LoadCounter, Goto, Counted
<1>7. ASSUME NEW t \in Threads, CompareAndSet(t) PROVE OneCleaner'
  <2>1. CASE callCounter[self[t]] = c[t]
    BY <1>7, <2>1, NoEntry DEF CompareAndSet, Goto, Counted
  <2>2. CASE callCounter[self[t]] # c[t]
    BY <1>7, <2>2 DEF CompareAndSet, Goto, Counted
  <2> QED
    BY <2>1, <2>2
<1>8. ASSUME NEW t \in Threads, CloneHandle(t) PROVE OneCleaner'
  BY <1>8 DEF CloneHandle, Goto, Counted
<1>9. ASSUME NEW t \in Threads, LowerArgument(t) PROVE OneCleaner'
  BY <1>9 DEF LowerArgument, Goto, Counted
<1>10. ASSUME NEW t \in Threads, LoweringFails(t) PROVE OneCleaner'
  BY <1>10 DEF LoweringFails, Leave, Goto, End, Counted
<1>11. ASSUME NEW t \in Threads, LiftArguments(t) PROVE OneCleaner'
  BY <1>11 DEF LiftArguments, Goto, Counted
<1>12. ASSUME NEW t \in Threads, LiftFails(t) PROVE OneCleaner'
  BY <1>12 DEF LiftFails, Leave, Goto, End, Counted
<1>13. ASSUME NEW t \in Threads, Keep(t) PROVE OneCleaner'
  BY <1>13 DEF Keep, Counted
<1>14. ASSUME NEW t \in Threads, Return(t) PROVE OneCleaner'
  BY <1>14 DEF Return, Leave, Goto, End, Counted
<1>15. ASSUME NEW t \in Threads, NEW w \in Wrappers, ReturnObject(t, w) PROVE OneCleaner'
  BY <1>15 DEF ReturnObject, Leave, Goto, End, Counted
<1>16. ASSUME NEW t \in Threads, ReturnFuture(t) PROVE OneCleaner'
  BY <1>16 DEF ReturnFuture, Leave, Goto, End, Counted
<1>17. ASSUME NEW t \in Threads, Lift(t) PROVE OneCleaner'
  BY <1>17 DEF Lift, Goto, Counted
<1>18. ASSUME NEW w \in Wrappers, Forget(w) PROVE OneCleaner'
  BY <1>18 DEF Forget, Counted
<1>19. ASSUME NEW w \in Wrappers, Collect(w) PROVE OneCleaner'
  BY <1>19 DEF Collect, RunClean, InUse, Counted
<1>20. CASE RustDrops \/ UNCHANGED vars
  BY <1>20 DEF RustDrops, vars, Counted
<1>21. ASSUME NEW t \in Threads, ThreadRuns(t) PROVE OneCleaner'
  BY <1>21, <1>2, <1>3, <1>6, <1>7, <1>8, <1>9, <1>10, <1>11, <1>12, <1>14, <1>15, <1>16, <1>17
     DEF ThreadRuns
<1> QED
  BY <1>1, <1>4, <1>5, <1>13, <1>18, <1>19, <1>20, <1>21 DEF Next

\* What has been freed is not called again.
LEMMA FreedStep ==
    ASSUME KotlinInv, [Next]_vars
    PROVE  FreedAfterCalls'
<1> USE DEF KotlinInv, KotlinTypeOK, ThreadOrder, OneCleaner, FreedAfterCalls, FreshNew,
            refVars, wrapperVars, threadVars
<1>1. ASSUME NEW t \in Threads, NEW w \in Wrappers, Destroy(t, w) PROVE FreedAfterCalls'
  BY <1>1 DEF Destroy, Goto, Counted
<1>2. ASSUME NEW t \in Threads, Decrement(t) PROVE FreedAfterCalls'
  <2>1. CASE callCounter[self[t]] = 1
    BY <1>2, <2>1, LastLeaves DEF Decrement, Goto, Counted
  <2>2. CASE callCounter[self[t]] # 1
    BY <1>2, <2>2 DEF Decrement, Goto, End, Counted
  <2> QED
    BY <2>1, <2>2
<1>3. ASSUME NEW t \in Threads, Clean(t) PROVE FreedAfterCalls'
  BY <1>3 DEF Clean, RunClean, Goto, End, Counted
<1>4. ASSUME NEW t \in Threads, NEW w \in Wrappers, NEW a \in Wrappers \cup {NoWrapper},
              CallMethod(t, w, a)
       PROVE  FreedAfterCalls'
  BY <1>4 DEF CallMethod, Goto, Counted
<1>5. ASSUME NEW t \in Threads, NEW w \in Wrappers, CallFunction(t, w) PROVE FreedAfterCalls'
  BY <1>5 DEF CallFunction, Goto, Counted
<1>6. ASSUME NEW t \in Threads, LoadCounter(t) PROVE FreedAfterCalls'
  BY <1>6 DEF LoadCounter, Goto, Counted
<1>7. ASSUME NEW t \in Threads, CompareAndSet(t) PROVE FreedAfterCalls'
  <2>1. CASE callCounter[self[t]] = c[t]
    BY <1>7, <2>1, NoEntry DEF CompareAndSet, Goto, Counted
  <2>2. CASE callCounter[self[t]] # c[t]
    BY <1>7, <2>2 DEF CompareAndSet, Goto, Counted
  <2> QED
    BY <2>1, <2>2
<1>8. ASSUME NEW t \in Threads, CloneHandle(t) PROVE FreedAfterCalls'
  BY <1>8 DEF CloneHandle, Goto, Counted
<1>9. ASSUME NEW t \in Threads, LowerArgument(t) PROVE FreedAfterCalls'
  BY <1>9 DEF LowerArgument, Goto, Counted
<1>10. ASSUME NEW t \in Threads, LoweringFails(t) PROVE FreedAfterCalls'
  BY <1>10 DEF LoweringFails, Leave, Goto, End, Counted
<1>11. ASSUME NEW t \in Threads, LiftArguments(t) PROVE FreedAfterCalls'
  BY <1>11 DEF LiftArguments, Goto, Counted
<1>12. ASSUME NEW t \in Threads, LiftFails(t) PROVE FreedAfterCalls'
  BY <1>12 DEF LiftFails, Leave, Goto, End, Counted
<1>13. ASSUME NEW t \in Threads, Keep(t) PROVE FreedAfterCalls'
  BY <1>13 DEF Keep, Counted
<1>14. ASSUME NEW t \in Threads, Return(t) PROVE FreedAfterCalls'
  BY <1>14 DEF Return, Leave, Goto, End, Counted
<1>15. ASSUME NEW t \in Threads, NEW w \in Wrappers, ReturnObject(t, w) PROVE FreedAfterCalls'
  BY <1>15 DEF ReturnObject, Leave, Goto, End, Counted
<1>16. ASSUME NEW t \in Threads, ReturnFuture(t) PROVE FreedAfterCalls'
  BY <1>16 DEF ReturnFuture, Leave, Goto, End, Counted
<1>17. ASSUME NEW t \in Threads, Lift(t) PROVE FreedAfterCalls'
  BY <1>17 DEF Lift, Goto, Counted
<1>18. ASSUME NEW w \in Wrappers, Forget(w) PROVE FreedAfterCalls'
  BY <1>18 DEF Forget, Counted
<1>19. ASSUME NEW w \in Wrappers, Collect(w) PROVE FreedAfterCalls'
  BY <1>19 DEF Collect, RunClean, InUse, Counted
<1>20. CASE RustDrops \/ UNCHANGED vars
  BY <1>20 DEF RustDrops, vars, Counted
<1>21. ASSUME NEW t \in Threads, ThreadRuns(t) PROVE FreedAfterCalls'
  BY <1>21, <1>2, <1>3, <1>6, <1>7, <1>8, <1>9, <1>10, <1>11, <1>12, <1>14, <1>15, <1>16, <1>17
     DEF ThreadRuns
<1> QED
  BY <1>1, <1>4, <1>5, <1>13, <1>18, <1>19, <1>20, <1>21 DEF Next

\* What the collector has cleaned stays out of everybody's hands.
LEMMA CollectedStep ==
    ASSUME KotlinInv, [Next]_vars
    PROVE  CollectedUnused'
<1> USE DEF KotlinInv, KotlinTypeOK, ThreadOrder, OneCleaner, FreedAfterCalls, CollectedUnused,
            FreshNew, refVars, wrapperVars, threadVars
<1>1. ASSUME NEW t \in Threads, NEW w \in Wrappers, Destroy(t, w) PROVE CollectedUnused'
  BY <1>1 DEF Destroy, Goto, InUse
<1>2. ASSUME NEW t \in Threads, Decrement(t) PROVE CollectedUnused'
  BY <1>2 DEF Decrement, Goto, End, InUse
<1>3. ASSUME NEW t \in Threads, Clean(t) PROVE CollectedUnused'
  BY <1>3 DEF Clean, RunClean, Goto, End, InUse
<1>4. ASSUME NEW t \in Threads, NEW w \in Wrappers, NEW a \in Wrappers \cup {NoWrapper},
              CallMethod(t, w, a)
       PROVE  CollectedUnused'
  BY <1>4 DEF CallMethod, Goto, InUse, CanPass
<1>5. ASSUME NEW t \in Threads, NEW w \in Wrappers, CallFunction(t, w) PROVE CollectedUnused'
  BY <1>5 DEF CallFunction, Goto, InUse, CanPass
<1>6. ASSUME NEW t \in Threads, LoadCounter(t) PROVE CollectedUnused'
  BY <1>6 DEF LoadCounter, Goto, InUse
<1>7. ASSUME NEW t \in Threads, CompareAndSet(t) PROVE CollectedUnused'
  BY <1>7 DEF CompareAndSet, Goto, InUse
<1>8. ASSUME NEW t \in Threads, CloneHandle(t) PROVE CollectedUnused'
  BY <1>8 DEF CloneHandle, Goto, InUse
<1>9. ASSUME NEW t \in Threads, LowerArgument(t) PROVE CollectedUnused'
  BY <1>9 DEF LowerArgument, Goto, InUse
<1>10. ASSUME NEW t \in Threads, LoweringFails(t) PROVE CollectedUnused'
  BY <1>10 DEF LoweringFails, Leave, Goto, End, InUse
<1>11. ASSUME NEW t \in Threads, LiftArguments(t) PROVE CollectedUnused'
  BY <1>11 DEF LiftArguments, Goto, InUse
<1>12. ASSUME NEW t \in Threads, LiftFails(t) PROVE CollectedUnused'
  BY <1>12 DEF LiftFails, Leave, Goto, End, InUse
<1>13. ASSUME NEW t \in Threads, Keep(t) PROVE CollectedUnused'
  BY <1>13 DEF Keep, InUse
<1>14. ASSUME NEW t \in Threads, Return(t) PROVE CollectedUnused'
  BY <1>14 DEF Return, Leave, Goto, End, InUse
<1>15. ASSUME NEW t \in Threads, NEW w \in Wrappers, ReturnObject(t, w) PROVE CollectedUnused'
  BY <1>15 DEF ReturnObject, Leave, Goto, End, InUse
<1>16. ASSUME NEW t \in Threads, ReturnFuture(t) PROVE CollectedUnused'
  BY <1>16 DEF ReturnFuture, Leave, Goto, End, InUse
<1>17. ASSUME NEW t \in Threads, Lift(t) PROVE CollectedUnused'
  BY <1>17 DEF Lift, Goto, InUse
<1>18. ASSUME NEW w \in Wrappers, Forget(w) PROVE CollectedUnused'
  BY <1>18 DEF Forget, InUse
<1>19. ASSUME NEW w \in Wrappers, Collect(w) PROVE CollectedUnused'
  BY <1>19 DEF Collect, RunClean, InUse
<1>20. CASE RustDrops \/ UNCHANGED vars
  BY <1>20 DEF RustDrops, vars, InUse
<1>21. ASSUME NEW t \in Threads, ThreadRuns(t) PROVE CollectedUnused'
  BY <1>21, <1>2, <1>3, <1>6, <1>7, <1>8, <1>9, <1>10, <1>11, <1>12, <1>14, <1>15, <1>16, <1>17
     DEF ThreadRuns
<1> QED
  BY <1>1, <1>4, <1>5, <1>13, <1>18, <1>19, <1>20, <1>21 DEF Next

\* Who leaves the block of a destroyed wrapper without finding zero was not alone in it.
LEMMA OthersStay ==
    ASSUME KotlinInv, NEW t \in Threads, Decrement(t), callCounter[self[t]] # 1,
           self[t] \in wasDestroyed
    PROVE  \E u \in Threads : u # t /\ self[u] = self[t] /\ pc[u] \in InBlock
<1> DEFINE peers == Counted(self[t])
<1>1. self[t] \in Wrappers /\ t \in peers
  BY DEF KotlinInv, ThreadOrder, Decrement, KotlinTypeOK, Counted
<1>2. Cardinality(peers) # 1
  BY <1>1, CountedFinite DEF KotlinInv, CounterCounts, KotlinTypeOK
<1>3. peers # {t}
  BY <1>2, FS_Singleton
<1>4. PICK u \in peers : u # t
  BY <1>1, <1>3
<1> QED
  BY <1>4 DEF Counted, InBlock

\* Who leaves the block of a destroyed wrapper leaves somebody behind, or cleans.
LEMMA ExpectedStep ==
    ASSUME KotlinInv, CleanerExpected, [Next]_vars
    PROVE  CleanerExpected'
<1> USE DEF KotlinInv, KotlinTypeOK, ThreadOrder, FreshNew,
            refVars, wrapperVars, threadVars
<1>1. ASSUME NEW t \in Threads, NEW w \in Wrappers, Destroy(t, w) PROVE CleanerExpected'
  BY <1>1 DEF Destroy, Goto, CleanerExpected, InBlock
<1>2. ASSUME NEW t \in Threads, Decrement(t) PROVE CleanerExpected'
  <2>1. CASE callCounter[self[t]] = 1
    BY <1>2, <2>1, LastLeaves DEF Decrement, Goto, CleanerExpected, InBlock
  <2>2. CASE callCounter[self[t]] # 1
    <3>1. self[t] \in Wrappers /\ UNCHANGED <<self, wasDestroyed, cleaned>>
          /\ \A u \in Threads : u # t => pc'[u] = pc[u]
      BY <1>2 DEF Decrement, Goto
    <3>2. self[t] \in wasDestroyed =>
             \E u \in Threads : u # t /\ self[u] = self[t] /\ pc[u] \in InBlock
      BY <1>2, <2>2, OthersStay
    <3>3. ASSUME NEW w \in wasDestroyed \ cleaned
          PROVE  \E u \in Threads : self'[u] = w /\ pc'[u] \in InBlock \cup {"clean"}
      <4>1. CASE w = self[t]
        BY <3>1, <3>2, <4>1
      <4>2. CASE w # self[t]
        BY <3>1, <4>2 DEF CleanerExpected
      <4> QED
        BY <4>1, <4>2
    <3> QED
      BY <3>1, <3>3 DEF CleanerExpected
  <2> QED
    BY <2>1, <2>2
<1>3. ASSUME NEW t \in Threads, Clean(t) PROVE CleanerExpected'
  BY <1>3 DEF Clean, RunClean, Goto, End, CleanerExpected, InBlock
<1>4. ASSUME NEW t \in Threads, NEW w \in Wrappers, NEW a \in Wrappers \cup {NoWrapper},
              CallMethod(t, w, a)
       PROVE  CleanerExpected'
  BY <1>4 DEF CallMethod, Goto, CleanerExpected, InBlock
<1>5. ASSUME NEW t \in Threads, NEW w \in Wrappers, CallFunction(t, w) PROVE CleanerExpected'
  BY <1>5 DEF CallFunction, Goto, CleanerExpected, InBlock
<1>6. ASSUME NEW t \in Threads, LoadCounter(t) PROVE CleanerExpected'
  BY <1>6 DEF LoadCounter, Goto, CleanerExpected, InBlock
<1>7. ASSUME NEW t \in Threads, CompareAndSet(t) PROVE CleanerExpected'
  <2>1. CASE callCounter[self[t]] = c[t]
    BY <1>7, <2>1, NoEntry DEF CompareAndSet, Goto, CleanerExpected, InBlock
  <2>2. CASE callCounter[self[t]] # c[t]
    BY <1>7, <2>2 DEF CompareAndSet, Goto, CleanerExpected, InBlock
  <2> QED
    BY <2>1, <2>2
<1>8. ASSUME NEW t \in Threads, CloneHandle(t) PROVE CleanerExpected'
  BY <1>8 DEF CloneHandle, Goto, CleanerExpected, InBlock
<1>9. ASSUME NEW t \in Threads, LowerArgument(t) PROVE CleanerExpected'
  BY <1>9 DEF LowerArgument, Goto, CleanerExpected, InBlock
<1>10. ASSUME NEW t \in Threads, LoweringFails(t) PROVE CleanerExpected'
  BY <1>10 DEF LoweringFails, Leave, Goto, End, CleanerExpected, InBlock
<1>11. ASSUME NEW t \in Threads, LiftArguments(t) PROVE CleanerExpected'
  BY <1>11 DEF LiftArguments, Goto, CleanerExpected, InBlock
<1>12. ASSUME NEW t \in Threads, LiftFails(t) PROVE CleanerExpected'
  BY <1>12 DEF LiftFails, Leave, Goto, End, CleanerExpected, InBlock
<1>13. ASSUME NEW t \in Threads, Keep(t) PROVE CleanerExpected'
  BY <1>13 DEF Keep, CleanerExpected, InBlock
<1>14. ASSUME NEW t \in Threads, Return(t) PROVE CleanerExpected'
  BY <1>14 DEF Return, Leave, Goto, End, CleanerExpected, InBlock
<1>15. ASSUME NEW t \in Threads, NEW w \in Wrappers, ReturnObject(t, w) PROVE CleanerExpected'
  BY <1>15 DEF ReturnObject, Leave, Goto, End, CleanerExpected, InBlock
<1>16. ASSUME NEW t \in Threads, ReturnFuture(t) PROVE CleanerExpected'
  BY <1>16 DEF ReturnFuture, Leave, Goto, End, CleanerExpected, InBlock
<1>17. ASSUME NEW t \in Threads, Lift(t) PROVE CleanerExpected'
  BY <1>17 DEF Lift, Goto, CleanerExpected, InBlock
<1>18. ASSUME NEW w \in Wrappers, Forget(w) PROVE CleanerExpected'
  BY <1>18 DEF Forget, CleanerExpected, InBlock
<1>19. ASSUME NEW w \in Wrappers, Collect(w) PROVE CleanerExpected'
  BY <1>19 DEF Collect, RunClean, InUse, CleanerExpected, InBlock
<1>20. CASE RustDrops \/ UNCHANGED vars
  BY <1>20 DEF RustDrops, vars, CleanerExpected, InBlock
<1>21. ASSUME NEW t \in Threads, ThreadRuns(t) PROVE CleanerExpected'
  BY <1>21, <1>2, <1>3, <1>6, <1>7, <1>8, <1>9, <1>10, <1>11, <1>12, <1>14, <1>15, <1>16, <1>17
     DEF ThreadRuns
<1> QED
  BY <1>1, <1>4, <1>5, <1>13, <1>18, <1>19, <1>20, <1>21 DEF Next

\* An argument is not destroyed before its handle has been cloned, if the program does not
\* do that, and the collector does not clean it, if the runtime keeps it.
LEMMA ArgumentStep ==
    ASSUME KotlinInv, ArgumentsAlive, PassesDestroyed = FALSE, KeepsArguments, [Next]_vars
    PROVE  ArgumentsAlive'
<1> USE DEF KotlinInv, KotlinTypeOK, ThreadOrder, OneCleaner, FreedAfterCalls, FreshNew,
            CollectedUnused, ArgumentsAlive, refVars, wrapperVars, threadVars
<1>1. ASSUME NEW t \in Threads, NEW w \in Wrappers, Destroy(t, w) PROVE ArgumentsAlive'
  BY <1>1 DEF Destroy, Goto, Lowering
<1>2. ASSUME NEW t \in Threads, Decrement(t) PROVE ArgumentsAlive'
  BY <1>2 DEF Decrement, Goto, End
<1>3. ASSUME NEW t \in Threads, Clean(t) PROVE ArgumentsAlive'
  BY <1>3 DEF Clean, RunClean, Goto, End
<1>4. ASSUME NEW t \in Threads, NEW w \in Wrappers, NEW a \in Wrappers \cup {NoWrapper},
              CallMethod(t, w, a)
       PROVE  ArgumentsAlive'
  BY <1>4 DEF CallMethod, Goto, CanPass
<1>5. ASSUME NEW t \in Threads, NEW w \in Wrappers, CallFunction(t, w) PROVE ArgumentsAlive'
  BY <1>5 DEF CallFunction, Goto, CanPass
<1>6. ASSUME NEW t \in Threads, LoadCounter(t) PROVE ArgumentsAlive'
  BY <1>6 DEF LoadCounter, Goto
<1>7. ASSUME NEW t \in Threads, CompareAndSet(t) PROVE ArgumentsAlive'
  BY <1>7 DEF CompareAndSet, Goto
<1>8. ASSUME NEW t \in Threads, CloneHandle(t) PROVE ArgumentsAlive'
  BY <1>8 DEF CloneHandle, Goto
<1>9. ASSUME NEW t \in Threads, LowerArgument(t) PROVE ArgumentsAlive'
  BY <1>9 DEF LowerArgument, Goto
<1>10. ASSUME NEW t \in Threads, LoweringFails(t) PROVE ArgumentsAlive'
  BY <1>10 DEF LoweringFails, Leave, Goto, End
<1>11. ASSUME NEW t \in Threads, LiftArguments(t) PROVE ArgumentsAlive'
  BY <1>11 DEF LiftArguments, Goto
<1>12. ASSUME NEW t \in Threads, LiftFails(t) PROVE ArgumentsAlive'
  BY <1>12 DEF LiftFails, Leave, Goto, End
<1>13. ASSUME NEW t \in Threads, Keep(t) PROVE ArgumentsAlive'
  BY <1>13 DEF Keep
<1>14. ASSUME NEW t \in Threads, Return(t) PROVE ArgumentsAlive'
  BY <1>14 DEF Return, Leave, Goto, End
<1>15. ASSUME NEW t \in Threads, NEW w \in Wrappers, ReturnObject(t, w) PROVE ArgumentsAlive'
  BY <1>15 DEF ReturnObject, Leave, Goto, End
<1>16. ASSUME NEW t \in Threads, ReturnFuture(t) PROVE ArgumentsAlive'
  BY <1>16 DEF ReturnFuture, Leave, Goto, End
<1>17. ASSUME NEW t \in Threads, Lift(t) PROVE ArgumentsAlive'
  BY <1>17 DEF Lift, Goto
<1>18. ASSUME NEW w \in Wrappers, Forget(w) PROVE ArgumentsAlive'
  BY <1>18 DEF Forget
<1>19. ASSUME NEW w \in Wrappers, Collect(w) PROVE ArgumentsAlive'
  BY <1>19 DEF Collect, RunClean, InUse
<1>20. CASE RustDrops \/ UNCHANGED vars
  BY <1>20 DEF RustDrops, vars
<1>21. ASSUME NEW t \in Threads, ThreadRuns(t) PROVE ArgumentsAlive'
  BY <1>21, <1>2, <1>3, <1>6, <1>7, <1>8, <1>9, <1>10, <1>11, <1>12, <1>14, <1>15, <1>16, <1>17
     DEF ThreadRuns
<1> QED
  BY <1>1, <1>4, <1>5, <1>13, <1>18, <1>19, <1>20, <1>21 DEF Next

-----------------------------------------------------------------------------
(* Theorems *)

\* When the constructor has returned there is one owner, and nobody calls.
LEMMA InitInv == ASSUME Init PROVE KotlinInv /\ ArgumentsAlive
<1>1. PICK w \in Wrappers : created = {w}
  BY DEF Init
<1>2. KotlinTypeOK
  BY <1>1 DEF Init, KotlinTypeOK
<1>3. OwnersCounted
  <2>1. created \ cleaned = {w}
    BY <1>1 DEF Init
  <2>2. Cardinality(created \ cleaned) = 1
    BY <2>1, FS_Singleton
  <2>3. Cardinality(carried) = 0
    BY FS_EmptySet DEF Init
  <2> QED
    BY <2>2, <2>3 DEF Init, OwnersCounted
<1>4. CounterCounts
  <2>1. \A v \in Wrappers : Counted(v) = {}
    BY DEF Init, Counted
  <2>2. \A v \in Wrappers : Cardinality(Counted(v)) = 0
    BY <2>1, FS_EmptySet
  <2> QED
    BY <2>2 DEF Init, CounterCounts
<1> QED
  BY <1>1, <1>2, <1>3, <1>4
     DEF Init, KotlinInv, ThreadOrder, CarriedWhere, FreshNew, OneCleaner, FreedAfterCalls,
         CollectedUnused, ArgumentsAlive

\* Every step keeps the invariant.
LEMMA NextInv == ASSUME KotlinInv, [Next]_vars PROVE KotlinInv'
<1>1. OwnersCounted'
  BY OwnersStep
<1>2. (WrapperTypes /\ ThreadTypes)'
  BY PlacesStep
<1>3. (rustRefs \in 0..MaxRefs /\ lost \in 0..MaxLost /\ carried \in SUBSET Tokens)'
  BY KeptStep
<1>4. strong' \in Nat
  <2>1. rustRefs' \in Nat /\ lost' \in Nat
    BY <1>3
  <2> QED
    BY <1>1, <1>2, <1>3, <2>1, StrongStep
<1>5. KotlinTypeOK'
  BY <1>2, <1>3, <1>4 DEF KotlinTypeOK
<1> QED
  BY <1>1, <1>5, CounterStep, OrderStep, CarriedStep, FreshStep, CleanerStep, FreedStep,
     CollectedStep DEF KotlinInv

\* The invariant holds in every behaviour of the wrappers.
THEOREM KotlinInvariant == Spec => []KotlinInv
<1>1. Init => KotlinInv
  BY InitInv
<1>2. KotlinInv /\ [Next]_vars => KotlinInv'
  BY NextInv
<1> QED
  BY <1>1, <1>2, PTL DEF Spec

\* Every variable has its type: the call counter stays below Long.MAX_VALUE and never
\* falls below zero, and the Arc count is never negative.
THEOREM TypeCorrect == Spec => []KotlinTypeOK
<1>1. KotlinInv => KotlinTypeOK
  BY DEF KotlinInv
<1> QED
  BY <1>1, KotlinInvariant, PTL

\* Every reference the Arc counts has one owner: each wrapper's handle, each handle cloned
\* for a call, and whatever Rust keeps, is freed at most once and by its owner.
THEOREM HandlesAccountedFor == Spec => []OwnersCounted
<1>1. KotlinInv => OwnersCounted
  BY DEF KotlinInv
<1> QED
  BY <1>1, KotlinInvariant, PTL

\* A wrapper's handle is freed only when no thread is in a method call of it, and only
\* after destroy() or when the program has forgotten the wrapper.
THEOREM FreedOnlyAfterCalls == Spec => []FreedAfterCalls
<1>1. KotlinInv => FreedAfterCalls
  BY DEF KotlinInv
<1> QED
  BY <1>1, KotlinInvariant, PTL

\* A count with an owner is positive.
LEMMA OwnerKeepsAlive ==
    ASSUME KotlinInv, created \ cleaned # {} \/ carried # {}
    PROVE  strong > 0
<1> DEFINE n == Cardinality(created \ cleaned)
           k == Cardinality(carried)
<1>1. /\ IsFiniteSet(created \ cleaned) /\ n \in Nat
      /\ IsFiniteSet(carried) /\ k \in Nat
  BY CountedFinite DEF KotlinInv
<1>2. n # 0 \/ k # 0
  BY <1>1, FS_EmptySet
<1>3. strong = n + k + rustRefs + lost /\ rustRefs \in Nat /\ lost \in Nat
  BY DEF KotlinInv, OwnersCounted, KotlinTypeOK
<1> HIDE DEF n, k
<1> QED
  BY <1>1, <1>2, <1>3

\* A freed object is met in one place only: where a function's argument is lowered from a
\* wrapper that was cleaned.
FreedOnlyAsArgument ==
    \A t \in Threads :
       /\ \/ pc[t] \in {"clone", "pass", "rust", "lift"}
          \/ pc[t] = "lower" /\ arg[t] # NoWrapper
       /\ strong = 0
       => pc[t] = "lower" /\ self[t] = NoWrapper /\ arg[t] \in cleaned

\* A thread that uses a handle has an owner behind it.
LEMMA UsedHasOwner == KotlinInv => FreedOnlyAsArgument
<1> SUFFICES ASSUME KotlinInv, NEW t \in Threads,
                    \/ pc[t] \in {"clone", "pass", "rust", "lift"}
                    \/ pc[t] = "lower" /\ arg[t] # NoWrapper,
                    strong = 0
             PROVE  pc[t] = "lower" /\ self[t] = NoWrapper /\ arg[t] \in cleaned
  BY DEF FreedOnlyAsArgument
<1> USE DEF KotlinInv, ThreadOrder, CarriedWhere
<1>1. created \ cleaned = {} /\ carried = {}
  BY OwnerKeepsAlive
<1>2. pc[t] # "clone"
  <2> SUFFICES ASSUME pc[t] = "clone" PROVE FALSE
    OBVIOUS
  <2>1. self[t] \in created /\ t \in Counted(self[t])
    BY DEF Counted
  <2>2. self[t] \notin cleaned
    BY <2>1 DEF FreedAfterCalls
  <2> QED
    BY <1>1, <2>1, <2>2
<1>3. pc[t] \notin {"pass", "rust"}
  BY <1>1
<1>4. pc[t] # "lift"
  BY <1>1 DEF FreshNew
<1>5. pc[t] = "lower" /\ arg[t] \in created
  BY <1>2, <1>3, <1>4
<1>6. self[t] = NoWrapper
  BY <1>1, <1>5
<1> QED
  BY <1>1, <1>5, <1>6

\* The receiver of a method, whatever is destroyed meanwhile and whatever is passed to it,
\* is alive from the increment of its counter to the end of the call: what the template
\* promises and does for receivers, without an assumption on the program or the runtime.  The
\* clone of an argument that FreedOnlyAsArgument leaves is what the run kotlin_argument
\* finds; until it happens nothing is used after it is freed.
THEOREM ReceiversAreSafe == Spec => []FreedOnlyAsArgument
  BY KotlinInvariant, UsedHasOwner, PTL

\* Without destroyed arguments that place is never reached.
LEMMA UsedAlive == KotlinInv /\ ArgumentsAlive => NoUseAfterFree
<1> SUFFICES ASSUME KotlinInv, ArgumentsAlive, NEW t \in Threads,
                    \/ pc[t] \in {"clone", "pass", "rust", "lift"}
                    \/ pc[t] = "lower" /\ arg[t] # NoWrapper
             PROVE  strong > 0
  BY DEF NoUseAfterFree
<1>1. strong \in Nat
  BY DEF KotlinInv, KotlinTypeOK
<1>2. strong # 0
  BY UsedHasOwner DEF FreedOnlyAsArgument, ArgumentsAlive
<1> QED
  BY <1>1, <1>2

\* Rust code never operates on the object after its destructor, as long as the program does
\* not pass a wrapper as an argument while or after it destroys it, and the runtime keeps an
\* argument reachable for the time of its call.
THEOREM NotUsedAfterFree ==
    ASSUME PassesDestroyed = FALSE, KeepsArguments
    PROVE  Spec => []NoUseAfterFree
<1>1. Init => KotlinInv /\ ArgumentsAlive
  BY InitInv
<1>2. (KotlinInv /\ ArgumentsAlive) /\ [Next]_vars => (KotlinInv /\ ArgumentsAlive)'
  BY NextInv, ArgumentStep
<1> QED
  BY <1>1, <1>2, UsedAlive, PTL DEF Spec

\* At rest, when every wrapper is destroyed and Rust keeps nothing, nobody owns a reference.
LEMMA NoOwnerAtRest == KotlinInv /\ CleanerExpected => NoLeak
<1> SUFFICES ASSUME KotlinInv, CleanerExpected, \A t \in Threads : pc[t] = "idle",
                    created \subseteq wasDestroyed, rustRefs = 0
             PROVE  strong = lost
  BY DEF NoLeak
<1>1. created \ cleaned = {}
  BY DEF CleanerExpected, InBlock
<1>2. carried = {}
  <2> SUFFICES ASSUME NEW token \in carried PROVE FALSE
    OBVIOUS
  <2>1. PICK t \in Threads : token \in {<<t, "self">>, <<t, "arg">>, <<t, "return">>}
    BY DEF KotlinInv, KotlinTypeOK, Tokens
  <2> QED
    BY <2>1 DEF KotlinInv, CarriedWhere, FreshNew
<1>3. Cardinality(created \ cleaned) = 0 /\ Cardinality(carried) = 0
  BY <1>1, <1>2, FS_EmptySet
<1>4. strong = 0 + 0 + 0 + lost /\ lost \in Nat
  BY <1>3 DEF KotlinInv, OwnersCounted, KotlinTypeOK
<1> QED
  BY <1>4

\* A destroyed wrapper that is not freed always has somebody who will free it, without the
\* collector: a thread in a call of it, or about to clean (the safety core of DestroyFrees).
THEOREM FreeingIsOwed == Spec => []CleanerExpected
<1>1. Init => KotlinInv /\ CleanerExpected
  <2>1. Init => CleanerExpected
    BY DEF Init, CleanerExpected
  <2> QED
    BY <2>1, InitInv
<1>2. (KotlinInv /\ CleanerExpected) /\ [Next]_vars => (KotlinInv /\ CleanerExpected)'
  BY NextInv, ExpectedStep
<1> QED
  BY <1>1, <1>2, PTL DEF Spec

\* Nothing leaks: once every wrapper is destroyed, every call is over and Rust keeps nothing,
\* the only references left are those of calls whose arguments could not be lowered or lifted.
THEOREM NothingLeaks == Spec => []NoLeak
BY KotlinInvariant, FreeingIsOwed, NoOwnerAtRest, PTL

-----------------------------------------------------------------------------
(* The abstract life of a wrapper *)

\* A step of one thread moves nobody else in or out.
LEMMA InsideOfOthers ==
    ASSUME NEW t \in Threads,
           \A u \in Threads \ {t} : pc'[u] = pc[u] /\ self'[u] = self[u]
    PROVE  inside' = [inside EXCEPT ![t] = inside'[t]]
BY DEF inside

\* Who is inside a wrapper is counted by its counter.
LEMMA InsideIsCounted ==
    ASSUME NEW w \in Wrappers PROVE Life!Inside(w) = Counted(w)
BY DEF Life!Inside, inside, Counted

\* What a thread does without passing a gate.
LEMMA StaysInside ==
    ASSUME KotlinTypeOK, NEW t \in Threads,
           \/ LoadCounter(t) \/ CloneHandle(t) \/ LowerArgument(t) \/ LoweringFails(t)
           \/ LiftArguments(t) \/ LiftFails(t) \/ Return(t) \/ ReturnFuture(t)
           \/ \E w \in Wrappers : ReturnObject(t, w) \/ CallFunction(t, w)
           \/ \E w \in Wrappers, a \in Wrappers \cup {NoWrapper} : CallMethod(t, w, a)
    PROVE  UNCHANGED Life!lifeVars
<1> USE DEF KotlinTypeOK, Goto, wrapperVars, Life!lifeVars
<1>1. UNCHANGED wrapperVars
  BY DEF LoadCounter, CloneHandle, LowerArgument, LoweringFails, LiftArguments, LiftFails,
         Return, ReturnFuture, ReturnObject, CallFunction, CallMethod
<1>2. CASE LoadCounter(t) \/ CloneHandle(t) \/ LowerArgument(t) \/ LiftArguments(t)
  <2>1. UNCHANGED inside
    BY <1>2 DEF LoadCounter, CloneHandle, LowerArgument, LiftArguments, inside
  <2> QED
    BY <1>1, <2>1
<1>3. CASE \/ LoweringFails(t) \/ LiftFails(t) \/ Return(t) \/ ReturnFuture(t)
           \/ \E w \in Wrappers : ReturnObject(t, w)
  <2>1. /\ pc[t] \in {"lower", "pass", "rust"} /\ self' = self
        /\ \E loc \in {"idle", "lift", "finally"} :
              /\ pc' = [pc EXCEPT ![t] = loc]
              /\ self[t] # NoWrapper => loc = "finally"
    BY <1>3 DEF LoweringFails, LiftFails, Return, ReturnFuture, ReturnObject, Leave, End
  <2>2. UNCHANGED inside
    BY <2>1 DEF inside
  <2> QED
    BY <1>1, <2>2
<1>4. CASE \/ \E w \in Wrappers : CallFunction(t, w)
           \/ \E w \in Wrappers, a \in Wrappers \cup {NoWrapper} : CallMethod(t, w, a)
  <2>1. /\ pc[t] = "idle"
        /\ \A u \in Threads \ {t} : pc'[u] = pc[u] /\ self'[u] = self[u]
        /\ pc'[t] = "load" \/ (pc'[t] = "lower" /\ self'[t] = NoWrapper)
    BY <1>4 DEF CallFunction, CallMethod
  <2>2. UNCHANGED inside
    BY <2>1 DEF inside
  <2> QED
    BY <1>1, <2>2
<1> QED
  BY <1>2, <1>3, <1>4

\* The steps that pass a gate: compareAndSet in, the flag, the decrement out.
LEMMA PassesGate ==
    ASSUME KotlinInv, NEW t \in Threads,
           \/ CompareAndSet(t) \/ Decrement(t) \/ \E w \in Wrappers : Destroy(t, w)
    PROVE  Life!LifeNext \/ UNCHANGED Life!lifeVars
<1> USE DEF Life!lifeVars, Goto
<1>1. CASE CompareAndSet(t)
  <2>1. /\ self[t] \in created /\ self[t] \in Wrappers /\ pc[t] = "cas"
        /\ UNCHANGED <<created, reachable, wasDestroyed, cleaned, self>>
    BY <1>1 DEF CompareAndSet, KotlinInv, KotlinTypeOK, ThreadOrder
  <2>2. CASE callCounter[self[t]] = c[t]
    <3>1. self[t] \notin cleaned /\ (self[t] \in wasDestroyed => Life!Inside(self[t]) # {})
      BY <1>1, <2>1, <2>2, NoEntry, InsideIsCounted
    <3>2. pc' = [pc EXCEPT ![t] = "clone"]
      BY <1>1, <2>2 DEF CompareAndSet
    <3>3. inside' = [inside EXCEPT ![t] = self[t]] /\ inside[t] = NoWrapper
      BY <2>1, <3>2 DEF inside, KotlinInv, KotlinTypeOK
    <3>4. Life!Enter(t, self[t])
      BY <2>1, <3>1, <3>3 DEF Life!Enter
    <3> QED
      BY <2>1, <3>4 DEF Life!LifeNext
  <2>3. CASE callCounter[self[t]] # c[t]
    <3>1. pc' = [pc EXCEPT ![t] = "load"]
      BY <1>1, <2>3 DEF CompareAndSet
    <3>2. UNCHANGED inside
      BY <2>1, <3>1 DEF inside, KotlinInv, KotlinTypeOK
    <3> QED
      BY <2>1, <3>2
  <2> QED
    BY <2>2, <2>3
<1>2. CASE Decrement(t)
  <2>1. /\ self[t] \in Wrappers /\ pc[t] = "finally"
        /\ UNCHANGED <<created, reachable, wasDestroyed, cleaned, self>>
        /\ \E loc \in {"clean", "idle", "lift"} : pc' = [pc EXCEPT ![t] = loc]
    BY <1>2 DEF Decrement, End, KotlinInv, KotlinTypeOK, ThreadOrder
  <2>2. inside' = [inside EXCEPT ![t] = NoWrapper] /\ inside[t] = self[t]
    BY <2>1 DEF inside, KotlinInv, KotlinTypeOK
  <2>3. Life!Leave(t)
    BY <2>1, <2>2 DEF Life!Leave
  <2> QED
    BY <2>3 DEF Life!LifeNext
<1>3. ASSUME NEW w \in Wrappers, Destroy(t, w) PROVE Life!LifeNext
  <2>1. /\ w \in reachable \ wasDestroyed /\ w \in created /\ w \notin cleaned
        /\ pc[t] = "idle" /\ pc' = [pc EXCEPT ![t] = "finally"]
        /\ self' = [self EXCEPT ![t] = w] /\ wasDestroyed' = wasDestroyed \cup {w}
        /\ UNCHANGED <<created, reachable, cleaned>>
    BY <1>3 DEF Destroy, KotlinInv, KotlinTypeOK, FreedAfterCalls
  <2>2. inside' = [inside EXCEPT ![t] = w] /\ inside[t] = NoWrapper
    BY <2>1 DEF inside, KotlinInv, KotlinTypeOK
  <2>3. Life!Close(t, w)
    BY <2>1, <2>2 DEF Life!Close
  <2> QED
    BY <2>3 DEF Life!LifeNext
<1> QED
  BY <1>1, <1>2, <1>3

\* Cleaning a wrapper frees its handle, once, with nobody inside.
LEMMA CleaningFrees ==
    ASSUME KotlinInv, NEW w \in Wrappers, w \in created \ cleaned, Counted(w) = {},
           w \in wasDestroyed \/ w \notin reachable, RunClean(w), UNCHANGED inside,
           UNCHANGED <<created, reachable, wasDestroyed>>
    PROVE  Life!LifeNext
<1>1. Life!Inside(w) = {}
  BY InsideIsCounted
<1>2. Life!Free(w)
  BY <1>1 DEF Life!Free, RunClean
<1> QED
  BY <1>2 DEF Life!LifeNext

\* The wrappers implement their abstract life, for any number of wrappers, threads and calls:
\* destroy(), however often and whenever, the calls in flight and the collector free each
\* handle once, when nobody is in a call of the wrapper, and no call enters afterwards.
THEOREM WrappersImplementLife == Spec => ImplementsLife
<1>1. Init => Life!LifeInit
  <2> SUFFICES ASSUME Init PROVE Life!LifeInit
    OBVIOUS
  <2>1. inside = [t \in Threads |-> NoWrapper]
    BY DEF Init, inside
  <2> QED
    BY <2>1 DEF Init, Life!LifeInit
<1>2. KotlinInv /\ [Next]_vars => [Life!LifeNext]_(Life!lifeVars)
  <2> SUFFICES ASSUME KotlinInv, [Next]_vars
               PROVE  Life!LifeNext \/ UNCHANGED Life!lifeVars
    OBVIOUS
  <2>a. KotlinTypeOK
    BY DEF KotlinInv
  <2>1. ASSUME NEW t \in Threads, Clean(t) PROVE Life!LifeNext
    <3>1. /\ self[t] \in Wrappers /\ self[t] \in created \ cleaned /\ Counted(self[t]) = {}
          /\ self[t] \in wasDestroyed
      BY <2>1 DEF Clean, KotlinInv, KotlinTypeOK, OneCleaner
    <3>2. pc[t] = "clean" /\ self' = self /\ \E loc \in {"idle", "lift"} : pc' = [pc EXCEPT ![t] = loc]
      BY <2>1 DEF Clean, Goto, End
    <3>3. UNCHANGED inside
      BY <2>a, <3>2 DEF inside, KotlinTypeOK
    <3> QED
      BY <2>1, <3>1, <3>3, CleaningFrees DEF Clean
  <2>2. ASSUME NEW t \in Threads, Lift(t) PROVE Life!LifeNext
    <3>1. /\ fresh[t] \in Wrappers \ created /\ created' = created \cup {fresh[t]}
          /\ reachable' = reachable \cup {fresh[t]} /\ UNCHANGED <<wasDestroyed, cleaned, self>>
          /\ pc[t] = "lift" /\ pc' = [pc EXCEPT ![t] = "idle"]
      BY <2>2 DEF Lift, Goto, KotlinInv, FreshNew, KotlinTypeOK
    <3>2. UNCHANGED inside
      BY <2>a, <3>1 DEF inside, KotlinTypeOK
    <3>3. created' \ reachable' = created \ reachable
      BY <2>a, <3>1 DEF KotlinTypeOK
    <3>4. Life!Make(fresh[t])
      BY <3>1, <3>2, <3>3 DEF Life!Make
    <3> QED
      BY <3>1, <3>4 DEF Life!LifeNext
  <2>3. ASSUME NEW w \in Wrappers, Forget(w) PROVE Life!LifeNext
    <3>1. UNCHANGED <<created, wasDestroyed, cleaned, inside>>
      BY <2>3 DEF Forget, threadVars, inside
    <3>2. Life!Forget(w)
      BY <2>a, <2>3, <3>1 DEF Forget, Life!Forget, KotlinTypeOK
    <3> QED
      BY <3>2 DEF Life!LifeNext
  <2>4. ASSUME NEW w \in Wrappers, Collect(w) PROVE Life!LifeNext
    <3>1. w \in created \ (reachable \cup cleaned) /\ RunClean(w)
          /\ UNCHANGED <<created, reachable, wasDestroyed, inside>>
      BY <2>4 DEF Collect, threadVars, inside
    <3>2. Counted(w) = {}
      BY <2>4 DEF Collect, InUse, Counted
    <3> QED
      BY <3>1, <3>2, CleaningFrees
  <2>5. ASSUME NEW t \in Threads, Keep(t) PROVE UNCHANGED Life!lifeVars
    BY <2>5 DEF Keep, wrapperVars, threadVars, inside, Life!lifeVars
  <2>6. CASE RustDrops \/ UNCHANGED vars
    BY <2>6 DEF RustDrops, vars, wrapperVars, threadVars, inside, Life!lifeVars
  <2>7. ASSUME NEW t \in Threads, ThreadRuns(t)
        PROVE  Life!LifeNext \/ UNCHANGED Life!lifeVars
    <3>1. CASE CompareAndSet(t) \/ Decrement(t)
      BY <3>1, PassesGate
    <3>2. CASE Clean(t) \/ Lift(t)
      BY <3>2, <2>1, <2>2
    <3>3. CASE \/ LoadCounter(t) \/ CloneHandle(t) \/ LowerArgument(t) \/ LoweringFails(t)
               \/ LiftArguments(t) \/ LiftFails(t) \/ Return(t) \/ ReturnFuture(t)
               \/ \E w \in Wrappers : ReturnObject(t, w)
      BY <2>a, <3>3, StaysInside
    <3> QED
      BY <2>7, <3>1, <3>2, <3>3 DEF ThreadRuns
  <2>8. ASSUME NEW t \in Threads, NEW w \in Wrappers, Destroy(t, w)
        PROVE  Life!LifeNext \/ UNCHANGED Life!lifeVars
    BY <2>8, PassesGate
  <2>9. ASSUME NEW t \in Threads, NEW w \in Wrappers,
               CallFunction(t, w) \/ \E a \in Wrappers \cup {NoWrapper} : CallMethod(t, w, a)
        PROVE  UNCHANGED Life!lifeVars
    BY <2>a, <2>9, StaysInside
  <2> QED
    BY <2>3, <2>4, <2>5, <2>6, <2>7, <2>8, <2>9 DEF Next
<1> QED
  BY <1>1, <1>2, KotlinInvariant, PTL DEF Spec, ImplementsLife, Life!LifeSpec
=============================================================================
