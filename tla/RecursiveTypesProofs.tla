------------------------ MODULE RecursiveTypesProofs ------------------------
(***************************************************************************)
(* Proofs about RecursiveTypes, for any set of types and any graph: only   *)
(* members of cycles are marked, and every cycle has a marked member.      *)
(***************************************************************************)
EXTENDS RecursiveTypes, TypeGraphProofs

\* The types on the stack are different and their searches have not ended.
StackDistinct ==
  /\ \A i, j \in DOMAIN stack : stack[i].name = stack[j].name => i = j
  /\ \A i \in DOMAIN stack : stack[i].name \notin visited

\* The stack is a path: each type leads to all that follow it.
StackPath ==
  \A i, j \in DOMAIN stack : i < j => Reaches(stack[i].name, stack[j].name)

\* What a call has still to look at is a part of what its type refers to.
RestOfDeps == \A i \in DOMAIN stack : stack[i].rest \subseteq deps[stack[i].name]

\* A reference whose search has been done leads to a type that is finished,
\* or marked (it was on the stack), or is the one that the search is in.
LookedAt ==
  \A i \in DOMAIN stack : \A u \in deps[stack[i].name] \ stack[i].rest :
    \/ u \in visited \cup recursive
    \/ i < Len(stack) /\ u = stack[i + 1].name

\* A finished type refers to finished or marked types only.
Finished == \A t \in visited : deps[t] \subseteq visited \cup recursive

\* The types that the outer loop has passed are finished or on the stack.
Passed == Types \ todo \subseteq visited \cup Names(stack)

MarkInv ==
  /\ TypeOK
  /\ StackDistinct
  /\ StackPath
  /\ RestOfDeps
  /\ LookedAt
  /\ Finished
  /\ Passed
  /\ OnlyRecursiveMarked
  /\ Acyclic(visited \ recursive)

-----------------------------------------------------------------------------
\* The invariant holds before the first key is taken.
LEMMA MarkInit == Init => MarkInv
  <1> SUFFICES ASSUME Init PROVE MarkInv
    OBVIOUS
  <1>1. TypeOK
    BY DEF Init, TypeOK
  <1>2. DOMAIN stack = {}
    BY DEF Init
  <1>3. Acyclic(visited \ recursive)
    BY EmptyAcyclic DEF Init
  <1> QED
    BY <1>1, <1>2, <1>3
    DEF Init, MarkInv, StackDistinct, StackPath, RestOfDeps, LookedAt, Finished,
        Passed, Names, OnlyRecursiveMarked

-----------------------------------------------------------------------------
\* A call that is entered for a type that is neither finished nor on the
\* stack: the outer loop's first, or the innermost call's for a neighbour.
\* b is the stack without it.
LEMMA PushStep ==
  ASSUME MarkInv, NEW t \in Types, t \notin visited, NEW b \in Seq(Frame),
         stack' = Append(b, [name |-> t, rest |-> deps[t]]),
         deps' = deps, visited' = visited, recursive' = recursive,
         todo' \subseteq todo, todo \ todo' \subseteq {t},
         Len(b) = Len(stack),
         t \notin Names(b),
         \A i \in 1..Len(b) : b[i].name = stack[i].name,
         \A i \in 1..Len(b) : \/ b[i].rest = stack[i].rest
                              \/ i = Len(b) /\ b[i].rest = stack[i].rest \ {t},
         Len(b) > 0 => t \in deps[b[Len(b)].name]
  PROVE  MarkInv'
  <1> DEFINE n == Len(b)
  <1>1. /\ n \in Nat
        /\ DOMAIN stack = 1..n
        /\ DOMAIN stack' = 1..(n + 1)
        /\ Len(stack') = n + 1
        /\ \A i \in 1..n : stack'[i] = b[i] /\ stack[i] \in Frame /\ b[i] \in Frame
        /\ stack'[n + 1] = [name |-> t, rest |-> deps[t]]
        /\ DOMAIN b = 1..n
        /\ stack' \in Seq(Frame)
    <2>1. stack \in Seq(Frame) /\ deps \in [Types -> SUBSET Types]
      BY DEF MarkInv, TypeOK, IsGraph
    <2>2. [name |-> t, rest |-> deps[t]] \in Frame
      BY <2>1 DEF Frame
    <2> HIDE DEF Frame
    <2> QED
      BY <2>1, <2>2
  <1> HIDE DEF n
  <1>2. \A i \in 1..n : stack'[i].name = stack[i].name /\ stack'[i].name # t
                        /\ stack'[i].name \in Types
    BY <1>1 DEF Names, Frame, n
  <1>3. \A x, y : Reaches(x, y)' <=> Reaches(x, y)
    BY DEF Reaches, Closed
  <1>4. TypeOK'
    BY <1>1 DEF MarkInv, TypeOK, IsGraph
  <1>5. StackDistinct'
    BY <1>1, <1>2 DEF MarkInv, StackDistinct
  <1>6. StackPath'
    <2> SUFFICES ASSUME NEW i \in 1..(n + 1), NEW j \in 1..(n + 1), i < j
                 PROVE  Reaches(stack'[i].name, stack'[j].name)
      BY <1>1, <1>3 DEF StackPath
    <2>1. i \in 1..n
      BY <1>1
    <2>2. CASE j \in 1..n
      BY <1>1, <1>2, <2>1, <2>2 DEF MarkInv, StackPath
    <2>3. CASE j = n + 1
      <3>1. stack'[j].name = t
        BY <1>1, <2>3
      <3>2. n \in 1..n /\ b[n].name = stack[n].name
        BY <1>1, <1>2, <2>1
      <3>3. t \in deps[stack[n].name] /\ Reaches(stack[n].name, t)
        <4>1. n > 0
          BY <3>2
        <4>2. t \in deps[b[n].name]
          BY <4>1 DEF n
        <4>3. stack[n].name \in Types
          BY <1>2, <3>2
        <4>4. t \in deps[stack[n].name]
          BY <3>2, <4>2
        <4>5. Reaches(stack[n].name, t)
          <5> DEFINE x == stack[n].name
          <5>1. x \in Types /\ t \in deps[x]
            BY <4>3, <4>4
          <5> HIDE DEF x
          <5>2. Reaches(x, t)
            BY <5>1, ReachesDep
          <5> QED
            BY <5>2 DEF x
        <4> QED
          BY <4>4, <4>5
      <3>4. CASE i = n
        BY <3>1, <3>3, <3>4, <1>2, <2>1
      <3>5. CASE i # n
        <4>1. Reaches(stack[i].name, stack[n].name)
          <5>1. i < n /\ i \in DOMAIN stack /\ n \in DOMAIN stack
            BY <1>1, <2>1, <3>2, <3>5
          <5>2. StackPath
            BY DEF MarkInv
          <5> QED
            BY ONLY <5>1, <5>2 DEF StackPath
        <4>2. stack'[i].name = stack[i].name /\ stack[i].name \in Types /\ stack[n].name \in Types
          BY <1>2, <2>1, <3>2
        <4>3. Reaches(stack[i].name, t)
          BY <4>1, <4>2, <3>3, ReachesTrans
        <4> QED
          BY <4>2, <4>3, <3>1
      <3> QED
        BY <3>4, <3>5
    <2>4. j \in 1..n \/ j = n + 1
      BY <1>1
    <2> QED
      BY <2>2, <2>3, <2>4
  <1>7. RestOfDeps'
    BY <1>1, <1>2 DEF MarkInv, RestOfDeps
  <1>8. LookedAt'
    BY <1>1, <1>2 DEF MarkInv, LookedAt
  <1>9. Finished'
    BY DEF MarkInv, Finished
  <1>10. Passed'
    BY <1>1, <1>2 DEF MarkInv, Passed, Names
  <1>11. OnlyRecursiveMarked'
    BY <1>3 DEF MarkInv, OnlyRecursiveMarked, OnCycle
  <1>12. Acyclic(visited \ recursive)'
    BY DEF MarkInv, Acyclic
  <1> QED
    BY <1>4, <1>5, <1>6, <1>7, <1>8, <1>9, <1>10, <1>11, <1>12 DEF MarkInv

-----------------------------------------------------------------------------
\* The innermost call comes to a neighbour t that is finished, or that is on
\* the stack, with all that follow it marked.
LEMMA NeighbourStep ==
  ASSUME MarkInv, NEW t \in Types, stack # <<>>, t \in Top.rest,
         stack' = [stack EXCEPT ![Len(stack)].rest = @ \ {t}],
         UNCHANGED <<deps, todo, visited>>,
         \/ t \in visited /\ recursive' = recursive
         \/ /\ t \in Names(stack)
            /\ recursive' = recursive \cup
                 {stack[i].name : i \in {j \in DOMAIN stack :
                    \E k \in 1..j : stack[k].name = t}}
  PROVE  MarkInv'
  <1> DEFINE n == Len(stack)
  <1>1. /\ n \in Nat /\ n \in 1..n
        /\ DOMAIN stack = 1..n
        /\ DOMAIN stack' = 1..n
        /\ Len(stack') = n
        /\ stack' \in Seq(Frame)
        /\ \A i \in 1..n : stack[i] \in Frame
        /\ t \in stack[n].rest
    <2>1. stack \in Seq(Frame) /\ n \in 1..n
      BY DEF MarkInv, TypeOK
    <2>2. stack[n] \in Frame
      BY <2>1
    <2>3. [stack[n] EXCEPT !.rest = @ \ {t}] \in Frame
      BY <2>2 DEF Frame
    <2>4. stack' = [stack EXCEPT ![n] = [stack[n] EXCEPT !.rest = @ \ {t}]]
      BY <2>1
    <2> HIDE DEF Frame
    <2> QED
      BY <2>1, <2>3, <2>4 DEF Top
  <1>2. \A i \in 1..n : stack'[i].name = stack[i].name /\ stack[i].name \in Types
    BY <1>1 DEF Frame
  <1>3. \A i \in 1..n : stack'[i].rest = IF i = n THEN stack[i].rest \ {t} ELSE stack[i].rest
    BY <1>1 DEF Frame
  <1> HIDE DEF n
  <1>4. \A x, y : Reaches(x, y)' <=> Reaches(x, y)
    BY DEF Reaches, Closed
  <1>5. t \in deps[stack[n].name] /\ t \in visited \cup recursive'
    <2>1. t \in deps[stack[n].name]
      BY <1>1 DEF MarkInv, RestOfDeps
    <2>2. ASSUME t \in Names(stack) PROVE \E i \in 1..n : stack[i].name = t
      BY <1>1, <2>2 DEF Names
    <2> QED
      BY <1>1, <2>1, <2>2
  <1>6. recursive' \subseteq Types /\ recursive \subseteq recursive'
    BY <1>1, <1>2 DEF MarkInv, TypeOK
  <1>7. TypeOK'
    BY <1>1, <1>6 DEF MarkInv, TypeOK, IsGraph
  <1>8. StackDistinct'
    BY <1>1, <1>2 DEF MarkInv, StackDistinct
  <1>9. StackPath'
    BY <1>1, <1>2, <1>4 DEF MarkInv, StackPath
  <1>10. RestOfDeps'
    BY <1>1, <1>2, <1>3 DEF MarkInv, RestOfDeps
  <1>11. LookedAt'
    BY <1>1, <1>2, <1>3, <1>5, <1>6 DEF MarkInv, LookedAt
  <1>12. Finished'
    BY <1>6 DEF MarkInv, Finished
  <1>13. Passed'
    BY <1>1, <1>2 DEF MarkInv, Passed, Names
  <1>14. OnlyRecursiveMarked'
    <2> SUFFICES ASSUME NEW x \in recursive', x \notin recursive
                 PROVE  OnCycle(x)
      BY <1>4 DEF MarkInv, OnlyRecursiveMarked, OnCycle
    <2>1. PICK j \in 1..n : x = stack[j].name /\ \E k \in 1..j : stack[k].name = t
      BY <1>1
    <2>2. PICK k \in 1..j : stack[k].name = t
      BY <2>1
    <2>3. k \in 1..n /\ t \in Types /\ x \in Types
      BY <1>1, <1>2, <2>1, <2>2
    <2>4. Reaches(stack[n].name, t)
      BY <1>1, <1>2, <1>5, ReachesDep
    <2>5. Reaches(x, t)
      <3>1. CASE j = n
        BY <2>1, <2>4, <3>1
      <3>2. CASE j # n
        <4>1. Reaches(x, stack[n].name)
          BY <1>1, <2>1, <3>2 DEF MarkInv, StackPath
        <4> QED
          BY <4>1, <2>3, <2>4, <1>1, <1>2, ReachesTrans
      <3> QED
        BY <3>1, <3>2
    <2>6. CASE k = j
      BY <2>1, <2>2, <2>5, <2>6 DEF OnCycle
    <2>7. CASE k # j
      <3>1. Reaches(t, x)
        BY <1>1, <2>1, <2>2, <2>3, <2>7 DEF MarkInv, StackPath
      <3> QED
        BY <3>1, <2>3, <2>5, ReachesTrans DEF OnCycle
    <2> QED
      BY <2>6, <2>7
  <1>15. Acyclic(visited \ recursive)'
    BY <1>6 DEF MarkInv, Acyclic
  <1> QED
    BY <1>7, <1>8, <1>9, <1>10, <1>11, <1>12, <1>13, <1>14, <1>15 DEF MarkInv

-----------------------------------------------------------------------------
\* The innermost call returns: all that its type refers to is finished or
\* marked, and unless it is marked itself no finished type refers to it.
LEMMA ReturnStep ==
  ASSUME MarkInv, Return
  PROVE  MarkInv'
  <1> DEFINE n == Len(stack)
             v == Top.name
  <1>1. /\ n \in Nat /\ n \in 1..n
        /\ DOMAIN stack = 1..n
        /\ DOMAIN stack' = 1..(n - 1)
        /\ Len(stack') = n - 1
        /\ stack' \in Seq(Frame)
        /\ \A i \in 1..n : stack[i] \in Frame
        /\ \A i \in 1..(n - 1) : stack'[i] = stack[i]
        /\ v = stack[n].name /\ v \in Types /\ stack[n].rest = {}
    <2>1. stack \in Seq(Frame) /\ n \in 1..n
      BY DEF MarkInv, TypeOK, Return
    <2>2. stack[n] \in Frame
      BY <2>1
    <2>3. v \in Types
      BY <2>2 DEF Frame, Top
    <2> HIDE DEF Frame
    <2>4. stack' = SubSeq(stack, 1, n - 1)
      BY DEF Return
    <2>5. /\ stack' \in Seq(Frame)
          /\ Len(stack') = n - 1
          /\ \A i \in 1..(n - 1) : stack'[i] = stack[i]
      BY <2>1, <2>4, FrontOf
    <2>6. DOMAIN stack' = 1..(n - 1) /\ DOMAIN stack = 1..n
      BY <2>1, <2>5
    <2>7. v = stack[n].name /\ stack[n].rest = {}
      BY DEF Return, Top
    <2>8. \A i \in 1..n : stack[i] \in Frame
      BY <2>1
    <2> HIDE DEF n, v
    <2> QED
      BY <2>1, <2>3, <2>5, <2>6, <2>7, <2>8
  <1>2. /\ visited' = visited \cup {v} /\ recursive' = recursive
        /\ deps' = deps /\ todo' = todo
    BY DEF Return
  <1> HIDE DEF n, v
  <1>3. \A x, y : Reaches(x, y)' <=> Reaches(x, y)
    BY <1>2 DEF Reaches, Closed
  <1>4. deps[v] \subseteq visited \cup recursive
    BY <1>1 DEF MarkInv, LookedAt
  <1>5. v \notin visited /\ \A i \in 1..(n - 1) : stack[i].name # v
    BY <1>1 DEF MarkInv, StackDistinct
  <1>6. TypeOK'
    BY <1>1, <1>2 DEF MarkInv, TypeOK, IsGraph
  <1>7. StackDistinct'
    BY <1>1, <1>2, <1>5 DEF MarkInv, StackDistinct
  <1>8. StackPath'
    BY <1>1, <1>3 DEF MarkInv, StackPath
  <1>9. RestOfDeps'
    BY <1>1, <1>2 DEF MarkInv, RestOfDeps
  <1>10. LookedAt'
    BY <1>1, <1>2 DEF MarkInv, LookedAt
  <1>11. Finished'
    BY <1>2, <1>4 DEF MarkInv, Finished
  <1>12. Passed'
    BY <1>1, <1>2 DEF MarkInv, Passed, Names
  <1>13. OnlyRecursiveMarked'
    BY <1>2, <1>3 DEF MarkInv, OnlyRecursiveMarked, OnCycle
  <1>14. Acyclic((visited \cup {v}) \ recursive)
    <2>1. CASE v \in recursive
      <3>1. (visited \cup {v}) \ recursive = visited \ recursive
        BY <2>1
      <3> QED
        BY <3>1 DEF MarkInv
    <2>2. CASE v \notin recursive
      <3>1. (visited \cup {v}) \ recursive = (visited \ recursive) \cup {v}
        BY <2>2
      <3>2. v \notin deps[v] /\ \A t \in visited \ recursive : v \notin deps[t]
        BY <1>4, <1>5, <2>2 DEF MarkInv, Finished
      <3>3. visited \ recursive \in SUBSET Types
        BY DEF MarkInv, TypeOK
      <3>4. Acyclic(visited \ recursive)
        BY DEF MarkInv
      <3>5. Acyclic((visited \ recursive) \cup {v})
        BY <1>1, <3>2, <3>3, <3>4, AcyclicAdd
      <3> QED
        BY <3>1, <3>5
    <2> QED
      BY <2>1, <2>2
  <1>15. Acyclic(visited \ recursive)'
    BY <1>2, <1>14 DEF Acyclic
  <1> QED
    BY <1>6, <1>7, <1>8, <1>9, <1>10, <1>11, <1>12, <1>13, <1>15 DEF MarkInv

-----------------------------------------------------------------------------
\* Each step preserves the invariant.
LEMMA MarkStep == MarkInv /\ [Next]_vars => MarkInv'
  <1> SUFFICES ASSUME MarkInv, [Next]_vars PROVE MarkInv'
    OBVIOUS
  <1>1. ASSUME NEW t \in Types, Root(t) PROVE MarkInv'
    <2>0. stack \in Seq(Frame) /\ Len(stack) = 0 /\ Names(stack) = {} /\ stack = <<>>
      BY <1>1 DEF MarkInv, TypeOK, Root, Names
    <2>1. CASE t \in visited
      <3>1. /\ stack' = stack /\ recursive' = recursive /\ deps' = deps
            /\ visited' = visited /\ todo' = todo \ {t}
        BY <1>1, <2>1 DEF Root, Enter
      <3>2. DOMAIN stack = {} /\ DOMAIN stack' = {}
        BY <2>0, <3>1
      <3>3. TypeOK' /\ Passed' /\ OnlyRecursiveMarked'
        BY <2>1, <3>1 DEF MarkInv, TypeOK, IsGraph, Passed, Names,
           OnlyRecursiveMarked, OnCycle, Reaches, Closed
      <3>4. Finished' /\ Acyclic(visited \ recursive)'
        BY <3>1 DEF MarkInv, Finished, Acyclic
      <3> QED
        BY <3>2, <3>3, <3>4
        DEF MarkInv, StackDistinct, StackPath, RestOfDeps, LookedAt
    <2>2. CASE t \notin visited
      <3>1. /\ stack' = Append(stack, [name |-> t, rest |-> deps[t]])
            /\ recursive' = recursive /\ deps' = deps
            /\ visited' = visited /\ todo' = todo \ {t}
        BY <1>1, <2>0, <2>2 DEF Root, Enter
      <3>2. todo' \subseteq todo /\ todo \ todo' \subseteq {t} /\ t \notin Names(stack)
        BY <2>0, <3>1
      <3>3. /\ \A i \in 1..Len(stack) : stack[i].name = stack[i].name
            /\ \A i \in 1..Len(stack) : \/ stack[i].rest = stack[i].rest
                                        \/ i = Len(stack) /\ stack[i].rest = stack[i].rest \ {t}
            /\ Len(stack) > 0 => t \in deps[stack[Len(stack)].name]
            /\ Len(stack) = Len(stack)
        BY <2>0
      <3>4. stack \in Seq(Frame)
        BY <2>0
      <3> QED
        BY ONLY MarkInv, <2>2, <3>1, <3>2, <3>3, <3>4, PushStep
    <2> QED
      BY <2>1, <2>2
  <1>2. ASSUME NEW t \in Types, Neighbour(t) PROVE MarkInv'
    <2> DEFINE n == Len(stack)
               b == [stack EXCEPT ![n].rest = @ \ {t}]
    <2>1. /\ stack # <<>> /\ t \in Top.rest /\ Enter(t, b)
          /\ deps' = deps /\ todo' = todo /\ visited' = visited
      BY <1>2 DEF Neighbour
    <2>2. stack \in Seq(Frame) /\ n \in 1..n /\ stack[n] \in Frame
      BY <2>1 DEF MarkInv, TypeOK
    <2>3. /\ b \in Seq(Frame) /\ Len(b) = n /\ DOMAIN b = 1..n /\ DOMAIN stack = 1..n
          /\ \A i \in 1..n : b[i].name = stack[i].name
          /\ \A i \in 1..n : b[i].rest = IF i = n THEN stack[i].rest \ {t} ELSE stack[i].rest
      <3>1. [stack[n] EXCEPT !.rest = @ \ {t}] \in Frame
        BY <2>2 DEF Frame
      <3>2. b = [stack EXCEPT ![n] = [stack[n] EXCEPT !.rest = @ \ {t}]]
        BY <2>2
      <3>3. b \in Seq(Frame) /\ Len(b) = n
        <4> HIDE DEF Frame
        <4> QED
          BY <2>2, <3>1, <3>2
      <3>4. \A i \in 1..n : stack[i] \in Frame
        BY <2>2
      <3>5. DOMAIN b = 1..n /\ DOMAIN stack = 1..n
        BY <2>2, <3>3
      <3> QED
        BY <2>2, <3>2, <3>3, <3>4, <3>5 DEF Frame
    <2>4. Names(b) = Names(stack)
      BY <2>3 DEF Names
    <2>5. CASE t \in visited
      <3>1. stack' = b /\ recursive' = recursive
        BY <2>1, <2>5 DEF Enter
      <3> QED
        BY <2>1, <2>5, <3>1, NeighbourStep
    <2>6. CASE t \notin visited /\ t \in Names(stack)
      <3>1. stack' = b
        BY <2>1, <2>4, <2>6 DEF Enter
      <3>2. recursive' = recursive \cup
              {b[i].name : i \in {j \in DOMAIN b : \E k \in 1..j : b[k].name = t}}
        BY <2>1, <2>4, <2>6 DEF Enter
      <3>3. recursive' = recursive \cup
              {stack[i].name : i \in {j \in DOMAIN stack : \E k \in 1..j : stack[k].name = t}}
        <4> DEFINE I == {j \in 1..n : \E k \in 1..j : stack[k].name = t}
        <4>1. \A j \in 1..n : \A k \in 1..j : k \in 1..n
          BY <2>2
        <4> HIDE DEF b, n
        <4>2. \A j \in 1..n : (\E k \in 1..j : b[k].name = t) <=> j \in I
          BY <2>3, <4>1
        <4>3. {j \in DOMAIN b : \E k \in 1..j : b[k].name = t} = I
          BY <2>3, <4>2
        <4>4. {j \in DOMAIN stack : \E k \in 1..j : stack[k].name = t} = I
          BY <2>3
        <4>5. \A i \in I : b[i].name = stack[i].name
          BY <2>3
        <4> HIDE DEF I
        <4>6. {b[i].name : i \in I} = {stack[i].name : i \in I}
          BY <4>5
        <4> QED
          BY <3>2, <4>3, <4>4, <4>6
      <3> QED
        BY <2>1, <2>6, <3>1, <3>3, NeighbourStep
    <2>7. CASE t \notin visited /\ t \notin Names(stack)
      <3>1. stack' = Append(b, [name |-> t, rest |-> deps[t]]) /\ recursive' = recursive
        BY <2>1, <2>4, <2>7 DEF Enter
      <3>2. t \in deps[b[Len(b)].name]
        BY <2>1, <2>2, <2>3 DEF MarkInv, RestOfDeps, Top
      <3>3. todo' \subseteq todo /\ todo \ todo' \subseteq {t}
        BY <2>1
      <3> HIDE DEF b
      <3> QED
        BY <2>1, <2>3, <2>4, <2>7, <3>1, <3>2, <3>3, PushStep
    <2> QED
      BY <2>5, <2>6, <2>7
  <1>3. CASE Return
    BY <1>3, ReturnStep
  <1>4. CASE UNCHANGED vars
    BY <1>4
    DEF vars, MarkInv, TypeOK, IsGraph, StackDistinct, StackPath, RestOfDeps, LookedAt,
        Finished, Passed, Names, OnlyRecursiveMarked, OnCycle, Reaches, Closed, Acyclic
  <1> QED
    BY <1>1, <1>2, <1>3, <1>4 DEF Next, Terminated

\* The types of the variables, and what the search maintains.
THEOREM MarkInvariant == Spec => []MarkInv
  BY MarkInit, MarkStep, PTL DEF Spec

\* Only types that a cycle runs through are declared recursive, in whatever
\* order the hash tables give them.
THEOREM MarkedAreRecursive == Spec => []OnlyRecursiveMarked
  <1>1. MarkInv => OnlyRecursiveMarked
    BY DEF MarkInv
  <1> QED
    BY <1>1, MarkInvariant, PTL

\* Every cycle has a member that is declared recursive: the pass may miss
\* members of a cycle, but it misses no cycle.
THEOREM CyclesAreBroken == Spec => []EveryCycleBroken
  <1>1. MarkInv => EveryCycleBroken
    <2> SUFFICES ASSUME MarkInv, Done PROVE Acyclic(Types \ recursive)
      BY DEF EveryCycleBroken
    <2>1. Names(stack) = {}
      BY DEF Done, Names
    <2>2. visited = Types
      BY <2>1 DEF MarkInv, TypeOK, Done, Passed
    <2> QED
      BY <2>2 DEF MarkInv
  <1> QED
    BY <1>1, MarkInvariant, PTL

\* The cycles that occur in practice: a type that refers to itself is declared recursive,
\* and of two types that refer to each other at least one is.
ShortCyclesMarked ==
  Done =>
    /\ \A t \in Types : t \in deps[t] => t \in recursive
    /\ \A t, u \in Types : u \in deps[t] /\ t \in deps[u] => t \in recursive \/ u \in recursive

\* What a user can rely on where EveryRecursiveMarked fails: the pass misses no type that
\* refers to itself, and no pair of types altogether.
THEOREM DirectRecursionMarked == Spec => []ShortCyclesMarked
  <1>1. EveryCycleBroken => ShortCyclesMarked
    <2> SUFFICES ASSUME Done, Acyclic(Types \ recursive) PROVE ShortCyclesMarked
      BY DEF EveryCycleBroken, ShortCyclesMarked
    <2>1. ASSUME NEW t \in Types \ recursive, NEW u \in Types \ recursive
          PROVE  \E v \in {t, u} : deps[v] \cap {t, u} = {}
      <3>1. {t, u} \in SUBSET (Types \ recursive) /\ {t, u} # {}
        OBVIOUS
      <3> QED
        BY <3>1 DEF Acyclic
    <2> QED
      BY <2>1 DEF ShortCyclesMarked
  <1> QED
    BY <1>1, CyclesAreBroken, PTL
=============================================================================
