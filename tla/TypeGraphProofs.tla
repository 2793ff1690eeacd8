-------------------------- MODULE TypeGraphProofs --------------------------
(***************************************************************************)
(* What the proofs about the passes need of reachability in a type graph.  *)
(***************************************************************************)
EXTENDS TypeGraph, Sequences, Integers, SequenceTheorems, TLAPS

\* A reference is a chain of length one.
LEMMA ReachesDep ==
  ASSUME NEW t \in Types, NEW u \in deps[t]
  PROVE  Reaches(t, u)
  BY DEF Reaches

\* Two chains of references, the second from where the first ends, make one.
LEMMA ReachesTrans ==
  ASSUME NEW t \in Types, NEW u \in Types, NEW v \in Types,
         Reaches(t, u), Reaches(u, v)
  PROVE  Reaches(t, v)
  <1> SUFFICES ASSUME NEW S \in SUBSET Types, Closed(S), deps[t] \subseteq S
               PROVE  v \in S
    BY DEF Reaches
  <1>1. u \in S
    BY DEF Reaches
  <1>2. deps[u] \subseteq S
    BY <1>1 DEF Closed
  <1> QED
    BY <1>2 DEF Reaches

\* A step that does not change the graph changes no chain.
LEMMA ReachesUnchanged ==
  ASSUME deps' = deps, NEW t, NEW u
  PROVE  Reaches(t, u)' <=> Reaches(t, u)
  BY DEF Reaches, Closed

\* The empty set of types holds no cycle.
LEMMA EmptyAcyclic == Acyclic({})
  BY DEF Acyclic

\* A type that does not refer to itself, and that no member of S refers to,
\* closes no cycle in S.
LEMMA AcyclicAdd ==
  ASSUME NEW S \in SUBSET Types, NEW v \in Types, Acyclic(S),
         v \notin deps[v], \A t \in S : v \notin deps[t]
  PROVE  Acyclic(S \cup {v})
  <1> SUFFICES ASSUME NEW P \in SUBSET (S \cup {v}), P # {}
               PROVE  \E t \in P : deps[t] \cap P = {}
    BY DEF Acyclic
  <1>1. CASE P \ {v} = {}
    <2>1. P = {v}
      BY <1>1
    <2> QED
      BY <2>1
  <1>2. CASE P \ {v} # {}
    <2>1. P \ {v} \in SUBSET S
      OBVIOUS
    <2>2. PICK t \in P \ {v} : deps[t] \cap (P \ {v}) = {}
      BY <1>2, <2>1 DEF Acyclic
    <2>3. v \notin deps[t]
      BY <2>1, <2>2
    <2> QED
      BY <2>2, <2>3
  <1> QED
    BY <1>1, <1>2

\* A part of a set without a cycle has none.
LEMMA AcyclicPart ==
  ASSUME NEW S, NEW P \in SUBSET S, Acyclic(S)
  PROVE  Acyclic(P)
  BY DEF Acyclic

\* A step that does not change the graph makes no cycle.
LEMMA AcyclicUnchanged ==
  ASSUME deps' = deps, NEW S, Acyclic(S)
  PROVE  Acyclic(S)'
  BY DEF Acyclic

\* What is left of a stack when its top is removed.
LEMMA FrontOf ==
  ASSUME NEW F, NEW s \in Seq(F), Len(s) \in 1..Len(s)
  PROVE  /\ SubSeq(s, 1, Len(s) - 1) \in Seq(F)
         /\ Len(SubSeq(s, 1, Len(s) - 1)) = Len(s) - 1
         /\ \A i \in 1..(Len(s) - 1) : SubSeq(s, 1, Len(s) - 1)[i] = s[i]
  <1> DEFINE n == Len(s)
  <1>1. n \in Nat /\ n >= 1 /\ n - 1 \in Int
    OBVIOUS
  <1>2. \A i \in 1..(n - 1) : s[i] \in F
    OBVIOUS
  <1> HIDE DEF n
  <1>3. /\ SubSeq(s, 1, n - 1) \in Seq(F)
        /\ Len(SubSeq(s, 1, n - 1)) = IF 1 <= n - 1 THEN n - 1 - 1 + 1 ELSE 0
        /\ \A i \in 1..(n - 1 - 1 + 1) : SubSeq(s, 1, n - 1)[i] = s[1 + i - 1]
    BY <1>1, <1>2, SubSeqProperties
  <1>4. Len(SubSeq(s, 1, n - 1)) = n - 1
    BY <1>1, <1>3
  <1>5. \A i \in 1..(n - 1) : 1 + i - 1 = i /\ i \in 1..(n - 1 - 1 + 1)
    BY <1>1
  <1>6. \A i \in 1..(n - 1) : SubSeq(s, 1, n - 1)[i] = s[i]
    BY <1>3, <1>5
  <1> QED
    BY <1>3, <1>4, <1>6 DEF n
=============================================================================
