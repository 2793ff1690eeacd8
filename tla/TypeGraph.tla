----------------------------- MODULE TypeGraph -----------------------------
(***************************************************************************)
(* The type definitions of an interface as a directed graph, the input of  *)
(* the generator's search for recursive types.  deps[t] is the set of      *)
(* definitions that t refers to.  A reference to a type without a          *)
(* definition of its own (a builtin, an external type) is a leaf of the    *)
(* search and is modelled by a definition that refers to nothing.          *)
(***************************************************************************)
CONSTANT Types  \* the names of the definitions

VARIABLE deps   \* the graph, fixed while the search runs

IsGraph == deps \in [Types -> SUBSET Types]

\* The search keeps the path from its root to the current type on a stack: the
\* recursion of dfs, one frame per call in progress.
Frame == [name : Types, rest : SUBSET Types]

Names(stack) == {stack[i].name : i \in DOMAIN stack}

\* S holds everything that its members refer to.
Closed(S) == \A t \in S : deps[t] \subseteq S

\* A chain of one or more references leads from t to u: u is in every closed
\* set that holds what t refers to.
Reaches(t, u) ==
  \A S \in SUBSET Types : Closed(S) /\ deps[t] \subseteq S => u \in S

\* A node is in a cycle if any path of edges leads back to itself.
OnCycle(t) == Reaches(t, t)

\* No cycle lies within S: every part of S has a member that refers to
\* nothing in that part.
Acyclic(S) ==
  \A P \in SUBSET S : P # {} => \E t \in P : deps[t] \cap P = {}
=============================================================================
