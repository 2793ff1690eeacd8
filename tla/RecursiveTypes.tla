--------------------------- MODULE RecursiveTypes ---------------------------
(***************************************************************************)
(* find_recursive_enum_names of uniffi_bindgen, which decides the records  *)
(* and enums that the bindings declare recursive (`indirect` in Swift, a   *)
(* quoted annotation in Python): one depth-first search over the           *)
(* containment graph.  The nodes are kept in a HashMap and the neighbours  *)
(* of each in a HashSet, so both are taken in an order that the code does  *)
(* not fix.                                                                *)
(***************************************************************************)
EXTENDS TypeGraph, Sequences, Integers

VARIABLES
  todo,       \* the keys that the outer loop has not come to
  stack,      \* the calls of dfs in progress, the root's first
  visited,    \* the types whose search has ended
  recursive   \* the result

vars == <<deps, todo, stack, visited, recursive>>

TypeOK ==
  /\ IsGraph
  /\ todo \subseteq Types
  /\ stack \in Seq(Frame)
  /\ visited \subseteq Types
  /\ recursive \subseteq Types

Init ==
  /\ IsGraph
  /\ todo = Types
  /\ stack = <<>>
  /\ visited = {}
  /\ recursive = {}

Top == stack[Len(stack)]

\* The call dfs(t) up to its loop, with the calls in below in progress.  A
\* type that is both unvisited and on the stack closes a cycle: it and all
\* that follow it on the stack are members.
Enter(t, below) ==
  IF t \in visited
  THEN stack' = below /\ UNCHANGED recursive
  ELSE IF t \in Names(below)
  THEN /\ stack' = below
       /\ recursive' = recursive \cup
            {below[i].name : i \in {j \in DOMAIN below :
               \E k \in 1..j : below[k].name = t}}
  ELSE /\ stack' = Append(below, [name |-> t, rest |-> deps[t]])
       /\ UNCHANGED recursive

\* The outer loop comes to the next key.
Root(t) ==
  /\ stack = <<>>
  /\ t \in todo
  /\ todo' = todo \ {t}
  /\ Enter(t, stack)
  /\ UNCHANGED <<deps, visited>>

\* The innermost call comes to its next neighbour.
Neighbour(t) ==
  /\ stack # <<>>
  /\ t \in Top.rest
  /\ Enter(t, [stack EXCEPT ![Len(stack)].rest = @ \ {t}])
  /\ UNCHANGED <<deps, todo, visited>>

\* The innermost call has no neighbours left and returns.
Return ==
  /\ stack # <<>>
  /\ Top.rest = {}
  /\ visited' = visited \cup {Top.name}
  /\ stack' = SubSeq(stack, 1, Len(stack) - 1)
  /\ UNCHANGED <<deps, todo, recursive>>

Done == todo = {} /\ stack = <<>>

Terminated == Done /\ UNCHANGED vars

Next ==
  \/ \E t \in Types : Root(t) \/ Neighbour(t)
  \/ Return
  \/ Terminated

Spec == Init /\ [][Next]_vars

-----------------------------------------------------------------------------
\* The contract of the pass: "return every node that participates in a
\* cycle".  It is broken: a member of a second cycle is missed when that
\* cycle runs through a type whose own search, inside the same tree, has
\* ended, and the order of the hash tables decides which.
EveryRecursiveMarked == Done => \A t \in Types : OnCycle(t) => t \in recursive

\* Nothing else is returned: a type that no cycle runs through is never
\* declared recursive, whatever the order.
OnlyRecursiveMarked == \A t \in recursive : OnCycle(t)

\* What remains of the contract: no cycle is missed altogether.  Every cycle
\* has a marked member, which is the first of them that the search enters,
\* so the unmarked types can be declared one after the other.
EveryCycleBroken == Done => Acyclic(Types \ recursive)
=============================================================================
