----------------------------- MODULE ObjectLife -----------------------------
(***************************************************************************)
(* What the head of ObjectTemplate.kt promises about the wrappers of a     *)
(* Rust object, without the counter, the flag, the retry loop and the Arc. *)
(*                                                                         *)
(* A wrapper is a gate to the object.  Threads go in and out; whoever      *)
(* closes the wrapper is inside until it has done so.  A closed gate still *)
(* lets threads in while somebody is inside, and once it is empty nobody   *)
(* enters again.  The handle is freed once: after the wrapper was closed,  *)
(* or when the program has no reference to it, and with nobody inside.     *)
(***************************************************************************)
CONSTANTS Wrappers, Threads, NoWrapper

VARIABLES made,         \* the wrappers constructed
          forgotten,    \* those that the program does not refer to any more
          closed,       \* those that destroy() was called on
          freed,        \* those whose handle was freed
          inside        \* the wrapper that a thread is inside of, or NoWrapper

lifeVars == <<made, forgotten, closed, freed, inside>>

Inside(w) == {t \in Threads : inside[t] = w}

LifeInit ==
    /\ \E w \in Wrappers : made = {w}
    /\ forgotten = {} /\ closed = {} /\ freed = {}
    /\ inside = [t \in Threads |-> NoWrapper]

Make(w) ==
    /\ w \notin made
    /\ made' = made \cup {w}
    /\ UNCHANGED <<forgotten, closed, freed, inside>>

Forget(w) ==
    /\ w \in made \ forgotten
    /\ forgotten' = forgotten \cup {w}
    /\ UNCHANGED <<made, closed, freed, inside>>

Enter(t, w) ==
    /\ inside[t] = NoWrapper
    /\ w \in made \ freed
    /\ w \in closed => Inside(w) # {}
    /\ inside' = [inside EXCEPT ![t] = w]
    /\ UNCHANGED <<made, forgotten, closed, freed>>

Close(t, w) ==
    /\ inside[t] = NoWrapper
    /\ w \in made \ (closed \cup forgotten \cup freed)
    /\ closed' = closed \cup {w}
    /\ inside' = [inside EXCEPT ![t] = w]
    /\ UNCHANGED <<made, forgotten, freed>>

Leave(t) ==
    /\ inside[t] # NoWrapper
    /\ inside' = [inside EXCEPT ![t] = NoWrapper]
    /\ UNCHANGED <<made, forgotten, closed, freed>>

Free(w) ==
    /\ w \in (closed \cup forgotten) \ freed
    /\ Inside(w) = {}
    /\ freed' = freed \cup {w}
    /\ UNCHANGED <<made, forgotten, closed, inside>>

LifeNext ==
    \/ \E w \in Wrappers :
          \/ Make(w) \/ Forget(w) \/ Free(w)
          \/ \E t \in Threads : Enter(t, w) \/ Close(t, w)
    \/ \E t \in Threads : Leave(t)

LifeSpec == LifeInit /\ [][LifeNext]_lifeVars
=============================================================================
