----------------------------- MODULE HandleTable -----------------------------
(***************************************************************************)
(* The handle map of a binding as HandleMap.py, HandleMap.swift and        *)
(* HandleMap.rb have it: every operation takes effect at one moment, under *)
(* the lock, somewhere between its call and its return.  HandleMap.kt has  *)
(* no lock; CallbackInterface shows that its map does the same.            *)
(*                                                                         *)
(* The counter is abstracted to what it is for: a handle is never used     *)
(* twice.                                                                  *)
(***************************************************************************)
CONSTANTS Objects, Handles, Clients, NoObject, NoHandle

VARIABLES table,    \* the object of a handle, or NoObject
          used,     \* the handles given out
          asked     \* the operation that a client has called and that is to take effect

tableVars == <<table, used, asked>>

Request(op, obj, handle) == [op |-> op, obj |-> obj, handle |-> handle]

Nothing == Request("none", NoObject, NoHandle)

Insertions == {Request("insert", o, NoHandle) : o \in Objects}

Clones == {Request("clone", NoObject, h) : h \in Handles}

TableInit ==
    /\ table = [h \in Handles |-> NoObject]
    /\ used = {}
    /\ asked = [t \in Clients |-> Nothing]

Call(t) ==
    /\ asked[t] = Nothing
    /\ \E r \in Insertions \cup Clones : asked' = [asked EXCEPT ![t] = r]
    /\ UNCHANGED <<table, used>>

DoInsert(t, o) ==
    /\ \E h \in Handles \ used :
          /\ table' = [table EXCEPT ![h] = o]
          /\ used' = used \cup {h}
    /\ asked' = [asked EXCEPT ![t] = Nothing]

Insert(t) ==
    /\ asked[t].op = "insert"
    /\ DoInsert(t, asked[t].obj)

\* A handle that is not in the map would raise: the callers never ask for one.
Clone(t) ==
    /\ asked[t].op = "clone"
    /\ table[asked[t].handle] # NoObject
    /\ DoInsert(t, table[asked[t].handle])

Remove(h) ==
    /\ table[h] # NoObject
    /\ table' = [table EXCEPT ![h] = NoObject]
    /\ UNCHANGED <<used, asked>>

TableNext ==
    \/ \E t \in Clients : Call(t) \/ Insert(t) \/ Clone(t)
    \/ \E h \in Handles : Remove(h)

TableSpec == TableInit /\ [][TableNext]_tableVars
=============================================================================
