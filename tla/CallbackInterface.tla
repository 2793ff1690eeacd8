-------------------------- MODULE CallbackInterface --------------------------
(***************************************************************************)
(* Objects that the foreign language implements and Rust calls: the trait  *)
(* interfaces of uniffi_macros/src/export/callback_interface.rs and        *)
(* trait_interface.rs against the bindings of Kotlin (HandleMap.kt,        *)
(* CallbackInterfaceImpl.kt, the converter in ObjectTemplate.kt).          *)
(*                                                                         *)
(* Rust reaches an object by a handle into the foreign side's map.  A      *)
(* handle belongs to one UniFFICallbackHandler, which Rust keeps in Arcs   *)
(* and which frees the handle when the last of them is dropped.  Handles   *)
(* go to Rust as arguments and come back, cloned, as results or as         *)
(* arguments of the methods that Rust calls.  A method also has an         *)
(* argument, a result and an error that travel in RustBuffers.             *)
(*                                                                         *)
(* A thread here is any thread that runs an exported function, or Rust     *)
(* code that uses an Arc it has stored; one that the foreign method calls  *)
(* in turn is another thread.                                              *)
(***************************************************************************)
EXTENDS Naturals

CONSTANTS
    Objects,        \* the foreign objects
    Threads,
    Buffers,        \* the memory blocks of RustBuffers
    NoObject, NoBuffer,
    MaxHandle       \* bound: the handles that the map gives out

ASSUME CallbackAssumption ==
    /\ NoObject \notin Objects
    /\ NoBuffer \notin Buffers
    /\ MaxHandle \in Nat

Handles == 1..MaxHandle     \* the k-th handle is the odd number 2 * k - 1
NoHandle == 0

VARIABLES
    counter,    \* UniffiHandleMap.counter: the next handle
    map,        \* UniffiHandleMap.map: the object of a handle, or NoObject
    stored,     \* handles of the handlers that Rust keeps an Arc of in its own data
    lost,       \* handles that a call which failed has left to nobody
    live,       \* the RustBuffers that are allocated
    pc,         \* where a thread is
    arc,        \* the handle of the handler that it has an Arc of
    gone,       \* the handle of the handler that it is dropping
    fresh,      \* the new handle that it carries across the FFI
    obj,        \* the local obj of insert(), uniffiObj of a method
    arg,        \* the method's argument, a RustBuffer
    ret,        \* uniffi_return_value
    err,        \* uniffi_call_status.error_buf
    code        \* uniffi_call_status.code, Success where there is no call

mapVars == <<counter, map>>
rustVars == <<stored, arc, gone>>
bufferVars == <<live, arg, ret, err, code>>
vars == <<mapVars, rustVars, bufferVars, lost, pc, fresh, obj>>

Codes == {"Success", "Error", "UnexpectedError"}

Entries == {h \in Handles : map[h] # NoObject}

Init ==
    /\ counter = 1
    /\ map = [h \in Handles |-> NoObject]
    /\ stored = {} /\ lost = {} /\ live = {}
    /\ pc = [t \in Threads |-> "idle"]
    /\ arc = [t \in Threads |-> NoHandle]
    /\ gone = [t \in Threads |-> NoHandle]
    /\ fresh = [t \in Threads |-> NoHandle]
    /\ obj = [t \in Threads |-> NoObject]
    /\ arg = [t \in Threads |-> NoBuffer]
    /\ ret = [t \in Threads |-> NoBuffer]
    /\ err = [t \in Threads |-> NoBuffer]
    /\ code = [t \in Threads |-> "Success"]

Goto(t, loc) == pc' = [pc EXCEPT ![t] = loc]

-----------------------------------------------------------------------------
(* The handle map: insert(), which clone() goes on with *)

\* handleMap.insert(value): an object of Kotlin's is lowered as an argument.
LowerObject(t, o) ==
    /\ pc[t] = "idle"
    /\ obj' = [obj EXCEPT ![t] = o]
    /\ Goto(t, "number")
    /\ UNCHANGED <<mapVars, rustVars, bufferVars, lost, fresh>>

\* Fault: the counter is read and not incremented.
ReadCounter(t) ==
    /\ pc[t] = "number"
    /\ counter <= MaxHandle
    /\ fresh' = [fresh EXCEPT ![t] = counter]
    /\ counter' = counter
    /\ Goto(t, "put")
    /\ UNCHANGED <<map, rustVars, bufferVars, lost, obj>>

\* counter.getAndAdd(UNIFFI_HANDLEMAP_DELTA)
TakeNumber(t) ==
    /\ pc[t] = "number"
    /\ counter <= MaxHandle
    /\ fresh' = [fresh EXCEPT ![t] = counter]
    /\ counter' = counter + 1
    /\ Goto(t, "put")
    /\ UNCHANGED <<map, rustVars, bufferVars, lost, obj>>

\* map.put(handle, obj); a thread in Rust has called uniffi_clone and gets the
\* handle as its result, any other passes it to Rust.
Put(t) ==
    /\ pc[t] = "put"
    /\ map' = [map EXCEPT ![fresh[t]] = obj[t]]
    /\ obj' = [obj EXCEPT ![t] = NoObject]
    /\ Goto(t, IF arc[t] = NoHandle THEN "passing" ELSE "lowered")
    /\ UNCHANGED <<counter, rustVars, bufferVars, lost, fresh>>

-----------------------------------------------------------------------------
(* An exported function of Rust's that is given an object *)

\* An argument after this one cannot be lowered, or one before it not lifted.
PassFails(t) ==
    /\ pc[t] = "passing"
    /\ lost' = lost \cup {fresh[t]}
    /\ fresh' = [fresh EXCEPT ![t] = NoHandle]
    /\ Goto(t, "idle")
    /\ UNCHANGED <<mapVars, rustVars, bufferVars, obj>>

\* try_lift: Arc::new(UniFFICallbackHandler::new(handle))
LiftObject(t) ==
    /\ pc[t] = "passing"
    /\ arc' = [arc EXCEPT ![t] = fresh[t]]
    /\ fresh' = [fresh EXCEPT ![t] = NoHandle]
    /\ Goto(t, "rust")
    /\ UNCHANGED <<mapVars, stored, gone, bufferVars, lost, obj>>

Store(t) ==
    /\ pc[t] = "rust"
    /\ arc[t] \notin stored
    /\ stored' = stored \cup {arc[t]}
    /\ UNCHANGED <<mapVars, arc, gone, bufferVars, lost, pc, fresh, obj>>

UseStored(t, h) ==
    /\ pc[t] = "idle"
    /\ h \in stored
    /\ arc' = [arc EXCEPT ![t] = h]
    /\ Goto(t, "rust")
    /\ UNCHANGED <<mapVars, stored, gone, bufferVars, lost, fresh, obj>>

DropStored(t, h) ==
    /\ pc[t] = "idle"
    /\ h \in stored
    /\ stored' = stored \ {h}
    /\ arc' = [arc EXCEPT ![t] = h]
    /\ Goto(t, "drop")
    /\ UNCHANGED <<mapVars, gone, bufferVars, lost, fresh, obj>>

Return(t) ==
    /\ pc[t] = "rust"
    /\ Goto(t, "drop")
    /\ UNCHANGED <<mapVars, rustVars, bufferVars, lost, fresh, obj>>

Shared(t) == arc[t] \in stored \/ \E u \in Threads \ {t} : arc[u] = arc[t]

\* Fault: the foreign side does not look at what the function returned.
EndOnly(t) == "idle"

\* A returned handle is lifted at the end of the call.
End(t) == IF fresh[t] = NoHandle THEN "idle" ELSE "lift"

\* Fault: every Arc frees the handle.
DropAny(t) ==
    /\ pc[t] = "drop"
    /\ arc' = [arc EXCEPT ![t] = NoHandle]
    /\ gone' = [gone EXCEPT ![t] = arc[t]]
    /\ Goto(t, "free")
    /\ UNCHANGED <<mapVars, stored, bufferVars, lost, fresh, obj>>

\* Fault: the handler has no Drop.
DropSilently(t) ==
    /\ pc[t] = "drop"
    /\ arc' = [arc EXCEPT ![t] = NoHandle]
    /\ Goto(t, End(t))
    /\ UNCHANGED <<mapVars, stored, gone, bufferVars, lost, fresh, obj>>

\* The Arc goes out of scope; the last one drops the handler.
DropArc(t) ==
    /\ pc[t] = "drop"
    /\ arc' = [arc EXCEPT ![t] = NoHandle]
    /\ IF Shared(t)
       THEN Goto(t, End(t)) /\ UNCHANGED gone
       ELSE Goto(t, "free") /\ gone' = [gone EXCEPT ![t] = arc[t]]
    /\ UNCHANGED <<mapVars, stored, bufferVars, lost, fresh, obj>>

\* handleMap.remove
RemoveEntry(h) ==
    /\ h \in Entries
    /\ map' = [map EXCEPT ![h] = NoObject]

\* Drop of the handler: vtable.uniffi_free
FreeHandle(t) ==
    /\ pc[t] = "free"
    /\ RemoveEntry(gone[t])
    /\ gone' = [gone EXCEPT ![t] = NoHandle]
    /\ Goto(t, End(t))
    /\ UNCHANGED <<counter, stored, arc, bufferVars, lost, fresh, obj>>

-----------------------------------------------------------------------------
(* Rust hands an object back: lower() of the Arc *)

\* Fault: the handler's own handle is handed out.
LendHandle(t) ==
    /\ pc[t] = "rust"
    /\ fresh' = [fresh EXCEPT ![t] = arc[t]]
    /\ Goto(t, "lowered")
    /\ UNCHANGED <<mapVars, rustVars, bufferVars, lost, obj>>

\* uniffi_foreign_handle calls vtable.uniffi_clone ...
LowerArc(t) ==
    /\ pc[t] = "rust"
    /\ Goto(t, "clone")
    /\ UNCHANGED <<mapVars, rustVars, bufferVars, lost, fresh, obj>>

\* ... which is handleMap.clone(): map.get(handle), then insert().
CloneGet(t) ==
    /\ pc[t] = "clone"
    /\ arc[t] \in Entries
    /\ obj' = [obj EXCEPT ![t] = map[arc[t]]]
    /\ Goto(t, "number")
    /\ UNCHANGED <<mapVars, rustVars, bufferVars, lost, fresh>>

\* lower() has consumed the Arc.
ReturnObject(t) ==
    /\ pc[t] = "lowered"
    /\ Goto(t, "drop")
    /\ UNCHANGED <<mapVars, rustVars, bufferVars, lost, fresh, obj>>

\* Fault: the returned object is looked up, and its entry stays.
LiftByGet(t) ==
    /\ pc[t] = "lift"
    /\ fresh' = [fresh EXCEPT ![t] = NoHandle]
    /\ Goto(t, "idle")
    /\ UNCHANGED <<mapVars, rustVars, bufferVars, lost, obj>>

\* lift() of a handle with the lowest bit set
LiftReturned(t) ==
    /\ pc[t] = "lift"
    /\ RemoveEntry(fresh[t])
    /\ fresh' = [fresh EXCEPT ![t] = NoHandle]
    /\ Goto(t, "idle")
    /\ UNCHANGED <<counter, rustVars, bufferVars, lost, obj>>

-----------------------------------------------------------------------------
(* Rust calls a method of the object *)

Unused == Buffers \ live

\* The generated method: the status is Success, the result the default, the arguments are
\* lowered; one of them may be an object.
CallMethod(t) ==
    /\ pc[t] \in {"rust", "lowered"}
    /\ \E b \in Unused :
          /\ arg' = [arg EXCEPT ![t] = b]
          /\ live' = live \cup {b}
    /\ Goto(t, "get")
    /\ UNCHANGED <<mapVars, rustVars, ret, err, code, lost, fresh, obj>>

\* handleMap.get(uniffiHandle), outside of the call's try block
GetObject(t) ==
    /\ pc[t] = "get"
    /\ arc[t] \in Entries
    /\ obj' = [obj EXCEPT ![t] = map[arc[t]]]
    /\ Goto(t, "args")
    /\ UNCHANGED <<mapVars, rustVars, bufferVars, lost, fresh>>

\* liftFromRustBuffer frees the buffer, whether or not the value can be read.
FreeArg(t) ==
    /\ live' = live \ {arg[t]}
    /\ arg' = [arg EXCEPT ![t] = NoBuffer]

\* makeCall(): the arguments are lifted, in the order of their declaration.
LiftArgs(t) ==
    /\ pc[t] = "args"
    /\ FreeArg(t)
    /\ IF fresh[t] = NoHandle THEN UNCHANGED map ELSE RemoveEntry(fresh[t])
    /\ fresh' = [fresh EXCEPT ![t] = NoHandle]
    /\ Goto(t, "method")
    /\ UNCHANGED <<counter, rustVars, ret, err, code, lost, obj>>

\* Fault: without the finally.
ArgsFailUnfreed(t) ==
    /\ pc[t] = "args"
    /\ arg' = [arg EXCEPT ![t] = NoBuffer]
    /\ lost' = lost \cup ({fresh[t]} \ {NoHandle})
    /\ fresh' = [fresh EXCEPT ![t] = NoHandle]
    /\ Goto(t, "raised")
    /\ UNCHANGED <<mapVars, rustVars, live, ret, err, code, obj>>

\* The data comes first and cannot be lifted: nobody lifts the object.
ArgsFail(t) ==
    /\ pc[t] = "args"
    /\ FreeArg(t)
    /\ lost' = lost \cup ({fresh[t]} \ {NoHandle})
    /\ fresh' = [fresh EXCEPT ![t] = NoHandle]
    /\ Goto(t, "raised")
    /\ UNCHANGED <<mapVars, rustVars, ret, err, code, obj>>

\* The data comes after the object and cannot be lifted: Kotlin has the object already.
ArgsFailLate(t) ==
    /\ pc[t] = "args"
    /\ RemoveEntry(fresh[t])
    /\ FreeArg(t)
    /\ fresh' = [fresh EXCEPT ![t] = NoHandle]
    /\ Goto(t, "raised")
    /\ UNCHANGED <<counter, rustVars, ret, err, code, lost, obj>>

\* The method has returned a value: writeReturn lowers it.
MethodReturns(t) ==
    /\ pc[t] = "method"
    /\ \E b \in Unused :
          /\ ret' = [ret EXCEPT ![t] = b]
          /\ live' = live \cup {b}
    /\ obj' = [obj EXCEPT ![t] = NoObject]
    /\ Goto(t, "returned")
    /\ UNCHANGED <<mapVars, rustVars, arg, err, code, lost, fresh>>

\* An exception has a status and a message or an error value.
Raise(t, c) ==
    /\ \E b \in Unused :
          /\ err' = [err EXCEPT ![t] = b]
          /\ live' = live \cup {b}
    /\ code' = [code EXCEPT ![t] = c]
    /\ obj' = [obj EXCEPT ![t] = NoObject]
    /\ Goto(t, "returned")
    /\ UNCHANGED <<mapVars, rustVars, arg, ret, lost, fresh>>

\* The method has thrown the error type that it declares.
MethodThrows(t) == pc[t] = "method" /\ Raise(t, "Error")

\* It has thrown something else, or its arguments or its result cannot be converted.
MethodFails(t) == pc[t] \in {"method", "raised"} /\ Raise(t, "UnexpectedError")

\* The error value or the message cannot be lowered: the code is set by then, error_buf stays
\* empty, and the exception leaves the callback, which returns to Rust.
ErrorNotLowered(t, c) ==
    /\ pc[t] = "method" \/ (pc[t] = "raised" /\ c = "UnexpectedError")
    /\ code' = [code EXCEPT ![t] = c]
    /\ obj' = [obj EXCEPT ![t] = NoObject]
    /\ Goto(t, "returned")
    /\ UNCHANGED <<mapVars, rustVars, live, arg, ret, err, lost, fresh>>

\* Fault: the message of an unexpected error is not lifted.
DropMessage(t) ==
    /\ pc[t] = "returned"
    /\ live' = live \ (IF code[t] = "Error" THEN {err[t]} ELSE {ret[t]})
    /\ ret' = [ret EXCEPT ![t] = NoBuffer]
    /\ err' = [err EXCEPT ![t] = NoBuffer]
    /\ code' = [code EXCEPT ![t] = "Success"]
    /\ \E next \in {"rust", "drop"} : Goto(t, next)
    /\ UNCHANGED <<mapVars, rustVars, arg, lost, fresh, obj>>

\* lift_foreign_return consumes the buffer that the code tells of, if there is one.  Rust
\* goes on with the result or the Err; or it panics, and unwinding drops the Arc.
LiftResult(t) ==
    /\ pc[t] = "returned"
    /\ live' = live \ {IF code[t] = "Success" THEN ret[t] ELSE err[t]}
    /\ ret' = [ret EXCEPT ![t] = NoBuffer]
    /\ err' = [err EXCEPT ![t] = NoBuffer]
    /\ code' = [code EXCEPT ![t] = "Success"]
    /\ \E next \in {"rust", "drop"} : Goto(t, next)
    /\ UNCHANGED <<mapVars, rustVars, arg, lost, fresh, obj>>

-----------------------------------------------------------------------------
\* What the programs decide: which objects are passed, what becomes of an Arc, how a
\* method ends.
Decides(t) ==
    \/ \E o \in Objects : LowerObject(t, o)
    \/ Store(t)
    \/ \E h \in stored : UseStored(t, h) \/ DropStored(t, h)
    \/ Return(t)
    \/ LowerArc(t)
    \/ CallMethod(t)
    \/ MethodReturns(t)
    \/ MethodThrows(t)
    \/ MethodFails(t)
    \/ \E c \in Codes \ {"Success"} : ErrorNotLowered(t, c)

\* What the generated code and the runtime do by themselves.
Proceeds(t) ==
    \/ TakeNumber(t)
    \/ Put(t)
    \/ PassFails(t)
    \/ LiftObject(t)
    \/ DropArc(t)
    \/ FreeHandle(t)
    \/ CloneGet(t)
    \/ ReturnObject(t)
    \/ LiftReturned(t)
    \/ GetObject(t)
    \/ LiftArgs(t)
    \/ ArgsFail(t)
    \/ ArgsFailLate(t)
    \/ LiftResult(t)

Next == \E t \in Threads : Decides(t) \/ Proceeds(t)

Spec == Init /\ [][Next]_vars /\ \A t \in Threads : WF_vars(Proceeds(t))

-----------------------------------------------------------------------------
(* The handles *)

\* Handles of handlers in Rust; of handlers that are being dropped; between the two sides.
InRust == (stored \cup {arc[t] : t \in Threads}) \ {NoHandle}
Dropping == {gone[t] : t \in Threads} \ {NoHandle}
InTransit == {fresh[t] : t \in {u \in Threads : pc[u] # "put"}} \ {NoHandle}

InMethod == {"get", "args", "method", "raised", "returned"}

Locations == {"idle", "number", "put", "passing", "rust", "drop", "free", "clone", "lowered",
              "lift"} \cup InMethod

ThreadShape(t) ==
    /\ pc[t] \in {"passing", "lift", "put", "lowered"} => fresh[t] # NoHandle
    /\ pc[t] \in {"idle", "number", "rust", "clone", "method", "raised", "returned"}
           => fresh[t] = NoHandle
    /\ pc[t] \in {"idle", "passing", "free", "lift"} => arc[t] = NoHandle
    /\ pc[t] \in {"rust", "drop", "clone", "lowered"} \cup InMethod => arc[t] # NoHandle
    /\ gone[t] # NoHandle <=> pc[t] = "free"
    /\ obj[t] # NoObject <=> pc[t] \in {"number", "put", "args", "method", "raised"}

\* The types, and which locals a thread has where: no step leaves one behind, or uses one
\* that is not set.
TypeOK ==
    /\ counter \in 1..MaxHandle + 1
    /\ map \in [Handles -> Objects \cup {NoObject}]
    /\ stored \in SUBSET Handles /\ lost \in SUBSET Handles
    /\ live \in SUBSET Buffers
    /\ arc \in [Threads -> Handles \cup {NoHandle}]
    /\ gone \in [Threads -> Handles \cup {NoHandle}]
    /\ fresh \in [Threads -> Handles \cup {NoHandle}]
    /\ obj \in [Threads -> Objects \cup {NoObject}]
    /\ arg \in [Threads -> Buffers \cup {NoBuffer}]
    /\ ret \in [Threads -> Buffers \cup {NoBuffer}]
    /\ err \in [Threads -> Buffers \cup {NoBuffer}]
    /\ code \in [Threads -> Codes]
    /\ pc \in [Threads -> Locations]
    /\ \A t \in Threads : ThreadShape(t)

\* No operation of the map is called with a handle that is not in it: get(), clone() and
\* remove() never raise "Invalid handle", which would be outside of any try block.
NoStaleHandle ==
    \A t \in Threads :
        /\ pc[t] \in {"clone", "get"} => arc[t] \in Entries
        /\ pc[t] = "free" => gone[t] \in Entries
        /\ pc[t] \in {"lift", "args"} => fresh[t] \in Entries \cup {NoHandle}

\* Every entry of the map has an owner who will remove it, but for those that failed calls
\* have lost.
NoEntryLeaks == Entries \subseteq InRust \cup Dropping \cup InTransit \cup lost

\* A handle is with Rust, or on its way, or being freed, or lost, and with one thread if it
\* is on its way or being freed: nobody frees what somebody else holds.
OneOwner ==
    /\ InRust \cap (Dropping \cup InTransit \cup lost) = {}
    /\ Dropping \cap (InTransit \cup lost) = {}
    /\ InTransit \cap lost = {}
    /\ \A t, u \in Threads : t # u =>
          /\ fresh[t] = fresh[u] => fresh[t] = NoHandle
          /\ gone[t] = gone[u] => gone[t] = NoHandle

\* Every RustBuffer that is allocated is with one thread, in the place that the side whose
\* turn it is will free: none leaks and none is freed twice, whatever the method's outcome.
BuffersOf(t) == {arg[t], ret[t], err[t]} \ {NoBuffer}

BuffersOwned ==
    /\ live = UNION {BuffersOf(t) : t \in Threads}
    /\ \A t, u \in Threads : t # u => BuffersOf(t) \cap BuffersOf(u) = {}
    /\ \A t \in Threads :
          /\ arg[t] # NoBuffer <=> pc[t] \in {"get", "args"}
          /\ ret[t] # NoBuffer <=> pc[t] = "returned" /\ code[t] = "Success"
          /\ err[t] # NoBuffer => pc[t] = "returned" /\ code[t] # "Success"

\* An entry that nobody in Rust owns any more is removed, or was handed over, or is lost.
EntryReleased ==
    \A h \in Handles : (h \in Entries /\ h \notin InRust)
                           ~> (h \notin Entries \/ h \in InRust \cup lost)

\* The operations of the map, though they are not under a lock, take effect at one moment.
Asked(t) ==
    IF pc[t] \in {"clone", "number", "put"}
    THEN [op |-> IF arc[t] = NoHandle THEN "insert" ELSE "clone",
          obj |-> IF arc[t] = NoHandle THEN obj[t] ELSE NoObject,
          handle |-> arc[t]]
    ELSE [op |-> "none", obj |-> NoObject, handle |-> NoHandle]

Table == INSTANCE HandleTable WITH
    Clients <- Threads,
    table <- map,
    used <- {h \in Handles : h < counter} \ {fresh[t] : t \in {u \in Threads : pc[u] = "put"}},
    asked <- [t \in Threads |-> Asked(t)]

\* Kotlin's map without a lock does what the locked maps do: no handle is given out twice,
\* and a clone maps to the object of the original, for which the original is still there.
ImplementsTable == Table!TableSpec
=============================================================================
