----------------------- MODULE CallbackInterfaceProofs -----------------------
(***************************************************************************)
(* The properties of CallbackInterface for any objects, threads, buffers   *)
(* and number of handles.  CallbackInv is inductive: one lemma for each of *)
(* its parts, with one case for each action.  The refinement of            *)
(* HandleTable then maps each step.                                        *)
(***************************************************************************)
EXTENDS CallbackInterface, TLAPS

-----------------------------------------------------------------------------
(* The inductive invariant *)

\* Handles are taken from below the counter, and the next one is a new one.
BelowCounter ==
    /\ \A h \in Handles : map[h] # NoObject => h < counter
    /\ \A t \in Threads : fresh[t] # NoHandle => fresh[t] < counter

\* Who has a handle has the entry; the thread that is about to put one has not yet.
HeldAreEntries ==
    /\ \A h \in stored \cup lost : map[h] # NoObject
    /\ \A t \in Threads :
          /\ arc[t] # NoHandle => map[arc[t]] # NoObject
          /\ gone[t] # NoHandle => map[gone[t]] # NoObject
          /\ fresh[t] # NoHandle => (map[fresh[t]] # NoObject <=> pc[t] # "put")

\* OneOwner handle by handle; it also covers the handles that are being put.
Apart ==
    /\ \A h \in stored : h \notin lost
    /\ \A t \in Threads :
          /\ arc[t] # NoHandle => arc[t] \notin lost
          /\ gone[t] # NoHandle => gone[t] \notin stored /\ gone[t] \notin lost
          /\ fresh[t] # NoHandle => fresh[t] \notin stored /\ fresh[t] \notin lost
    /\ \A t, u \in Threads :
          /\ arc[t] # NoHandle => arc[t] # gone[u] /\ arc[t] # fresh[u]
          /\ gone[t] # NoHandle => gone[t] # fresh[u]
    /\ \A t, u \in Threads : t # u =>
          /\ gone[t] # NoHandle => gone[t] # gone[u]
          /\ fresh[t] # NoHandle => fresh[t] # fresh[u]

Owned(h) ==
    \/ h \in stored \cup lost
    \/ \E t \in Threads : arc[t] = h \/ gone[t] = h \/ fresh[t] = h

EntriesOwned == \A h \in Handles : map[h] # NoObject => Owned(h)

\* clone() puts the object that the original still has.
CloneCurrent ==
    \A t \in Threads :
        arc[t] # NoHandle /\ pc[t] \in {"number", "put"} => obj[t] = map[arc[t]]

\* BuffersOwned buffer by buffer: which location has which ...
BufferPlaces ==
    \A t \in Threads :
        /\ arg[t] # NoBuffer <=> pc[t] \in {"get", "args"}
        /\ ret[t] # NoBuffer <=> pc[t] = "returned" /\ code[t] = "Success"
        /\ err[t] # NoBuffer => pc[t] = "returned" /\ code[t] # "Success"
        /\ pc[t] # "returned" => code[t] = "Success"

Has(t, b) == arg[t] = b \/ ret[t] = b \/ err[t] = b

\* ... and that a buffer is live while exactly one thread has it.
BuffersLive ==
    /\ \A t \in Threads, b \in Buffers : Has(t, b) => b \in live
    /\ \A b \in live : \E t \in Threads : Has(t, b)
    /\ \A t, u \in Threads, b \in Buffers : t # u /\ Has(t, b) => ~ Has(u, b)

CallbackInv ==
    /\ TypeOK
    /\ BelowCounter
    /\ HeldAreEntries
    /\ Apart
    /\ EntriesOwned
    /\ CloneCurrent
    /\ BufferPlaces
    /\ BuffersLive

\* TypeOK without the locals of each thread
LocalTypes ==
    /\ counter \in 1..MaxHandle + 1
    /\ map \in [Handles -> Objects \cup {NoObject}]
    /\ stored \in SUBSET Handles /\ lost \in SUBSET Handles
    /\ live \in SUBSET Buffers
    /\ arc \in [Threads -> Handles \cup {NoHandle}]
    /\ gone \in [Threads -> Handles \cup {NoHandle}]
    /\ fresh \in [Threads -> Handles \cup {NoHandle}]
    /\ obj \in [Threads -> Objects \cup {NoObject}]
    /\ arg \in [Threads -> Buffers \cup {NoBuffer}]
    /\ ret \in [Threads -> Buffers \cup {NoBuffer}]
    /\ err \in [Threads -> Buffers \cup {NoBuffer}]
    /\ code \in [Threads -> Codes]
    /\ pc \in [Threads -> Locations]

-----------------------------------------------------------------------------
(* Each step preserves each part *)

\* The values keep their types.
LEMMA TypesStep ==
  ASSUME TypeOK, NEW t \in Threads, Decides(t) \/ Proceeds(t)
  PROVE  LocalTypes'
  <1> USE CallbackAssumption DEF LocalTypes, TypeOK, ThreadShape, Locations,
        InMethod, Codes, Entries, Unused, Handles, NoHandle, Goto, vars,
        mapVars, rustVars, bufferVars
  <1>1. CASE \E o \in Objects : LowerObject(t, o)
    BY <1>1 DEF LowerObject
  <1>2. CASE TakeNumber(t)
    BY <1>2 DEF TakeNumber
  <1>3. CASE Put(t)
    BY <1>3 DEF Put
  <1>4. CASE PassFails(t)
    BY <1>4 DEF PassFails
  <1>5. CASE LiftObject(t)
    BY <1>5 DEF LiftObject
  <1>6. CASE Store(t)
    BY <1>6 DEF Store
  <1>7. CASE \E h \in stored : UseStored(t, h)
    BY <1>7 DEF UseStored
  <1>8. CASE \E h \in stored : DropStored(t, h)
    BY <1>8 DEF DropStored
  <1>9. CASE Return(t)
    BY <1>9 DEF Return
  <1>10. CASE DropArc(t)
    BY <1>10 DEF DropArc, End
  <1>11. CASE FreeHandle(t)
    BY <1>11 DEF FreeHandle, RemoveEntry, End
  <1>12. CASE LowerArc(t)
    BY <1>12 DEF LowerArc
  <1>13. CASE CloneGet(t)
    BY <1>13 DEF CloneGet
  <1>14. CASE ReturnObject(t)
    BY <1>14 DEF ReturnObject
  <1>15. CASE LiftReturned(t)
    BY <1>15 DEF LiftReturned, RemoveEntry
  <1>16. CASE CallMethod(t)
    BY <1>16 DEF CallMethod
  <1>17. CASE GetObject(t)
    BY <1>17 DEF GetObject
  <1>18. CASE LiftArgs(t)
    BY <1>18 DEF LiftArgs, RemoveEntry, FreeArg
  <1>19. CASE ArgsFail(t)
    BY <1>19 DEF ArgsFail, FreeArg
  <1>20. CASE MethodReturns(t)
    BY <1>20 DEF MethodReturns
  <1>21. CASE MethodThrows(t)
    BY <1>21 DEF MethodThrows, Raise
  <1>22. CASE MethodFails(t)
    BY <1>22 DEF MethodFails, Raise
  <1>23. CASE LiftResult(t)
    BY <1>23 DEF LiftResult
  <1>24. CASE ArgsFailLate(t)
    BY <1>24 DEF ArgsFailLate, RemoveEntry, FreeArg
  <1>25. CASE \E c \in Codes \ {"Success"} : ErrorNotLowered(t, c)
    BY <1>25 DEF ErrorNotLowered
  <1> QED BY <1>1, <1>2, <1>3, <1>4, <1>5, <1>6, <1>7, <1>8, <1>9, <1>10,
        <1>11, <1>12, <1>13, <1>14, <1>15, <1>16, <1>17, <1>18, <1>19, <1>20,
        <1>21, <1>22, <1>23, <1>24, <1>25 DEF Decides, Proceeds

\* No step of t leaves a local set, or unset, where no thread may have it so.
LEMMA ShapeStep ==
  ASSUME TypeOK, NEW u \in Threads, NEW t \in Threads,
         Decides(t) \/ Proceeds(t)
  PROVE  ThreadShape(u)'
  <1> USE CallbackAssumption DEF TypeOK, ThreadShape, Locations, InMethod,
        Entries, Handles, NoHandle, Goto, vars, mapVars, rustVars, bufferVars
  <1>1. CASE \E o \in Objects : LowerObject(t, o)
    BY <1>1 DEF LowerObject
  <1>2. CASE TakeNumber(t)
    BY <1>2 DEF TakeNumber
  <1>3. CASE Put(t)
    BY <1>3 DEF Put
  <1>4. CASE PassFails(t)
    BY <1>4 DEF PassFails
  <1>5. CASE LiftObject(t)
    BY <1>5 DEF LiftObject
  <1>6. CASE Store(t)
    BY <1>6 DEF Store
  <1>7. CASE \E h \in stored : UseStored(t, h)
    BY <1>7 DEF UseStored
  <1>8. CASE \E h \in stored : DropStored(t, h)
    BY <1>8 DEF DropStored
  <1>9. CASE Return(t)
    BY <1>9 DEF Return
  <1>10. CASE DropArc(t)
    BY <1>10 DEF DropArc, End
  <1>11. CASE FreeHandle(t)
    BY <1>11 DEF FreeHandle, RemoveEntry, End
  <1>12. CASE LowerArc(t)
    BY <1>12 DEF LowerArc
  <1>13. CASE CloneGet(t)
    BY <1>13 DEF CloneGet
  <1>14. CASE ReturnObject(t)
    BY <1>14 DEF ReturnObject
  <1>15. CASE LiftReturned(t)
    BY <1>15 DEF LiftReturned, RemoveEntry
  <1>16. CASE CallMethod(t)
    BY <1>16 DEF CallMethod
  <1>17. CASE GetObject(t)
    BY <1>17 DEF GetObject
  <1>18. CASE LiftArgs(t)
    BY <1>18 DEF LiftArgs, RemoveEntry, FreeArg
  <1>19. CASE ArgsFail(t)
    BY <1>19 DEF ArgsFail, FreeArg
  <1>20. CASE MethodReturns(t)
    BY <1>20 DEF MethodReturns
  <1>21. CASE MethodThrows(t)
    BY <1>21 DEF MethodThrows, Raise
  <1>22. CASE MethodFails(t)
    BY <1>22 DEF MethodFails, Raise
  <1>23. CASE LiftResult(t)
    BY <1>23 DEF LiftResult
  <1>24. CASE ArgsFailLate(t)
    BY <1>24 DEF ArgsFailLate, RemoveEntry, FreeArg
  <1>25. CASE \E c \in Codes \ {"Success"} : ErrorNotLowered(t, c)
    BY <1>25 DEF ErrorNotLowered
  <1> QED BY <1>1, <1>2, <1>3, <1>4, <1>5, <1>6, <1>7, <1>8, <1>9, <1>10,
        <1>11, <1>12, <1>13, <1>14, <1>15, <1>16, <1>17, <1>18, <1>19, <1>20,
        <1>21, <1>22, <1>23, <1>24, <1>25 DEF Decides, Proceeds

\* Only getAndAdd makes a handle.
LEMMA BelowStep ==
  ASSUME TypeOK, BelowCounter, NEW t \in Threads, Decides(t) \/ Proceeds(t)
  PROVE  BelowCounter'
  <1> USE CallbackAssumption DEF TypeOK, ThreadShape, BelowCounter, Entries,
        Handles, NoHandle, Goto, vars, mapVars, rustVars, bufferVars
  <1>1. CASE \E o \in Objects : LowerObject(t, o)
    BY <1>1 DEF LowerObject
  <1>2. CASE TakeNumber(t)
    BY <1>2 DEF TakeNumber
  <1>3. CASE Put(t)
    BY <1>3 DEF Put
  <1>4. CASE PassFails(t)
    BY <1>4 DEF PassFails
  <1>5. CASE LiftObject(t)
    BY <1>5 DEF LiftObject
  <1>6. CASE Store(t)
    BY <1>6 DEF Store
  <1>7. CASE \E h \in stored : UseStored(t, h)
    BY <1>7 DEF UseStored
  <1>8. CASE \E h \in stored : DropStored(t, h)
    BY <1>8 DEF DropStored
  <1>9. CASE Return(t)
    BY <1>9 DEF Return
  <1>10. CASE DropArc(t)
    BY <1>10 DEF DropArc, End
  <1>11. CASE FreeHandle(t)
    BY <1>11 DEF FreeHandle, RemoveEntry, End
  <1>12. CASE LowerArc(t)
    BY <1>12 DEF LowerArc
  <1>13. CASE CloneGet(t)
    BY <1>13 DEF CloneGet
  <1>14. CASE ReturnObject(t)
    BY <1>14 DEF ReturnObject
  <1>15. CASE LiftReturned(t)
    BY <1>15 DEF LiftReturned, RemoveEntry
  <1>16. CASE CallMethod(t)
    BY <1>16 DEF CallMethod
  <1>17. CASE GetObject(t)
    BY <1>17 DEF GetObject
  <1>18. CASE LiftArgs(t)
    BY <1>18 DEF LiftArgs, RemoveEntry, FreeArg
  <1>19. CASE ArgsFail(t)
    BY <1>19 DEF ArgsFail, FreeArg
  <1>20. CASE MethodReturns(t)
    BY <1>20 DEF MethodReturns
  <1>21. CASE MethodThrows(t)
    BY <1>21 DEF MethodThrows, Raise
  <1>22. CASE MethodFails(t)
    BY <1>22 DEF MethodFails, Raise
  <1>23. CASE LiftResult(t)
    BY <1>23 DEF LiftResult
  <1>24. CASE ArgsFailLate(t)
    BY <1>24 DEF ArgsFailLate, RemoveEntry, FreeArg
  <1>25. CASE \E c \in Codes \ {"Success"} : ErrorNotLowered(t, c)
    BY <1>25 DEF ErrorNotLowered
  <1> QED BY <1>1, <1>2, <1>3, <1>4, <1>5, <1>6, <1>7, <1>8, <1>9, <1>10,
        <1>11, <1>12, <1>13, <1>14, <1>15, <1>16, <1>17, <1>18, <1>19, <1>20,
        <1>21, <1>22, <1>23, <1>24, <1>25 DEF Decides, Proceeds

\* An entry is only removed by the one who has its handle.
LEMMA HeldStep ==
  ASSUME TypeOK, BelowCounter, HeldAreEntries, Apart, NEW t \in Threads,
         Decides(t) \/ Proceeds(t)
  PROVE  HeldAreEntries'
  <1> USE CallbackAssumption DEF TypeOK, ThreadShape, BelowCounter,
        HeldAreEntries, Apart, Entries, Handles, NoHandle, Goto, vars,
        mapVars, rustVars, bufferVars
  <1>1. CASE \E o \in Objects : LowerObject(t, o)
    BY <1>1 DEF LowerObject
  <1>2. CASE TakeNumber(t)
    BY <1>2 DEF TakeNumber
  <1>3. CASE Put(t)
    BY <1>3 DEF Put
  <1>4. CASE PassFails(t)
    BY <1>4 DEF PassFails
  <1>5. CASE LiftObject(t)
    BY <1>5 DEF LiftObject
  <1>6. CASE Store(t)
    BY <1>6 DEF Store
  <1>7. CASE \E h \in stored : UseStored(t, h)
    BY <1>7 DEF UseStored
  <1>8. CASE \E h \in stored : DropStored(t, h)
    BY <1>8 DEF DropStored
  <1>9. CASE Return(t)
    BY <1>9 DEF Return
  <1>10. CASE DropArc(t)
    BY <1>10 DEF DropArc, End
  <1>11. CASE FreeHandle(t)
    BY <1>11 DEF FreeHandle, RemoveEntry, End
  <1>12. CASE LowerArc(t)
    BY <1>12 DEF LowerArc
  <1>13. CASE CloneGet(t)
    BY <1>13 DEF CloneGet
  <1>14. CASE ReturnObject(t)
    BY <1>14 DEF ReturnObject
  <1>15. CASE LiftReturned(t)
    BY <1>15 DEF LiftReturned, RemoveEntry
  <1>16. CASE CallMethod(t)
    BY <1>16 DEF CallMethod
  <1>17. CASE GetObject(t)
    BY <1>17 DEF GetObject
  <1>18. CASE LiftArgs(t)
    BY <1>18 DEF LiftArgs, RemoveEntry, FreeArg
  <1>19. CASE ArgsFail(t)
    BY <1>19 DEF ArgsFail, FreeArg
  <1>20. CASE MethodReturns(t)
    BY <1>20 DEF MethodReturns
  <1>21. CASE MethodThrows(t)
    BY <1>21 DEF MethodThrows, Raise
  <1>22. CASE MethodFails(t)
    BY <1>22 DEF MethodFails, Raise
  <1>23. CASE LiftResult(t)
    BY <1>23 DEF LiftResult
  <1>24. CASE ArgsFailLate(t)
    BY <1>24 DEF ArgsFailLate, RemoveEntry, FreeArg
  <1>25. CASE \E c \in Codes \ {"Success"} : ErrorNotLowered(t, c)
    BY <1>25 DEF ErrorNotLowered
  <1> QED BY <1>1, <1>2, <1>3, <1>4, <1>5, <1>6, <1>7, <1>8, <1>9, <1>10,
        <1>11, <1>12, <1>13, <1>14, <1>15, <1>16, <1>17, <1>18, <1>19, <1>20,
        <1>21, <1>22, <1>23, <1>24, <1>25 DEF Decides, Proceeds

\* A handle passes from one owner to one other; a new one is nobody's.
LEMMA ApartStep ==
  ASSUME TypeOK, BelowCounter, HeldAreEntries, Apart, NEW t \in Threads,
         Decides(t) \/ Proceeds(t)
  PROVE  Apart'
  <1> USE CallbackAssumption DEF TypeOK, ThreadShape, BelowCounter,
        HeldAreEntries, Apart, Shared, Entries, Handles, NoHandle, Goto, vars,
        mapVars, rustVars, bufferVars
  <1>1. CASE \E o \in Objects : LowerObject(t, o)
    BY <1>1 DEF LowerObject
  <1>2. CASE TakeNumber(t)
    BY <1>2 DEF TakeNumber
  <1>3. CASE Put(t)
    BY <1>3 DEF Put
  <1>4. CASE PassFails(t)
    BY <1>4 DEF PassFails
  <1>5. CASE LiftObject(t)
    BY <1>5 DEF LiftObject
  <1>6. CASE Store(t)
    BY <1>6 DEF Store
  <1>7. CASE \E h \in stored : UseStored(t, h)
    BY <1>7 DEF UseStored
  <1>8. CASE \E h \in stored : DropStored(t, h)
    BY <1>8 DEF DropStored
  <1>9. CASE Return(t)
    BY <1>9 DEF Return
  <1>10. CASE DropArc(t)
    BY <1>10 DEF DropArc, End
  <1>11. CASE FreeHandle(t)
    BY <1>11 DEF FreeHandle, RemoveEntry, End
  <1>12. CASE LowerArc(t)
    BY <1>12 DEF LowerArc
  <1>13. CASE CloneGet(t)
    BY <1>13 DEF CloneGet
  <1>14. CASE ReturnObject(t)
    BY <1>14 DEF ReturnObject
  <1>15. CASE LiftReturned(t)
    BY <1>15 DEF LiftReturned, RemoveEntry
  <1>16. CASE CallMethod(t)
    BY <1>16 DEF CallMethod
  <1>17. CASE GetObject(t)
    BY <1>17 DEF GetObject
  <1>18. CASE LiftArgs(t)
    BY <1>18 DEF LiftArgs, RemoveEntry, FreeArg
  <1>19. CASE ArgsFail(t)
    BY <1>19 DEF ArgsFail, FreeArg
  <1>20. CASE MethodReturns(t)
    BY <1>20 DEF MethodReturns
  <1>21. CASE MethodThrows(t)
    BY <1>21 DEF MethodThrows, Raise
  <1>22. CASE MethodFails(t)
    BY <1>22 DEF MethodFails, Raise
  <1>23. CASE LiftResult(t)
    BY <1>23 DEF LiftResult
  <1>24. CASE ArgsFailLate(t)
    BY <1>24 DEF ArgsFailLate, RemoveEntry, FreeArg
  <1>25. CASE \E c \in Codes \ {"Success"} : ErrorNotLowered(t, c)
    BY <1>25 DEF ErrorNotLowered
  <1> QED BY <1>1, <1>2, <1>3, <1>4, <1>5, <1>6, <1>7, <1>8, <1>9, <1>10,
        <1>11, <1>12, <1>13, <1>14, <1>15, <1>16, <1>17, <1>18, <1>19, <1>20,
        <1>21, <1>22, <1>23, <1>24, <1>25 DEF Decides, Proceeds

\* Who gives a handle up has removed the entry, or passed it on, or lost it.
LEMMA OwnedStep ==
  ASSUME TypeOK, HeldAreEntries, EntriesOwned, NEW t \in Threads,
         Decides(t) \/ Proceeds(t)
  PROVE  EntriesOwned'
  <1> USE CallbackAssumption DEF TypeOK, ThreadShape, EntriesOwned, Owned,
        Shared, Entries, Handles, NoHandle, Goto, vars, mapVars, rustVars,
        bufferVars
  <1>1. CASE \E o \in Objects : LowerObject(t, o)
    BY <1>1 DEF LowerObject
  <1>2. CASE TakeNumber(t)
    BY <1>2 DEF TakeNumber
  <1>3. CASE Put(t)
    BY <1>3 DEF Put
  <1>4. CASE PassFails(t)
    BY <1>4 DEF PassFails
  <1>5. CASE LiftObject(t)
    BY <1>5 DEF LiftObject
  <1>6. CASE Store(t)
    BY <1>6 DEF Store
  <1>7. CASE \E h \in stored : UseStored(t, h)
    BY <1>7 DEF UseStored
  <1>8. CASE \E h \in stored : DropStored(t, h)
    BY <1>8 DEF DropStored
  <1>9. CASE Return(t)
    BY <1>9 DEF Return
  <1>10. CASE DropArc(t)
    BY <1>10 DEF DropArc, End
  <1>11. CASE FreeHandle(t)
    BY <1>11 DEF FreeHandle, RemoveEntry, End
  <1>12. CASE LowerArc(t)
    BY <1>12 DEF LowerArc
  <1>13. CASE CloneGet(t)
    BY <1>13 DEF CloneGet
  <1>14. CASE ReturnObject(t)
    BY <1>14 DEF ReturnObject
  <1>15. CASE LiftReturned(t)
    BY <1>15 DEF LiftReturned, RemoveEntry
  <1>16. CASE CallMethod(t)
    BY <1>16 DEF CallMethod
  <1>17. CASE GetObject(t)
    BY <1>17 DEF GetObject
  <1>18. CASE LiftArgs(t)
    BY <1>18 DEF LiftArgs, RemoveEntry, FreeArg
  <1>19. CASE ArgsFail(t)
    BY <1>19 DEF ArgsFail, FreeArg
  <1>20. CASE MethodReturns(t)
    BY <1>20 DEF MethodReturns
  <1>21. CASE MethodThrows(t)
    BY <1>21 DEF MethodThrows, Raise
  <1>22. CASE MethodFails(t)
    BY <1>22 DEF MethodFails, Raise
  <1>23. CASE LiftResult(t)
    BY <1>23 DEF LiftResult
  <1>24. CASE ArgsFailLate(t)
    BY <1>24 DEF ArgsFailLate, RemoveEntry, FreeArg
  <1>25. CASE \E c \in Codes \ {"Success"} : ErrorNotLowered(t, c)
    BY <1>25 DEF ErrorNotLowered
  <1> QED BY <1>1, <1>2, <1>3, <1>4, <1>5, <1>6, <1>7, <1>8, <1>9, <1>10,
        <1>11, <1>12, <1>13, <1>14, <1>15, <1>16, <1>17, <1>18, <1>19, <1>20,
        <1>21, <1>22, <1>23, <1>24, <1>25 DEF Decides, Proceeds

\* The original of a clone under way is not removed.
LEMMA CloneStep ==
  ASSUME TypeOK, HeldAreEntries, Apart, CloneCurrent, NEW t \in Threads,
         Decides(t) \/ Proceeds(t)
  PROVE  CloneCurrent'
  <1> USE CallbackAssumption DEF TypeOK, ThreadShape, Apart, HeldAreEntries,
        CloneCurrent, Entries, Handles, NoHandle, Goto, vars, mapVars,
        rustVars, bufferVars
  <1>1. CASE \E o \in Objects : LowerObject(t, o)
    BY <1>1 DEF LowerObject
  <1>2. CASE TakeNumber(t)
    BY <1>2 DEF TakeNumber
  <1>3. CASE Put(t)
    BY <1>3 DEF Put
  <1>4. CASE PassFails(t)
    BY <1>4 DEF PassFails
  <1>5. CASE LiftObject(t)
    BY <1>5 DEF LiftObject
  <1>6. CASE Store(t)
    BY <1>6 DEF Store
  <1>7. CASE \E h \in stored : UseStored(t, h)
    BY <1>7 DEF UseStored
  <1>8. CASE \E h \in stored : DropStored(t, h)
    BY <1>8 DEF DropStored
  <1>9. CASE Return(t)
    BY <1>9 DEF Return
  <1>10. CASE DropArc(t)
    BY <1>10 DEF DropArc, End
  <1>11. CASE FreeHandle(t)
    BY <1>11 DEF FreeHandle, RemoveEntry, End
  <1>12. CASE LowerArc(t)
    BY <1>12 DEF LowerArc
  <1>13. CASE CloneGet(t)
    BY <1>13 DEF CloneGet
  <1>14. CASE ReturnObject(t)
    BY <1>14 DEF ReturnObject
  <1>15. CASE LiftReturned(t)
    BY <1>15 DEF LiftReturned, RemoveEntry
  <1>16. CASE CallMethod(t)
    BY <1>16 DEF CallMethod
  <1>17. CASE GetObject(t)
    BY <1>17 DEF GetObject
  <1>18. CASE LiftArgs(t)
    BY <1>18 DEF LiftArgs, RemoveEntry, FreeArg
  <1>19. CASE ArgsFail(t)
    BY <1>19 DEF ArgsFail, FreeArg
  <1>20. CASE MethodReturns(t)
    BY <1>20 DEF MethodReturns
  <1>21. CASE MethodThrows(t)
    BY <1>21 DEF MethodThrows, Raise
  <1>22. CASE MethodFails(t)
    BY <1>22 DEF MethodFails, Raise
  <1>23. CASE LiftResult(t)
    BY <1>23 DEF LiftResult
  <1>24. CASE ArgsFailLate(t)
    BY <1>24 DEF ArgsFailLate, RemoveEntry, FreeArg
  <1>25. CASE \E c \in Codes \ {"Success"} : ErrorNotLowered(t, c)
    BY <1>25 DEF ErrorNotLowered
  <1> QED BY <1>1, <1>2, <1>3, <1>4, <1>5, <1>6, <1>7, <1>8, <1>9, <1>10,
        <1>11, <1>12, <1>13, <1>14, <1>15, <1>16, <1>17, <1>18, <1>19, <1>20,
        <1>21, <1>22, <1>23, <1>24, <1>25 DEF Decides, Proceeds

\* Each side takes the buffer that the location and the code tell of.
LEMMA PlacesStep ==
  ASSUME TypeOK, BufferPlaces, NEW t \in Threads, Decides(t) \/ Proceeds(t)
  PROVE  BufferPlaces'
  <1> USE CallbackAssumption DEF TypeOK, BufferPlaces, Unused, Handles,
        NoHandle, Goto, vars, mapVars, rustVars, bufferVars
  <1>1. CASE \E o \in Objects : LowerObject(t, o)
    BY <1>1 DEF LowerObject
  <1>2. CASE TakeNumber(t)
    BY <1>2 DEF TakeNumber
  <1>3. CASE Put(t)
    BY <1>3 DEF Put
  <1>4. CASE PassFails(t)
    BY <1>4 DEF PassFails
  <1>5. CASE LiftObject(t)
    BY <1>5 DEF LiftObject
  <1>6. CASE Store(t)
    BY <1>6 DEF Store
  <1>7. CASE \E h \in stored : UseStored(t, h)
    BY <1>7 DEF UseStored
  <1>8. CASE \E h \in stored : DropStored(t, h)
    BY <1>8 DEF DropStored
  <1>9. CASE Return(t)
    BY <1>9 DEF Return
  <1>10. CASE DropArc(t)
    BY <1>10 DEF DropArc, End
  <1>11. CASE FreeHandle(t)
    BY <1>11 DEF FreeHandle, RemoveEntry, End
  <1>12. CASE LowerArc(t)
    BY <1>12 DEF LowerArc
  <1>13. CASE CloneGet(t)
    BY <1>13 DEF CloneGet
  <1>14. CASE ReturnObject(t)
    BY <1>14 DEF ReturnObject
  <1>15. CASE LiftReturned(t)
    BY <1>15 DEF LiftReturned, RemoveEntry
  <1>16. CASE CallMethod(t)
    BY <1>16 DEF CallMethod
  <1>17. CASE GetObject(t)
    BY <1>17 DEF GetObject
  <1>18. CASE LiftArgs(t)
    BY <1>18 DEF LiftArgs, RemoveEntry, FreeArg
  <1>19. CASE ArgsFail(t)
    BY <1>19 DEF ArgsFail, FreeArg
  <1>20. CASE MethodReturns(t)
    BY <1>20 DEF MethodReturns
  <1>21. CASE MethodThrows(t)
    BY <1>21 DEF MethodThrows, Raise
  <1>22. CASE MethodFails(t)
    BY <1>22 DEF MethodFails, Raise
  <1>23. CASE LiftResult(t)
    BY <1>23 DEF LiftResult
  <1>24. CASE ArgsFailLate(t)
    BY <1>24 DEF ArgsFailLate, RemoveEntry, FreeArg
  <1>25. CASE \E c \in Codes \ {"Success"} : ErrorNotLowered(t, c)
    BY <1>25 DEF ErrorNotLowered
  <1> QED BY <1>1, <1>2, <1>3, <1>4, <1>5, <1>6, <1>7, <1>8, <1>9, <1>10,
        <1>11, <1>12, <1>13, <1>14, <1>15, <1>16, <1>17, <1>18, <1>19, <1>20,
        <1>21, <1>22, <1>23, <1>24, <1>25 DEF Decides, Proceeds

\* What is freed is the only one that the thread has.
LEMMA LiveStep ==
  ASSUME TypeOK, BufferPlaces, BuffersLive, NEW t \in Threads,
         Decides(t) \/ Proceeds(t)
  PROVE  BuffersLive'
  <1> USE CallbackAssumption DEF TypeOK, BufferPlaces, BuffersLive, Has,
        Unused, Handles, NoHandle, Goto, vars, mapVars, rustVars, bufferVars
  <1>1. CASE \E o \in Objects : LowerObject(t, o)
    BY <1>1 DEF LowerObject
  <1>2. CASE TakeNumber(t)
    BY <1>2 DEF TakeNumber
  <1>3. CASE Put(t)
    BY <1>3 DEF Put
  <1>4. CASE PassFails(t)
    BY <1>4 DEF PassFails
  <1>5. CASE LiftObject(t)
    BY <1>5 DEF LiftObject
  <1>6. CASE Store(t)
    BY <1>6 DEF Store
  <1>7. CASE \E h \in stored : UseStored(t, h)
    BY <1>7 DEF UseStored
  <1>8. CASE \E h \in stored : DropStored(t, h)
    BY <1>8 DEF DropStored
  <1>9. CASE Return(t)
    BY <1>9 DEF Return
  <1>10. CASE DropArc(t)
    BY <1>10 DEF DropArc, End
  <1>11. CASE FreeHandle(t)
    BY <1>11 DEF FreeHandle, RemoveEntry, End
  <1>12. CASE LowerArc(t)
    BY <1>12 DEF LowerArc
  <1>13. CASE CloneGet(t)
    BY <1>13 DEF CloneGet
  <1>14. CASE ReturnObject(t)
    BY <1>14 DEF ReturnObject
  <1>15. CASE LiftReturned(t)
    BY <1>15 DEF LiftReturned, RemoveEntry
  <1>16. CASE CallMethod(t)
    BY <1>16 DEF CallMethod
  <1>17. CASE GetObject(t)
    BY <1>17 DEF GetObject
  <1>18. CASE LiftArgs(t)
    BY <1>18 DEF LiftArgs, RemoveEntry, FreeArg
  <1>19. CASE ArgsFail(t)
    BY <1>19 DEF ArgsFail, FreeArg
  <1>20. CASE MethodReturns(t)
    BY <1>20 DEF MethodReturns
  <1>21. CASE MethodThrows(t)
    BY <1>21 DEF MethodThrows, Raise
  <1>22. CASE MethodFails(t)
    BY <1>22 DEF MethodFails, Raise
  <1>23. CASE LiftResult(t)
    BY <1>23 DEF LiftResult
  <1>24. CASE ArgsFailLate(t)
    BY <1>24 DEF ArgsFailLate, RemoveEntry, FreeArg
  <1>25. CASE \E c \in Codes \ {"Success"} : ErrorNotLowered(t, c)
    BY <1>25 DEF ErrorNotLowered
  <1> QED BY <1>1, <1>2, <1>3, <1>4, <1>5, <1>6, <1>7, <1>8, <1>9, <1>10,
        <1>11, <1>12, <1>13, <1>14, <1>15, <1>16, <1>17, <1>18, <1>19, <1>20,
        <1>21, <1>22, <1>23, <1>24, <1>25 DEF Decides, Proceeds

-----------------------------------------------------------------------------
(* The invariant and what follows from it *)

\* Nothing is allocated, owned or under way at first.
LEMMA CallbackInit == Init => CallbackInv
  <1> SUFFICES ASSUME Init PROVE CallbackInv
    OBVIOUS
  <1> USE CallbackAssumption DEF Init, Handles, NoHandle
  <1>1. TypeOK
    BY DEF TypeOK, ThreadShape, InMethod, Locations, Codes
  <1>2. BelowCounter /\ HeldAreEntries /\ Apart /\ EntriesOwned /\ CloneCurrent
    BY DEF BelowCounter, HeldAreEntries, Apart, EntriesOwned, CloneCurrent
  <1>3. BufferPlaces /\ BuffersLive
    BY DEF BufferPlaces, BuffersLive, Has
  <1> QED
    BY <1>1, <1>2, <1>3 DEF CallbackInv

\* A step of any thread, or of none, preserves the invariant.
LEMMA CallbackStep == CallbackInv /\ [Next]_vars => CallbackInv'
  <1>1. ASSUME CallbackInv, NEW t \in Threads, Decides(t) \/ Proceeds(t)
        PROVE  CallbackInv'
    <2> USE <1>1 DEF CallbackInv
    <2>1. TypeOK'
      <3>1. LocalTypes'
        BY TypesStep
      <3>2. \A u \in Threads : ThreadShape(u)'
        BY ShapeStep
      <3> QED
        BY <3>1, <3>2 DEF LocalTypes, TypeOK
    <2>2. BelowCounter' /\ HeldAreEntries' /\ Apart'
      BY BelowStep, HeldStep, ApartStep
    <2>3. EntriesOwned' /\ CloneCurrent'
      BY OwnedStep, CloneStep
    <2>4. BufferPlaces' /\ BuffersLive'
      BY PlacesStep, LiveStep
    <2> QED
      BY <2>1, <2>2, <2>3, <2>4
  <1>2. CASE UNCHANGED vars
    <2> USE DEF vars, mapVars, rustVars, bufferVars
    <2>1. CallbackInv => TypeOK'
      BY <1>2 DEF CallbackInv, TypeOK, ThreadShape
    <2>2. CallbackInv => BelowCounter' /\ HeldAreEntries' /\ Apart'
      BY <1>2 DEF CallbackInv, BelowCounter, HeldAreEntries, Apart
    <2>3. CallbackInv => EntriesOwned' /\ CloneCurrent'
      BY <1>2 DEF CallbackInv, EntriesOwned, Owned, CloneCurrent
    <2>4. CallbackInv => BufferPlaces' /\ BuffersLive'
      BY <1>2 DEF CallbackInv, BufferPlaces, BuffersLive, Has
    <2> QED
      BY <2>1, <2>2, <2>3, <2>4 DEF CallbackInv
  <1> QED
    BY <1>1, <1>2 DEF Next

\* The invariant holds whatever the threads do, and fairness plays no part.
THEOREM CallbackInvariant == Spec => []CallbackInv
  BY CallbackInit, CallbackStep, PTL DEF Spec

\* The types, and where a thread has which local.
THEOREM CallbackTypes == Spec => []TypeOK
  <1>1. CallbackInv => TypeOK
    BY DEF CallbackInv
  <1> QED
    BY <1>1, CallbackInvariant, PTL

\* get(), clone() and remove() find their handle.
THEOREM HandlesValid == Spec => []NoStaleHandle
  <1>1. CallbackInv => NoStaleHandle
    <2> SUFFICES ASSUME CallbackInv PROVE NoStaleHandle
      OBVIOUS
    <2> QED
      BY DEF CallbackInv, TypeOK, ThreadShape, HeldAreEntries, NoStaleHandle,
             Entries, InMethod, Handles, NoHandle
  <1> QED
    BY <1>1, CallbackInvariant, PTL

\* Every entry of the map has an owner, or a failed call has lost it.
THEOREM EntriesHaveOwners == Spec => []NoEntryLeaks
  <1>1. CallbackInv => NoEntryLeaks
    <2> SUFFICES ASSUME CallbackInv, NEW h \in Handles, map[h] # NoObject
                 PROVE  h \in InRust \cup Dropping \cup InTransit \cup lost
      BY DEF NoEntryLeaks, Entries
    <2>1. Owned(h) /\ h # NoHandle
      BY DEF CallbackInv, EntriesOwned, Handles, NoHandle
    <2>2. ASSUME NEW t \in Threads, fresh[t] = h PROVE pc[t] # "put"
      BY <2>1, <2>2 DEF CallbackInv, HeldAreEntries
    <2> QED
      BY <2>1, <2>2 DEF Owned, InRust, Dropping, InTransit
  <1> QED
    BY <1>1, CallbackInvariant, PTL

\* A handle has one owner, so that nobody frees what somebody else holds.
THEOREM HandlesHaveOneOwner == Spec => []OneOwner
  <1>1. CallbackInv => OneOwner
    <2> SUFFICES ASSUME CallbackInv PROVE OneOwner
      OBVIOUS
    <2> USE DEF CallbackInv, Apart
    <2>1. InRust \cap (Dropping \cup InTransit \cup lost) = {}
      BY DEF InRust, Dropping, InTransit
    <2>2. Dropping \cap (InTransit \cup lost) = {} /\ InTransit \cap lost = {}
      BY DEF Dropping, InTransit
    <2> QED
      BY <2>1, <2>2 DEF OneOwner
  <1> QED
    BY <1>1, CallbackInvariant, PTL

\* Every RustBuffer that is allocated is one thread's, where the side whose turn
\* it is will free it, whatever the outcome of the method.
THEOREM BuffersHaveOneOwner == Spec => []BuffersOwned
  <1>1. CallbackInv => BuffersOwned
    <2> SUFFICES ASSUME CallbackInv PROVE BuffersOwned
      OBVIOUS
    <2> USE CallbackAssumption DEF CallbackInv, BufferPlaces, BuffersLive, Has, BuffersOf
    <2>1. \A t \in Threads : BuffersOf(t) \subseteq Buffers
      BY DEF TypeOK
    <2>2. \A t \in Threads, b \in Buffers : b \in BuffersOf(t) <=> Has(t, b)
      OBVIOUS
    <2>3. live = UNION {BuffersOf(t) : t \in Threads}
      BY <2>1, <2>2 DEF TypeOK
    <2>4. \A t, u \in Threads : t # u => BuffersOf(t) \cap BuffersOf(u) = {}
      BY <2>1, <2>2
    <2> QED
      BY <2>3, <2>4 DEF BuffersOwned
  <1> QED
    BY <1>1, CallbackInvariant, PTL

-----------------------------------------------------------------------------
(* Kotlin's map implements the one with a lock *)

Used == {h \in Handles : h < counter} \ {fresh[t] : t \in {u \in Threads : pc[u] = "put"}}

Asks == [t \in Threads |-> Asked(t)]

Idle == [op |-> "none", obj |-> NoObject, handle |-> NoHandle]

\* What a step of the table does, with the refinement written out.
Asking(t) ==
    /\ Asks[t] = Idle
    /\ \/ \E o \in Objects :
            Asks' = [Asks EXCEPT ![t] = [op |-> "insert", obj |-> o, handle |-> NoHandle]]
       \/ \E h \in Handles :
            Asks' = [Asks EXCEPT ![t] = [op |-> "clone", obj |-> NoObject, handle |-> h]]
    /\ UNCHANGED <<map, Used>>

Inserting(t, o) ==
    /\ \E h \in Handles \ Used :
          /\ map' = [map EXCEPT ![h] = o]
          /\ Used' = Used \cup {h}
    /\ Asks' = [Asks EXCEPT ![t] = Idle]

Removing ==
    /\ \E h \in Handles : map[h] # NoObject /\ map' = [map EXCEPT ![h] = NoObject]
    /\ UNCHANGED <<Used, Asks>>

Same == UNCHANGED <<map, Used, Asks>>

Puts(t) ==
    \/ Asks[t].op = "insert" /\ Inserting(t, Asks[t].obj)
    \/ /\ Asks[t].op = "clone"
       /\ map[Asks[t].handle] # NoObject
       /\ Inserting(t, map[Asks[t].handle])

\* A handle is used when it is given out and its put is over.
LEMMA UsedDef ==
  /\ Used = {h \in Handles : h < counter /\ \A u \in Threads : pc[u] = "put" => fresh[u] # h}
  /\ Used' = {h \in Handles : h < counter' /\ \A u \in Threads : pc'[u] = "put" => fresh'[u] # h}
  BY DEF Used, Handles

\* No step changes what another thread has asked for.
LEMMA AsksStep ==
  ASSUME TypeOK, NEW t \in Threads, Decides(t) \/ Proceeds(t)
  PROVE  Asks' = [Asks EXCEPT ![t] = Asked(t)']
  <1> USE CallbackAssumption DEF TypeOK, Asks, Asked, Handles, NoHandle, Goto,
        vars, mapVars, rustVars, bufferVars
  <1>1. CASE \E o \in Objects : LowerObject(t, o)
    BY <1>1 DEF LowerObject
  <1>2. CASE TakeNumber(t)
    BY <1>2 DEF TakeNumber
  <1>3. CASE Put(t)
    BY <1>3 DEF Put
  <1>4. CASE PassFails(t)
    BY <1>4 DEF PassFails
  <1>5. CASE LiftObject(t)
    BY <1>5 DEF LiftObject
  <1>6. CASE Store(t)
    BY <1>6 DEF Store
  <1>7. CASE \E h \in stored : UseStored(t, h)
    BY <1>7 DEF UseStored
  <1>8. CASE \E h \in stored : DropStored(t, h)
    BY <1>8 DEF DropStored
  <1>9. CASE Return(t)
    BY <1>9 DEF Return
  <1>10. CASE DropArc(t)
    BY <1>10 DEF DropArc, End
  <1>11. CASE FreeHandle(t)
    BY <1>11 DEF FreeHandle, RemoveEntry, End
  <1>12. CASE LowerArc(t)
    BY <1>12 DEF LowerArc
  <1>13. CASE CloneGet(t)
    BY <1>13 DEF CloneGet
  <1>14. CASE ReturnObject(t)
    BY <1>14 DEF ReturnObject
  <1>15. CASE LiftReturned(t)
    BY <1>15 DEF LiftReturned, RemoveEntry
  <1>16. CASE CallMethod(t)
    BY <1>16 DEF CallMethod
  <1>17. CASE GetObject(t)
    BY <1>17 DEF GetObject
  <1>18. CASE LiftArgs(t)
    BY <1>18 DEF LiftArgs, RemoveEntry, FreeArg
  <1>19. CASE ArgsFail(t)
    BY <1>19 DEF ArgsFail, FreeArg
  <1>20. CASE MethodReturns(t)
    BY <1>20 DEF MethodReturns
  <1>21. CASE MethodThrows(t)
    BY <1>21 DEF MethodThrows, Raise
  <1>22. CASE MethodFails(t)
    BY <1>22 DEF MethodFails, Raise
  <1>23. CASE LiftResult(t)
    BY <1>23 DEF LiftResult
  <1>24. CASE ArgsFailLate(t)
    BY <1>24 DEF ArgsFailLate, RemoveEntry, FreeArg
  <1>25. CASE \E c \in Codes \ {"Success"} : ErrorNotLowered(t, c)
    BY <1>25 DEF ErrorNotLowered
  <1> QED BY <1>1, <1>2, <1>3, <1>4, <1>5, <1>6, <1>7, <1>8, <1>9, <1>10,
        <1>11, <1>12, <1>13, <1>14, <1>15, <1>16, <1>17, <1>18, <1>19, <1>20,
        <1>21, <1>22, <1>23, <1>24, <1>25 DEF Decides, Proceeds

\* Only put() completes an insertion; getAndAdd alone uses no handle.
LEMMA UsedStep ==
  ASSUME TypeOK, BelowCounter, NEW t \in Threads, Decides(t) \/ Proceeds(t)
  PROVE  pc[t] # "put" => Used' = Used
  <1> SUFFICES ASSUME NEW k \in Handles, pc[t] # "put"
               PROVE  (k < counter /\ \A u \in Threads : pc[u] = "put" => fresh[u] # k)
                        <=> (k < counter' /\ \A u \in Threads : pc'[u] = "put" => fresh'[u] # k)
    BY UsedDef
  <1> USE CallbackAssumption DEF TypeOK, ThreadShape, BelowCounter, Entries,
        Handles, NoHandle, Goto, vars, mapVars, rustVars, bufferVars
  <1>1. CASE \E o \in Objects : LowerObject(t, o)
    BY <1>1 DEF LowerObject
  <1>2. CASE TakeNumber(t)
    BY <1>2 DEF TakeNumber
  <1>3. CASE Put(t)
    BY <1>3 DEF Put
  <1>4. CASE PassFails(t)
    BY <1>4 DEF PassFails
  <1>5. CASE LiftObject(t)
    BY <1>5 DEF LiftObject
  <1>6. CASE Store(t)
    BY <1>6 DEF Store
  <1>7. CASE \E h \in stored : UseStored(t, h)
    BY <1>7 DEF UseStored
  <1>8. CASE \E h \in stored : DropStored(t, h)
    BY <1>8 DEF DropStored
  <1>9. CASE Return(t)
    BY <1>9 DEF Return
  <1>10. CASE DropArc(t)
    BY <1>10 DEF DropArc, End
  <1>11. CASE FreeHandle(t)
    BY <1>11 DEF FreeHandle, RemoveEntry, End
  <1>12. CASE LowerArc(t)
    BY <1>12 DEF LowerArc
  <1>13. CASE CloneGet(t)
    BY <1>13 DEF CloneGet
  <1>14. CASE ReturnObject(t)
    BY <1>14 DEF ReturnObject
  <1>15. CASE LiftReturned(t)
    BY <1>15 DEF LiftReturned, RemoveEntry
  <1>16. CASE CallMethod(t)
    BY <1>16 DEF CallMethod
  <1>17. CASE GetObject(t)
    BY <1>17 DEF GetObject
  <1>18. CASE LiftArgs(t)
    BY <1>18 DEF LiftArgs, RemoveEntry, FreeArg
  <1>19. CASE ArgsFail(t)
    BY <1>19 DEF ArgsFail, FreeArg
  <1>20. CASE MethodReturns(t)
    BY <1>20 DEF MethodReturns
  <1>21. CASE MethodThrows(t)
    BY <1>21 DEF MethodThrows, Raise
  <1>22. CASE MethodFails(t)
    BY <1>22 DEF MethodFails, Raise
  <1>23. CASE LiftResult(t)
    BY <1>23 DEF LiftResult
  <1>24. CASE ArgsFailLate(t)
    BY <1>24 DEF ArgsFailLate, RemoveEntry, FreeArg
  <1>25. CASE \E c \in Codes \ {"Success"} : ErrorNotLowered(t, c)
    BY <1>25 DEF ErrorNotLowered
  <1> QED BY <1>1, <1>2, <1>3, <1>4, <1>5, <1>6, <1>7, <1>8, <1>9, <1>10,
        <1>11, <1>12, <1>13, <1>14, <1>15, <1>16, <1>17, <1>18, <1>19, <1>20,
        <1>21, <1>22, <1>23, <1>24, <1>25 DEF Decides, Proceeds

\* The table's actions.
LEMMA TableStep ==
  ASSUME CallbackInv, NEW t \in Threads, Decides(t) \/ Proceeds(t)
  PROVE  Asking(t) \/ Puts(t) \/ Removing \/ Same
  <1> USE CallbackAssumption DEF CallbackInv, TypeOK, ThreadShape, Locations,
        InMethod, Asked, Idle, Handles, NoHandle, Goto, vars, mapVars, rustVars, bufferVars
  <1>asks. Asks' = [Asks EXCEPT ![t] = Asked(t)']
    BY AsksStep
  <1>used. pc[t] # "put" => Used' = Used
    BY UsedStep
  <1>def. Asks = [u \in Threads |-> Asked(u)]
    BY DEF Asks
  <1>1. CASE \E o \in Objects : LowerObject(t, o)
    <2> PICK o \in Objects : LowerObject(t, o)
      BY <1>1
    <2>1. Asked(t) = Idle
      BY DEF LowerObject
    <2>2. Asked(t)' = [op |-> "insert", obj |-> o, handle |-> NoHandle]
      BY DEF LowerObject
    <2>3. pc[t] # "put" /\ map' = map
      BY DEF LowerObject
    <2> QED
      BY <1>asks, <1>used, <1>def, <2>1, <2>2, <2>3 DEF Asking
  <1>2. CASE TakeNumber(t)
    <2>1. Asked(t)' = Asked(t)
      BY <1>2 DEF TakeNumber
    <2>2. pc[t] # "put" /\ map' = map
      BY <1>2 DEF TakeNumber
    <2>3. Asks' = Asks
      BY ONLY <1>asks, <1>def, <2>1
    <2> QED
      BY <1>used, <2>2, <2>3 DEF Same
  <1>3. CASE Put(t)
    <2> DEFINE h == fresh[t]
    <2>0. h \in Handles /\ h < counter /\ UNCHANGED <<counter, fresh>>
      BY <1>3 DEF Put, BelowCounter
    <2>1. h \in Handles \ Used
      BY <1>3, <2>0, UsedDef DEF Put
    <2>other. ASSUME NEW k \in Handles, k # h
           PROVE  (\A u \in Threads : pc[u] = "put" => fresh[u] # k)
                    <=> (\A u \in Threads : pc'[u] = "put" => fresh'[u] # k)
      BY <1>3, <2>0, <2>other DEF Put
    <2>own. \A u \in Threads : pc'[u] = "put" => fresh'[u] # h
      BY <1>3, <2>0 DEF Put, Apart
    <2>add. Used' = Used \cup {h}
      BY <2>0, <2>1, <2>other, <2>own, UsedDef
    <2>2. Asked(t)' = Idle /\ map' = [map EXCEPT ![h] = obj[t]]
      BY <1>3 DEF Put
    <2>3. Inserting(t, obj[t])
      BY <2>1, <2>add, <2>2, <1>asks DEF Inserting
    <2>4. CASE arc[t] = NoHandle
      BY <1>3, <1>def, <2>3, <2>4 DEF Put, Puts
    <2>5. CASE arc[t] # NoHandle
      BY <1>3, <1>def, <2>3, <2>5 DEF Put, Puts, CloneCurrent, HeldAreEntries
    <2> QED
      BY <2>4, <2>5
  <1>4. CASE PassFails(t)
    BY <1>asks, <1>used, <1>def, <1>4 DEF PassFails, Same
  <1>5. CASE LiftObject(t)
    BY <1>asks, <1>used, <1>def, <1>5 DEF LiftObject, Same
  <1>6. CASE Store(t)
    BY <1>asks, <1>used, <1>def, <1>6 DEF Store, Same
  <1>7. CASE \E h \in stored : UseStored(t, h)
    BY <1>asks, <1>used, <1>def, <1>7 DEF UseStored, Same
  <1>8. CASE \E h \in stored : DropStored(t, h)
    BY <1>asks, <1>used, <1>def, <1>8 DEF DropStored, Same
  <1>9. CASE Return(t)
    BY <1>asks, <1>used, <1>def, <1>9 DEF Return, Same
  <1>10. CASE DropArc(t)
    BY <1>asks, <1>used, <1>def, <1>10 DEF DropArc, End, Same
  <1>11. CASE FreeHandle(t)
    BY <1>asks, <1>used, <1>def, <1>11 DEF FreeHandle, RemoveEntry, End, Removing, Entries
  <1>12. CASE LowerArc(t)
    <2>1. Asked(t) = Idle
      BY <1>12 DEF LowerArc
    <2>2. Asked(t)' = [op |-> "clone", obj |-> NoObject, handle |-> arc[t]]
      BY <1>12 DEF LowerArc
    <2>3. pc[t] # "put" /\ map' = map /\ arc[t] \in Handles
      BY <1>12 DEF LowerArc
    <2> QED
      BY <1>asks, <1>used, <1>def, <2>1, <2>2, <2>3 DEF Asking
  <1>13. CASE CloneGet(t)
    <2>1. Asked(t)' = Asked(t)
      BY <1>13 DEF CloneGet
    <2>2. pc[t] # "put" /\ map' = map
      BY <1>13 DEF CloneGet
    <2>3. Asks' = Asks
      BY ONLY <1>asks, <1>def, <2>1
    <2> QED
      BY <1>used, <2>2, <2>3 DEF Same
  <1>14. CASE ReturnObject(t)
    BY <1>asks, <1>used, <1>def, <1>14 DEF ReturnObject, Same
  <1>15. CASE LiftReturned(t)
    BY <1>asks, <1>used, <1>def, <1>15 DEF LiftReturned, RemoveEntry, Removing, Entries
  <1>16. CASE CallMethod(t)
    BY <1>asks, <1>used, <1>def, <1>16 DEF CallMethod, Same
  <1>17. CASE GetObject(t)
    BY <1>asks, <1>used, <1>def, <1>17 DEF GetObject, Same
  <1>18. CASE LiftArgs(t)
    BY <1>asks, <1>used, <1>def, <1>18 DEF LiftArgs, RemoveEntry, FreeArg, Removing, Same, Entries
  <1>19. CASE ArgsFail(t)
    BY <1>asks, <1>used, <1>def, <1>19 DEF ArgsFail, FreeArg, Same
  <1>20. CASE MethodReturns(t)
    BY <1>asks, <1>used, <1>def, <1>20 DEF MethodReturns, Same
  <1>21. CASE MethodThrows(t)
    BY <1>asks, <1>used, <1>def, <1>21 DEF MethodThrows, Raise, Same
  <1>22. CASE MethodFails(t)
    BY <1>asks, <1>used, <1>def, <1>22 DEF MethodFails, Raise, Same
  <1>23. CASE LiftResult(t)
    BY <1>asks, <1>used, <1>def, <1>23 DEF LiftResult, Same
  <1>24. CASE ArgsFailLate(t)
    BY <1>asks, <1>used, <1>def, <1>24 DEF ArgsFailLate, RemoveEntry, FreeArg, Removing, Entries
  <1>25. CASE \E c \in Codes \ {"Success"} : ErrorNotLowered(t, c)
    BY <1>asks, <1>used, <1>def, <1>25 DEF ErrorNotLowered, Same
  <1> QED BY <1>1, <1>2, <1>3, <1>4, <1>5, <1>6, <1>7, <1>8, <1>9, <1>10,
        <1>11, <1>12, <1>13, <1>14, <1>15, <1>16, <1>17, <1>18, <1>19, <1>20,
        <1>21, <1>22, <1>23, <1>24, <1>25 DEF Decides, Proceeds

\* Kotlin's operations, in steps and without a lock, take effect as those of the
\* maps with a lock do: no handle is given out twice, and a clone is of the
\* object that the original still has.
THEOREM MapImplementsTable == Spec => ImplementsTable
  <1>1. Init => Table!TableInit
    <2> SUFFICES ASSUME Init PROVE Table!TableInit
      OBVIOUS
    <2> USE CallbackAssumption DEF Init, Handles, NoHandle
    <2>1. Used = {}
      BY UsedDef
    <2>2. \A t \in Threads : Asked(t) = Idle
      BY DEF Asked, Idle
    <2> QED
      BY <2>1, <2>2 DEF Table!TableInit, Table!Nothing, Table!Request, Idle, Used
  <1>2. CallbackInv /\ [Next]_vars => [Table!TableNext]_(Table!tableVars)
    <2> USE DEF Table!TableNext, Table!tableVars, Table!Request, Table!Nothing,
                Table!Insertions, Table!Clones, Idle, Used, Asks
    <2>1. ASSUME CallbackInv, NEW t \in Threads, Decides(t) \/ Proceeds(t)
          PROVE  [Table!TableNext]_(Table!tableVars)
      <3>1. CASE Asking(t)
        BY <3>1 DEF Asking, Table!Call
      <3>2. CASE Puts(t)
        BY <3>2 DEF Puts, Inserting, Table!Insert, Table!Clone, Table!DoInsert
      <3>3. CASE Removing
        BY <3>3 DEF Removing, Table!Remove
      <3>4. CASE Same
        BY <3>4 DEF Same
      <3> QED
        BY <2>1, TableStep, <3>1, <3>2, <3>3, <3>4
    <2>2. UNCHANGED vars => UNCHANGED <<map, Used, Asks>>
      BY DEF vars, mapVars, rustVars, bufferVars, Asked
    <2> QED
      BY <2>1, <2>2 DEF Next
  <1> QED
    BY <1>1, <1>2, CallbackInvariant, PTL DEF Spec, ImplementsTable, Table!TableSpec

-----------------------------------------------------------------------------
(* What follows for the handles over time *)

\* A handle in the map has been given out.
LEMMA EntriesUsed == ASSUME CallbackInv PROVE Entries \subseteq Used
  <1>1. \A h \in Entries : h \in Handles /\ h < counter
    BY DEF CallbackInv, BelowCounter, Entries
  <1>2. ASSUME NEW h \in Entries, NEW t \in Threads, pc[t] = "put" PROVE fresh[t] # h
    BY <1>1, <1>2 DEF CallbackInv, HeldAreEntries, TypeOK, ThreadShape, Entries
  <1> QED
    BY <1>1, <1>2, UsedDef

\* A handle that was given out is never given out again, and its entry only goes.
NeverReassigned ==
  [][\A h \in Used : h \in Used' /\ map'[h] \in {map[h], NoObject}]_vars

\* The counter's getAndAdd without a lock is enough: no interleaving of insert(), clone()
\* and remove() makes a stale handle name another object.
THEOREM HandlesNeverReused == Spec => NeverReassigned
  <1>1. ASSUME CallbackInv, NEW t \in Threads, Decides(t) \/ Proceeds(t)
        PROVE  \A h \in Used : h \in Used' /\ map'[h] \in {map[h], NoObject}
    <2>a. map \in [Handles -> Objects \cup {NoObject}] /\ Used \subseteq Handles
      BY <1>1 DEF CallbackInv, TypeOK, Used
    <2>1. CASE Asking(t)
      BY <2>1 DEF Asking
    <2>2. CASE Puts(t)
      <3>1. PICK o : Inserting(t, o)
        BY <2>2 DEF Puts
      <3> QED
        BY <2>a, <3>1 DEF Inserting
    <2>3. CASE Removing
      BY <2>a, <2>3 DEF Removing
    <2>4. CASE Same
      BY <2>4 DEF Same
    <2> QED
      BY <1>1, <2>1, <2>2, <2>3, <2>4, TableStep
  <1>2. ASSUME CallbackInv, [Next]_vars, vars' # vars
        PROVE  \A h \in Used : h \in Used' /\ map'[h] \in {map[h], NoObject}
    BY <1>1, <1>2 DEF Next
  <1>3. CallbackInv /\ [Next]_vars
           => [\A h \in Used : h \in Used' /\ map'[h] \in {map[h], NoObject}]_vars
    BY <1>2
  <1> QED
    BY <1>3, CallbackInvariant, PTL DEF Spec, NeverReassigned

\* A handler in Rust reaches the same object as long as it lives.
HandlerKeepsObject ==
  [][\A h \in InRust \cap InRust' : map'[h] = map[h] /\ map[h] # NoObject]_vars

\* What Rust holds an Arc of is the object that it was given, whatever is inserted, cloned
\* and removed meanwhile.
THEOREM HandlersKeepTheirObject == Spec => HandlerKeepsObject
  <1>1. ASSUME CallbackInv, NEW h \in InRust PROVE h \in Entries
    BY <1>1 DEF CallbackInv, TypeOK, HeldAreEntries, InRust, Entries
  <1>2. ASSUME CallbackInv, CallbackInv',
               \A h \in Used : h \in Used' /\ map'[h] \in {map[h], NoObject},
               NEW h \in InRust, h \in InRust'
        PROVE  map'[h] = map[h] /\ map[h] # NoObject
    <2>1. h \in Entries /\ h \in Used
      BY <1>1, <1>2, EntriesUsed
    <2>2. map'[h] # NoObject
      BY <1>2 DEF CallbackInv, TypeOK, HeldAreEntries, InRust
    <2> QED
      BY <1>2, <2>1, <2>2 DEF Entries
  <1>3. CallbackInv /\ CallbackInv'
        /\ [\A h \in Used : h \in Used' /\ map'[h] \in {map[h], NoObject}]_vars
           => [\A h \in InRust \cap InRust' : map'[h] = map[h] /\ map[h] # NoObject]_vars
    BY <1>2
  <1> QED
    BY <1>3, CallbackInvariant, HandlesNeverReused, PTL DEF NeverReassigned, HandlerKeepsObject

\* An entry that Rust no longer holds is with a thread that is on its way to remove it or
\* to hand it over.
ReleaseExpected ==
  \A h \in Entries \ (InRust \cup lost) : \E t \in Threads :
      \/ pc[t] = "free" /\ gone[t] = h
      \/ /\ pc[t] \in {"passing", "lowered", "get", "args", "drop", "free", "lift"}
         /\ fresh[t] = h

\* The safety part of EntryReleased: what is left to fairness is that such a thread goes on.
THEOREM ReleaseIsOwed == Spec => []ReleaseExpected
  <1>1. CallbackInv => ReleaseExpected
    <2> SUFFICES ASSUME CallbackInv, NEW h \in Handles, map[h] # NoObject,
                        h \notin InRust, h \notin lost
                 PROVE  \E t \in Threads :
                          \/ pc[t] = "free" /\ gone[t] = h
                          \/ /\ pc[t] \in {"passing", "lowered", "get", "args", "drop", "free",
                                           "lift"}
                             /\ fresh[t] = h
      BY DEF ReleaseExpected, Entries
    <2>1. Owned(h) /\ h # NoHandle
      BY DEF CallbackInv, EntriesOwned, Handles, NoHandle
    <2>2. PICK t \in Threads : gone[t] = h \/ fresh[t] = h
      BY <2>1 DEF Owned, InRust
    <2>3. pc[t] # "put" \/ fresh[t] # h
      BY <2>1 DEF CallbackInv, HeldAreEntries
    <2> QED
      BY <2>1, <2>2, <2>3 DEF CallbackInv, TypeOK, ThreadShape, Locations, InMethod
  <1> QED
    BY <1>1, CallbackInvariant, PTL

\* When no call is under way the map holds what Rust has stored and what failed calls have
\* lost, neither more nor less, and every RustBuffer is free.
AtRest ==
  (\A t \in Threads : pc[t] = "idle") => Entries = stored \cup lost /\ live = {}

\* The account is closed after every call, however it ended.
THEOREM CallsBalance == Spec => []AtRest
  <1>1. CallbackInv => AtRest
    <2> SUFFICES ASSUME CallbackInv, \A t \in Threads : pc[t] = "idle"
                 PROVE  Entries = stored \cup lost /\ live = {}
      BY DEF AtRest
    <2>1. \A t \in Threads : arc[t] = NoHandle /\ gone[t] = NoHandle /\ fresh[t] = NoHandle
      BY DEF CallbackInv, TypeOK, ThreadShape
    <2>2. \A h \in Handles : map[h] # NoObject => h \in stored \cup lost
      BY <2>1 DEF CallbackInv, EntriesOwned, Owned, Handles, NoHandle
    <2>3. \A h \in stored \cup lost : h \in Handles /\ map[h] # NoObject
      BY DEF CallbackInv, TypeOK, HeldAreEntries
    <2>4. \A t \in Threads :
             arg[t] = NoBuffer /\ ret[t] = NoBuffer /\ err[t] = NoBuffer
      BY DEF CallbackInv, BufferPlaces
    <2>5. live = {}
      BY <2>4, CallbackAssumption DEF CallbackInv, TypeOK, BuffersLive, Has
    <2> QED
      BY <2>2, <2>3, <2>5 DEF Entries
  <1> QED
    BY <1>1, CallbackInvariant, PTL
=============================================================================
