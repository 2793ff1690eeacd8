SPECIFICATION Spec
CONSTANTS
    Objects = {o1, o2}
    Threads = {t1, t2}
    Buffers = {b1, b2}
    NoObject = NoObject
    NoBuffer = NoBuffer
    MaxHandle = 3
CHECK_DEADLOCK FALSE
INVARIANTS
    TypeOK
    NoStaleHandle
    NoEntryLeaks
    OneOwner
    BuffersOwned
PROPERTIES
    ImplementsTable
    EntryReleased
