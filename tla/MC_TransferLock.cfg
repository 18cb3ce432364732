SPECIFICATION FairLock
CONSTANTS
    Proc = {p1, p2, p3}
    Inode = {i1, i2, i3}
    NoOne = NoOne
INVARIANTS
    HeldLockIsNamed
    PartialKeepsLock
PROPERTIES
    NoForeignUnlink
    ImplementsMutex
    NoLockout
