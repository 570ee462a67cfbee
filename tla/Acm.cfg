SPECIFICATION FairSpec
CONSTANTS
    DEFAULT_ADMIN_ROLE = admin
    AnyContract = any
    Ops <- MCOps
    Roles = {admin, role}
    Accounts = {a}
    ChunkSizes = {1, 2}
    MaxBlock = 2
    MaxDiscards = 1
CONSTRAINT WhatMatters
INVARIANTS SnapshotsAreTrue OutputsFollow ResolvedStays
PROPERTIES ChangesAreVerified HeightNeverDrops CatchesUp
CHECK_DEADLOCK FALSE
