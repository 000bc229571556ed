SPECIFICATION OutboxSpec
CONSTANTS
    Device = {d1}
    Alias = {a, b}
    NoAlias = NoAlias
    Slots = {1, 2}
    MaxItems = 2
    MaxTimeouts = 2
INVARIANTS SyncedWasApplied FirstExecutionsInOrder PendingIsWatched
PROPERTY PendingDrains
CHECK_DEADLOCK FALSE
