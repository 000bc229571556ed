SPECIFICATION StoreSpec
CONSTANTS
    Device = {d1, d2}
    Timestamps = {1, 2, 3}
    KeepCount = 2
    MaxMessages = 4
    MaxFaults = 1
INVARIANTS LatestCoversCache CacheKeepsNewest LastMessageShows
PROPERTY PruneSettles
CHECK_DEADLOCK FALSE
