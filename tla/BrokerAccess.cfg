SPECIFICATION Spec
CONSTANTS
    User = {u1, u2}
    Device = {d1}
    NoDevice = NoDevice
    Kind = {"telemetry", "meta"}
    Worker = Worker
    TokenLife = 2
    CacheLife = 1
INVARIANTS DeliveredIsClaimed PrintedCodeWorks HeardUnlessLapsed
PROPERTY WorkerReturns
