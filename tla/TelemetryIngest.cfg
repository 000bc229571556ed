SPECIFICATION Spec
CONSTANTS
    d1 = d1
    d2 = d2
    Device <- MCDevice
    LastMessage <- MCLastMessage
    Rows <- MCRows
    Metas <- MCMetas
    Broken <- MCBroken
    Key <- MCKey
    DeviceOf <- MCDeviceOf
    QueueSize = 2
    BatchSize = 2
    MaxFailures = 1
    MaxOutages = 1
INVARIANTS EveryRowIsAccounted StoredRowsAreSound StoredInOrder
PROPERTIES MetaNeverGoesBack AcceptedIsStored
CHECK_DEADLOCK FALSE
