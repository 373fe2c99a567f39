\* The indexer with its API, and the event gateway.
CONSTANTS
    d1 = d1
    w1 = w1
    Passes = {1, 2}
    Asks = {1}
    BatchSize = 2
    MaxHead = 3
    TxBlocks = {2, 3}
    LogBlocks = {2}
    MaxIndexFaults <- MCFaults
    Deposits = {d1}
    Withdrawals = {w1}
    BridgeBatch = 2
    StartBlock <- MCStartBlock
    MaxBridgeFaults = 1
    GatewayPolls = {1, 2}
    Remembered = 2
    MaxGateway = 1
SPECIFICATION FairObserversSpec
CONSTRAINT ObserversScope
INVARIANTS CursorLeavesNoHole RowsFollowBridge GatewayDelivers
PROPERTIES BlocksAreServed BridgeCatchesUp
CHECK_DEADLOCK FALSE
