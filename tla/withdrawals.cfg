\* Two withdrawals from L2 to the payment on L1.
CONSTANTS
    w1 = w1
    w2 = w2
    WithdrawalIds = {w1, w2}
    NoRow = NoRow
    NoHash = NoHash
    BatchSize = 1
    ListSize = 2
    MaxL2Block = 2
    Polls = {1, 2}
    MaxFaults <- MCFaults
SPECIFICATION FairWithdrawalSpec
CONSTRAINT WithdrawalScope
INVARIANTS MarksFollowL1 PollsLeaveNoGap BatchesFollowL1
PROPERTY QueuedIsFinalized
CHECK_DEADLOCK FALSE
