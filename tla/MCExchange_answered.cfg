\* Both peers send and answer over a lossy transport; A fills its send window and replies.
SPECIFICATION FairSpec
CONSTANTS
    CAP = 3
    SeqNoMod = 12
    InitialSeqNo = 11
    ResendInterval = 0
    MaxTime = 1
    None = None
    Data <- MCData
    Peer <- MCPeer
    MaxPayloads <- MCMaxPayloads
    MaxReplies <- MCMaxReplies
    PayloadsA = 3
    PayloadsB = 1
    RepliesA = 1
    RepliesB = 0
    MaxDeliveries = 5
    MaxLosses = 1
    SeqCstModes = {TRUE}
PROPERTY EveryPacketAnswered
\* Once everything is sent and answered, nothing is left to do.
CHECK_DEADLOCK FALSE
